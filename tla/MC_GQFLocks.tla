----------------------------- MODULE MC_GQFLocks -----------------------------
(***************************************************************************)
(* Regions of four slots, clusters of two: operations start at the upper   *)
(* border of a region, at the lower border of the next, and at a region's  *)
(* first slot.                                                             *)
(***************************************************************************)
EXTENDS GQFLocks
=============================================================================
