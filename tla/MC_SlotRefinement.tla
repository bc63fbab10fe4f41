-------------------------- MODULE MC_SlotRefinement --------------------------
(***************************************************************************)
(* Four buckets in blocks of two, slots of two bits, hashes of ten bits:   *)
(* three chunks above the fingerprint.  Hash(b, r, c, d, e) has bucket b,  *)
(* remainder r and chunks c, d, e.                                         *)
(***************************************************************************)
EXTENDS SlotRefinement

Hash(b, r, c, d, e) == r + 4 * b + 16 * c + 64 * d + 256 * e

\* The last two buckets, with an overflow area of four slots behind them.  At
\* the full point the area is full, so that a charge always has a slot and an
\* extension of three chunks may not have.
MC_Keys == {Hash(3, 1, 0, 0, 0), Hash(3, 1, 0, 0, 1), Hash(3, 1, 2, 0, 0), Hash(3, 2, 0, 0, 0),
            Hash(2, 1, 0, 0, 0), Hash(2, 1, 0, 3, 0)}
=============================================================================
