-------------------------- MODULE MC_AdaptiveFilter --------------------------
(***************************************************************************)
(* A key is written <<fingerprint, chunk 1, chunk 2>>: four keys share one *)
(* fingerprint, so that a minirun of several items is queried by strangers *)
(* that agree with them on zero, one or two chunks.                        *)
(***************************************************************************)
EXTENDS AdaptiveFilter

MC_Chunks == {0, 1}
MC_Keys == {<<"f", 0, 0>>, <<"f", 0, 1>>, <<"f", 1, 0>>, <<"f", 1, 1>>, <<"g", 0, 0>>}
MC_FpOf == [k \in MC_Keys |-> k[1]]
MC_ChunkOf == [k \in MC_Keys |-> [j \in 1 .. 2 |-> k[j + 1]]]
=============================================================================
