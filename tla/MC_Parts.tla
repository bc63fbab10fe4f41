------------------------------ MODULE MC_Parts ------------------------------
(***************************************************************************)
(* HybridSkiQF's windows, the partitioned counter and the two baselines,   *)
(* the telescoping filter and the adaptive cuckoo filter, share nothing.   *)
(* This instance checks all four: part says which of them a behaviour is   *)
(* of, and the others stay as they were at the start.                      *)
(***************************************************************************)
EXTENDS HybridWindow, PartitionedCounter, TAF, ACF

VARIABLE part

MC_Keys == {<<"f", 0, 0>>, <<"f", 0, 1>>, <<"f", 1, 0>>, <<"g", 0, 0>>}
MC_FpOf == [k \in MC_Keys |-> k[1]]
MC_ChunkOf == [k \in MC_Keys |-> [j \in 1 .. 2 |-> k[j + 1]]]
MC_PiecesOf == [k \in MC_Keys |-> {<<j, k[j]>> : j \in 1 .. 3}]

\* An element's quotient and the remainders its selectors choose.
H(q, a, b, c) == q + 4 * a + 8 * b + 16 * c
MC_Elts == {H(0, 1, 0, 0), H(0, 1, 1, 0), H(1, 1, 0, 0), H(1, 1, 0, 1), H(1, 1, 1, 0), H(2, 1, 0, 0)}

\* An item's two hashes and its tags under the two selectors.
MC_ItemType == {<<2, 0, 0, 2>>, <<2, 0, 1, 1>>, <<2, 2, 2, 1>>, <<0, 0, 1, 3>>, <<0, 2, 3, 3>>, <<0, 2, 0, 1>>}
MC_Hasher == [i \in MC_ItemType |-> i[1]]
MC_AltHasher == [i \in MC_ItemType |-> i[2]]
MC_HashFcns == [s \in 0 .. 1 |-> [i \in MC_ItemType |-> i[3 + s]]]

\* In an odd bucket the second selector leads in front of hash_fcns, to one
\* of two functions: the one expected there, or one that gives all the same tag.
MC_OutsideFcns == {MC_HashFcns[1], [i \in MC_ItemType |-> 1]}

\* Additions and the removals' negative counts, one of them larger than the
\* band so that a single call spills.
MC_Deltas == {-1, 2}

PartsInit ==
    /\ part \in {"hybrid", "counter", "taf", "acf"}
    /\ HInit
    /\ PCInit
    /\ TafInit
    /\ ACFInit
    /\ part # "acf" => /\ hash_sels = [i \in Buckets |-> 0]
                       /\ outside = [s \in OutsideSels |-> MC_HashFcns[1]]

PartsNext ==
    \/ part = "hybrid" /\ HNext /\ UNCHANGED <<part, pcVars, tafVars, acfVars>>
    \/ part = "counter" /\ PCNext /\ UNCHANGED <<part, hvars, tafVars, acfVars>>
    \/ part = "taf" /\ TafNext /\ UNCHANGED <<part, hvars, pcVars, acfVars>>
    \/ part = "acf" /\ ACFNext /\ UNCHANGED <<part, hvars, pcVars, tafVars>>

PartsSpec ==
    /\ PartsInit
    /\ [][PartsNext]_<<part, hvars, pcVars, tafVars, acfVars>>
    /\ WF_hvars(HybridQueries)
=============================================================================
