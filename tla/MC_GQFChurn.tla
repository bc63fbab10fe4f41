---------------------------- MODULE MC_GQFChurn ----------------------------
(***************************************************************************)
(* Eight buckets in blocks of two, slots of two bits, two chunks above the *)
(* fingerprint: Hash(b, r, c, d) has bucket b, remainder r, chunks c, d.   *)
(***************************************************************************)
EXTENDS GQFChurn

Hash(b, r, c, d) == r + 4 * b + 32 * c + 128 * d

\* Two remainders in a bucket, the smaller one met twice.
MC_TwoRemainders == {Hash(1, 1, 0, 0), Hash(1, 1, 2, 0), Hash(1, 3, 0, 0)}

\* A bucket whose run reaches through the following blocks.
MC_LongRun == {Hash(1, 1, 0, 0), Hash(1, 1, 0, 1), Hash(1, 1, 0, 2), Hash(2, 1, 0, 0), Hash(3, 2, 0, 0)}
=============================================================================
