---------------------------- MODULE MC_SlotFilter ----------------------------
(***************************************************************************)
(* Eight buckets in blocks of two, slots of two bits, hashes of nine bits: *)
(* two chunks above the fingerprint.  Hash(b, r, c, d) is the hash with    *)
(* bucket b, remainder r and chunks c, d.                                  *)
(***************************************************************************)
EXTENDS SlotFilter

Hash(b, r, c, d) == r + 4 * b + 32 * c + 128 * d

\* Three keys of one fingerprint, which differ in the first or only in the
\* second chunk, a larger remainder in the same bucket, and the bucket behind
\* it, in the next block.
MC_Keys == {Hash(1, 1, 0, 0), Hash(1, 1, 0, 1), Hash(1, 1, 2, 0),
            Hash(1, 3, 0, 0), Hash(2, 1, 0, 2)}
=============================================================================
