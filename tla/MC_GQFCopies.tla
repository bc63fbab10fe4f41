--------------------------- MODULE MC_GQFCopies ---------------------------
(***************************************************************************)
(* Eight buckets in blocks of two, slots of two bits, two chunks above the *)
(* fingerprint: Hash(b, r, c, d) has bucket b, remainder r, chunks c, d.   *)
(***************************************************************************)
EXTENDS GQFCopies

Hash(b, r, c, d) == r + 4 * b + 32 * c + 128 * d

\* One remainder per bucket, so that removals never step over another one:
\* three keys of one fingerprint, two of the next bucket's, one behind them.
MC_Keys == {Hash(1, 1, 0, 0), Hash(1, 1, 0, 1), Hash(1, 1, 2, 0),
            Hash(2, 2, 1, 0), Hash(2, 2, 1, 3), Hash(3, 1, 0, 0)}
=============================================================================
