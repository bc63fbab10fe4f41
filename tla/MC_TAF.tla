------------------------------- MODULE MC_TAF -------------------------------
(***************************************************************************)
(* The telescoping filter with one quotient more than a block has slots:   *)
(* two elements of quotient 0 push every later run one slot on, and the    *)
(* middle block is full of the ends of runs.                               *)
(***************************************************************************)
EXTENDS TAF

\* An element's quotient and the remainders its selectors choose.
H(q, a, b, c) == q + 4 * a + 8 * b + 16 * c

MC_Elts == {H(0, 1, 0, 0), H(0, 1, 1, 0), H(1, 1, 0, 0), H(2, 1, 0, 0), H(3, 0, 0, 0)}
=============================================================================
