----------------------------- MODULE MCLockOrder -----------------------------
(* No definition of LockOrder chooses among the sessions, and the run has  *)
(* no liveness property: they may be permuted.                             *)
EXTENDS LockOrder, TLC

Symmetry == Permutations(Sessions)
=============================================================================
