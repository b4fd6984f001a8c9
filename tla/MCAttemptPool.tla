---------------------------- MODULE MCAttemptPool ---------------------------
(***************************************************************************)
(* Small instances of AttemptPool.                                         *)
(***************************************************************************)
EXTENDS AttemptPool, TLC

\* Requests and rows are interchangeable.
Symmetry == Permutations(Starters) \cup Permutations(Clients) \cup Permutations(Attempts)
=============================================================================
