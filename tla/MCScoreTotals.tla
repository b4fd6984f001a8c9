---------------------------- MODULE MCScoreTotals ---------------------------
(***************************************************************************)
(* Small instances of ScoreTotals: one choice question that triggers a     *)
(* conditional scalar.                                                     *)
(***************************************************************************)
EXTENDS ScoreTotals, TLC

CONSTANTS choice, scalar

ChoiceQuestions == {choice}
ScalarQuestions == {scalar}
TriggeredBy     == scalar :> choice

\* Workers and attempts are interchangeable.
Symmetry == Permutations(Writers) \cup Permutations(Graders) \cup Permutations(Attempts)
=============================================================================
