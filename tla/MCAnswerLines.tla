---------------------------- MODULE MCAnswerLines ---------------------------
(***************************************************************************)
(* Small instances of AnswerLines: a multiple choice p with labels a and   *)
(* b, a simple choice c that both trigger, a number n triggered by c's     *)
(* label, and the char question m whose answer is saved as the e-mail.     *)
(***************************************************************************)
EXTENDS AnswerLines, TLC

CONSTANTS p, c, n, m, a, b, d

MCQuestions == {p, c, n, m}
MCKind      == p :> "choice" @@ c :> "choice" @@ n :> "typed" @@ m :> "char"
MCLabelsOf  == p :> {a, b} @@ c :> {d} @@ n :> {} @@ m :> {}
MCTriggers  == p :> {} @@ c :> {a, b} @@ n :> {d} @@ m :> {}

Symmetry == Permutations(Workers)
=============================================================================
