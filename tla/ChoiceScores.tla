---------------------------- MODULE ChoiceScores -----------------------------
(***************************************************************************)
(* The score of one choice or matrix answer of a session attempt: a raw    *)
(* score from the weights of the labels it names, a speed factor, and one  *)
(* stored line per label or cell with its share.  Officers change labels   *)
(* and settings at any time; a regrade grades the stored lines anew by the *)
(* labels of the day and the speed factor recorded with them.              *)
(*                                                                         *)
(* Scores are whole numbers of 1/Whole points, factors of 1/Whole; the     *)
(* rounding of floating point is not modelled.  Lines stored before the    *)
(* factor was recorded are not either.                                     *)
(***************************************************************************)
EXTENDS Integers, FiniteSetsExt

CONSTANTS Labels,        \* choice labels, or matrix columns
          MatrixRows,    \* row labels of a matrix
          OneRow,        \* the row of an answer that is not a matrix
          LabelRows,     \* what an officer may make of a label
          FullMark,      \* answer_score of the question
          Factors,       \* speed factors
          Whole,         \* the factor 1
          Unscored       \* no score, no factor

LabelRow == [live : BOOLEAN, correct : BOOLEAN, weight : Int]

ASSUME ScoresAssumption ==
    /\ IsFiniteSet(Labels) /\ IsFiniteSet(MatrixRows)
    /\ \A row \in LabelRows : row \in LabelRow
    /\ Whole \in Nat \ {0}
    /\ FullMark \in Int
    /\ \A f \in Factors : f \in 1..Whole /\ 2 * f >= Whole
    /\ Unscored \notin Int

VARIABLES
    choiceKind,   \* question_type
    label,        \* the label rows
    scoring,      \* whether the question is scored, and speed-rated
    chosen,       \* the cells of the stored lines
    share,        \* the score of each
    factor,       \* the speed factor recorded with them
    submitted     \* history: the marking and the scores at the submit

scoresVars == <<choiceKind, label, scoring, chosen, share, factor, submitted>>

-----------------------------------------------------------------------------
Kinds   == {"simple", "multiple", "matrix"}
Scoring == [scored : BOOLEAN, rated : BOOLEAN]
Cells   == (MatrixRows \cup {OneRow}) \X Labels
Shares  == [Cells -> Int \cup {Unscored}]
Nothing == [c \in Cells |-> Unscored]

\* What an answer is graded by: the question's type, its labels and its settings.
Marking == [kind : Kinds, label : [Labels -> LabelRows], scoring : Scoring]
Now     == [kind |-> choiceKind, label |-> label, scoring |-> scoring]

\* What a submit found, and what it stored.
Record == [marking : Marking, share : Shares]

ScoresTypeOK ==
    /\ choiceKind \in Kinds
    /\ label \in [Labels -> LabelRows]
    /\ scoring \in Scoring
    /\ chosen \subseteq Cells
    /\ choiceKind = "simple" /\ chosen # {} => \E c \in Cells : chosen = {c}
    /\ share \in Shares
    /\ factor \in Factors \cup {Unscored}
    /\ submitted \in Record
    /\ chosen = {} => share = Nothing /\ factor = Unscored
    /\ {c \in Cells : submitted.share[c] # Unscored} \subseteq chosen

ScoresInit ==
    /\ choiceKind \in Kinds
    /\ label \in [Labels -> {row \in LabelRows : row.live}]
    /\ scoring \in Scoring
    /\ chosen = {}
    /\ share = Nothing
    /\ factor = Unscored
    /\ submitted = [marking |-> Now, share |-> Nothing]

-----------------------------------------------------------------------------
(* Grading, by the marking m of some moment *)

Live(m, c)    == m.label[c[2]].live
Correct(m, c) == Live(m, c) /\ m.label[c[2]].correct

\* answer_weight: a correct label without a weight of its own earns the question's;
\* a label that is gone earns nothing.
AnswerWeight(m, c) ==
    IF ~Live(m, c) THEN 0
    ELSE IF m.label[c[2]].weight # 0 THEN m.label[c[2]].weight
    ELSE IF m.label[c[2]].correct THEN FullMark ELSE 0

\* What an accepted answer names: labels of the question, one for a simple choice
\* (normalize_set_draft); the matrix is one that takes several columns per row.
Answers ==
    {cells \in (SUBSET {c \in Cells : Live(Now, c)}) \ {{}} :
        /\ \A c \in cells : (c[1] = OneRow) <=> (choiceKind # "matrix")
        /\ choiceKind = "simple" => \E c \in Cells : cells = {c}}

WeightOf(m, cells) == MapThenSumSet(LAMBDA c : AnswerWeight(m, c), cells)

\* raw_grade.
RawGrade(m, cells) ==
    IF ~m.scoring.scored THEN Unscored
    ELSE IF m.kind = "simple"
         THEN LET c == CHOOSE c \in cells : TRUE
              IN  IF ~Live(m, c) THEN Unscored ELSE IF Correct(m, c) THEN AnswerWeight(m, c) ELSE 0
    ELSE IF m.kind = "multiple" THEN WeightOf(m, cells)
    ELSE WeightOf(m, {c \in cells : Correct(m, c)})

\* applied_speed_factor is asked for.
SpeedRated(m, cells) ==
    m.scoring.rated /\ RawGrade(m, cells) # Unscored /\ RawGrade(m, cells) > 0

Graded(raw, f) == IF raw = Unscored THEN Unscored ELSE raw * f

\* set_lines: the factor it applies is the quotient of the grade and the raw score.
SetLines(m, cells, f) ==
    LET raw == RawGrade(m, cells) IN
    [c \in Cells |->
        IF c \notin cells \/ raw = Unscored THEN Unscored
        ELSE IF m.kind = "simple" THEN Graded(raw, f)
        ELSE IF raw = 0 \/ (m.kind = "matrix" /\ ~Correct(m, c)) THEN 0
        ELSE AnswerWeight(m, c) * f]

\* (slip: the factor of the cursor's present question, which has moved on)
RegradeFactorNow(m) == IF SpeedRated(m, chosen) THEN Whole \div 2 ELSE Whole

\* The factor a regrade applies: the recorded one, and 1 for want of one.
RegradeFactor(m) == IF SpeedRated(m, chosen) /\ factor # Unscored THEN factor ELSE Whole

-----------------------------------------------------------------------------
(* Actions *)

\* submit_answer stores the lines, in the place of those of an earlier answer.
SubmitSet ==
    /\ \E cells \in Answers, f \in Factors :
          LET rated == SpeedRated(Now, cells) IN
          /\ chosen' = cells
          /\ share' = SetLines(Now, cells, IF rated THEN f ELSE Whole)
          /\ factor' = IF rated THEN f ELSE Unscored
    /\ submitted' = [marking |-> Now, share |-> share']
    /\ UNCHANGED <<choiceKind, label, scoring>>

\* An answer of nothing, or a skip, clears the lines; the line that says so is not
\* scored.
ClearSet ==
    /\ chosen' = {}
    /\ share' = Nothing
    /\ factor' = Unscored
    /\ submitted' = [marking |-> Now, share |-> Nothing]
    /\ UNCHANGED <<choiceKind, label, scoring>>

\* regrade_question.
RegradeSet ==
    /\ chosen # {}
    /\ share' = SetLines(Now, chosen, RegradeFactor(Now))
    /\ UNCHANGED <<choiceKind, label, scoring, chosen, factor, submitted>>

\* The generic surface changes, deletes or restores a label.
EditLabel(l) ==
    /\ \E row \in LabelRows : label' = [label EXCEPT ![l] = row]
    /\ UNCHANGED <<choiceKind, scoring, chosen, share, factor, submitted>>

\* Scoring type, is_scored_question, speed rating or the time limit are changed.
EditScoring ==
    /\ scoring' \in Scoring
    /\ UNCHANGED <<choiceKind, label, chosen, share, factor, submitted>>

ScoresNext ==
    \/ SubmitSet \/ ClearSet \/ RegradeSet
    \/ \E l \in Labels : EditLabel(l)
    \/ EditScoring

ScoresSpec == ScoresInit /\ [][ScoresNext]_scoresVars

-----------------------------------------------------------------------------
(* Properties *)

ScoreOf(s) == IF s = Unscored THEN 0 ELSE s

\* The lines a submit or a regrade stores add up to the grade of the answer, whatever
\* has become of its labels.
SharesSum(cells, f) ==
    LET total(c) == ScoreOf(share'[c])
    IN  MapThenSumSet(total, Cells) = ScoreOf(Graded(RawGrade(Now, cells), f))

\* A regrade splits the grade it computes over the lines, and one that finds labels
\* and settings as they were at the submit restores every line to what the submit
\* stored, whatever edits and regrades happened in between: no speed factor is lost or
\* applied twice (set_lines; regrade_question, "the one recorded at submit").
RegradeRestores == [][RegradeSet =>
    /\ SharesSum(chosen, RegradeFactor(Now))
    /\ Now = submitted.marking => share' = submitted.share]_scoresVars

\* What makes it hold: by the labels and settings of the submit, the recorded factor
\* gives the submit's lines, whatever the labels and settings are now.
SubmitStands ==
    LET then == submitted.marking
    IN  chosen # {} => submitted.share = SetLines(then, chosen, RegradeFactor(then))

ScoresInv == ScoresTypeOK /\ SubmitStands
=============================================================================
