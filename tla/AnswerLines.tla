----------------------------- MODULE AnswerLines -----------------------------
(***************************************************************************)
(* How submit_answer stores an answer: the windows, validation, the        *)
(* overwrite gate, skips, comments and answers of another type than their  *)
(* question, conditionals with several triggers, and the e-mail stamp.     *)
(*                                                                         *)
(* One attempt, because a submit touches the rows of one.  Its row lock    *)
(* orders submits, begins and finishes; regrades and totals are            *)
(* ScoreTotals' subject.  A refusal that rolls back leaves nothing, so it  *)
(* is no action; the late refusals commit the lazy begin.  A refused       *)
(* overwrite commits too, but finds an attempt that has begun already.     *)
(***************************************************************************)
EXTENDS Sequences, FiniteSets, Naturals

CONSTANTS Questions,
          Kind,          \* "choice", "matrix", "char" or "typed" (number, date, datetime)
          Single,        \* the choice questions that take one label
          LabelsOf,      \* the labels of each question; a matrix cell counts as a label
          Triggers,      \* the labels that trigger each question
          Mandatory, Validated, Timed, Scored,
          Frozen,        \* the attempt's frozen set
          EmailQuestion, \* the question whose answer is saved as the e-mail
          Values, Right, \* what a scalar can carry, and the value that earns the score
          Workers, None

Labels      == UNION {LabelsOf[q] : q \in Questions}
SetKinds    == {"choice", "matrix"}
ScalarKinds == {"char", "typed"}
Windows     == {"in time", "grace", "over"}

ASSUME AnswerAssumption ==
    /\ Kind \in [Questions -> SetKinds \cup ScalarKinds]
    /\ \A q \in Questions : Triggers[q] \subseteq Labels /\ Triggers[q] \cap LabelsOf[q] = {}
    /\ \A p, q \in Questions : p # q => LabelsOf[p] \cap LabelsOf[q] = {}
    /\ Right \in Values
    /\ None \notin Values \cup Workers \cup Questions \cup ScalarKinds

VARIABLES
    state,     \* of the attempt: "new", "in_progress" or "done"
    lines,     \* per question, the labels with a line and the lines without a label
    email,     \* the attempt's e-mail column
    goBack,    \* users_can_go_back of the survey
    expired,   \* the deadline and its grace have passed
    lock,      \* the worker holding the attempt row
    pc, work   \* a worker's step, and the submit it runs

vars == <<state, lines, email, goBack, expired, lock, pc, work>>

-----------------------------------------------------------------------------
\* A submit: an explicit skip, a value of the char family (comments too), a value of a
\* graded type, or a set of labels.
Draft == [kind : {"skip"}, value : {None}, chosen : {{}}]
         \cup [kind : ScalarKinds, value : Values, chosen : {{}}]
         \cup [kind : SetKinds, value : {None}, chosen : SUBSET Labels]

\* The drafts the model tells apart on a question: a value matters where it is graded
\* or stamped, a type other than the question's own counts as char.
DraftsOn(q) ==
    {draft \in Draft :
        /\ draft.kind = "typed" => Kind[q] = "typed" \/ q = EmailQuestion
        /\ draft.kind \in ScalarKinds /\ draft.value # Right =>
               draft.kind = Kind[q] /\ q \in Scored \cup {EmailQuestion}}

Scalar == [skipped : BOOLEAN, value : Values \cup {None}, family : ScalarKinds \cup {None},
           score : {0, 1}]
Sheet  == [labels : SUBSET Labels, scalars : Seq(Scalar)]
Job    == [at : Questions, draft : Draft, overwrite : BOOLEAN]

Blank == [labels |-> {}, scalars |-> <<>>]

TypeOK ==
    /\ state \in {"new", "in_progress", "done"}
    /\ lines \in [Questions -> Sheet]
    /\ email \in Values \cup {None}
    /\ goBack \in BOOLEAN
    /\ expired \in BOOLEAN
    /\ lock \in Workers \cup {None}
    /\ pc \in [Workers -> {"idle", "store"}]
    /\ work \in [Workers -> Job \cup {None}]

Init ==
    /\ state \in {"new", "in_progress"}
    /\ lines = [q \in Questions |-> Blank]
    /\ email = None
    /\ goBack \in BOOLEAN
    /\ expired = FALSE
    /\ lock = None
    /\ pc = [w \in Workers |-> "idle"]
    /\ work = [w \in Workers |-> None]

-----------------------------------------------------------------------------
(* The gates *)

IsSet(draft) == draft.kind \in SetKinds

\* validate, and the mandatory refusal: both look at the draft as sent.
Accepted(q, draft, valid, window) ==
    \/ window = "grace"
    \/ /\ q \in Validated /\ draft.kind \in ScalarKinds => valid
       /\ q \in Mandatory => draft.kind # "skip"

\* (slip: only the one-line answers are looked for)
MayOverwriteScalarOnly(q, draft) == goBack \/ IsSet(draft) \/ lines[q].scalars = <<>>

\* The overwrite gate: a set answer meets any line, another answer the line without a label.
MayOverwrite(q, draft) ==
    goBack \/ IF IsSet(draft) THEN lines[q] = Blank ELSE lines[q].scalars = <<>>

\* normalize_set_draft; a set with nothing chosen has become a skip by then.
Normal(q, draft) ==
    IsSet(draft) /\ draft.chosen # {} =>
        /\ draft.kind = Kind[q]
        /\ draft.chosen \subseteq LabelsOf[q]
        /\ q \in Single => Cardinality(draft.chosen) = 1

Begun == IF state = "new" THEN "in_progress" ELSE state

\* The survey's window has passed, or the live question's: the refusal commits, and
\* with it the lazy begin.
RefuseLate(q, window) ==
    /\ lock = None
    /\ state # "done"
    /\ expired \/ (q \in Timed /\ window = "over")
    /\ state' = Begun
    /\ UNCHANGED <<lines, email, goBack, expired, lock, pc, work>>

\* (slip: the attempt read without FOR UPDATE)
SubmitPlainRead(w, q, draft, valid, window) ==
    /\ pc[w] = "idle"
    /\ state # "done"
    /\ ~expired
    /\ q \in Frozen
    /\ window = "in time" \/ (window = "grace" /\ q \in Timed)
    /\ Accepted(q, draft, valid, window)
    /\ MayOverwrite(q, draft)
    /\ Normal(q, draft)
    /\ pc' = [pc EXCEPT ![w] = "store"]
    /\ work' = [work EXCEPT ![w] = [at |-> q, draft |-> draft,
                                    overwrite |-> ~IsSet(draft) /\ lines[q].scalars # <<>>]]
    /\ UNCHANGED <<state, lines, email, goBack, expired, lock>>

\* A submit takes the row, passes every gate and has looked for the line it overwrites.
SubmitLock(w, q, draft, valid, window) ==
    /\ pc[w] = "idle"
    /\ lock = None
    /\ state # "done"
    /\ ~expired
    /\ q \in Frozen
    /\ window = "in time" \/ (window = "grace" /\ q \in Timed)
    /\ Accepted(q, draft, valid, window)
    /\ MayOverwrite(q, draft)
    /\ Normal(q, draft)
    /\ lock' = w
    /\ pc' = [pc EXCEPT ![w] = "store"]
    /\ work' = [work EXCEPT ![w] = [at |-> q, draft |-> draft,
                                    overwrite |-> ~IsSet(draft) /\ lines[q].scalars # <<>>]]
    /\ UNCHANGED <<state, lines, email, goBack, expired>>

-----------------------------------------------------------------------------
(* Storage *)

\* raw_grade: only a typed value of a scored question is graded; the rest earns nothing.
Grade(q, draft) ==
    IF draft.kind = "typed" /\ Kind[q] = "typed" /\ q \in Scored /\ draft.value = Right THEN 1 ELSE 0

\* insert_line for a scalar, a skip, or a set with nothing chosen.
NewScalar(q, draft) ==
    [skipped |-> draft.value = None,
     value   |-> draft.value,
     family  |-> IF draft.value = None THEN None ELSE draft.kind,
     score   |-> Grade(q, draft)]

\* (slip: the overwrite writes the fresh grade too)
OverwrittenRegraded(q, old, draft) == NewScalar(q, draft)

\* update_scalar_value: the value columns, the type (char for a skip) and the skip mark,
\* never the score.
Overwritten(q, old, draft) ==
    [NewScalar(q, draft) EXCEPT !.score = old.score,
                                !.family = IF draft.value = None THEN "char" ELSE draft.kind]

\* (slip: a set answered with nothing keeps the lines it replaces)
StoredBeside(job) ==
    LET q == job.at
        old == lines[q]
        draft == job.draft
    IN IF IsSet(draft) /\ draft.chosen # {} THEN [labels |-> draft.chosen, scalars |-> <<>>]
       ELSE IF job.overwrite
            THEN [old EXCEPT !.scalars[1] = Overwritten(q, old.scalars[1], draft)]
            ELSE [old EXCEPT !.scalars = Append(old.scalars, NewScalar(q, draft))]

\* A set replaces every line of the question, also when nothing is chosen; another
\* answer is written into the line without a label, or beside the labels.
Stored(job) ==
    LET q == job.at
        old == lines[q]
        draft == job.draft
    IN IF IsSet(draft) /\ draft.chosen # {} THEN [labels |-> draft.chosen, scalars |-> <<>>]
       ELSE IF IsSet(draft) THEN [labels |-> {}, scalars |-> <<NewScalar(q, draft)>>]
       ELSE IF job.overwrite
            THEN [old EXCEPT !.scalars[1] = Overwritten(q, old.scalars[1], draft)]
            ELSE [old EXCEPT !.scalars = Append(old.scalars, NewScalar(q, draft))]

\* (slip: a choice answered with nothing clears nothing)
ClearedIfChosen(job) ==
    IF job.draft.kind = "choice" /\ job.draft.chosen # {}
    THEN {c \in Questions : (Triggers[c] \cap LabelsOf[job.at]) \ job.draft.chosen # {}}
    ELSE {}

\* clear_inactive_conditionals: each label of the question that triggers a
\* conditional and was not chosen takes the conditional's lines with it.
Cleared(job) ==
    IF job.draft.kind = "choice"
    THEN {c \in Questions : (Triggers[c] \cap LabelsOf[job.at]) \ job.draft.chosen # {}}
    ELSE {}

\* (slip: the COALESCE the other way round)
StampedOnce(job) ==
    IF job.at = EmailQuestion /\ job.draft.kind = "char" /\ email = None
    THEN job.draft.value ELSE email

\* set_identity_side_writes: a char answer or comment is saved, nothing else is.
Stamped(job) ==
    IF job.at = EmailQuestion /\ job.draft.kind = "char" THEN job.draft.value ELSE email

\* (slip: no lazy begin)
StoreUnbegun(w) ==
    LET job == work[w] IN
    /\ pc[w] = "store"
    /\ lines' = [q \in Questions |-> IF q \in Cleared(job) THEN Blank
                                     ELSE IF q = job.at THEN Stored(job) ELSE lines[q]]
    /\ email' = Stamped(job)
    /\ lock' = None
    /\ pc' = [pc EXCEPT ![w] = "idle"]
    /\ work' = [work EXCEPT ![w] = None]
    /\ UNCHANGED <<state, goBack, expired>>

\* The lines, the stamp and the lazy begin become visible with the commit.
SubmitCommit(w) ==
    LET job == work[w] IN
    /\ pc[w] = "store"
    /\ lines' = [q \in Questions |-> IF q \in Cleared(job) THEN Blank
                                     ELSE IF q = job.at THEN Stored(job) ELSE lines[q]]
    /\ email' = Stamped(job)
    /\ state' = Begun
    /\ lock' = None
    /\ pc' = [pc EXCEPT ![w] = "idle"]
    /\ work' = [work EXCEPT ![w] = None]
    /\ UNCHANGED <<goBack, expired>>

\* The connection is lost: nothing of the transaction remains.
SubmitAbort(w) ==
    /\ pc[w] = "store"
    /\ lock' = None
    /\ pc' = [pc EXCEPT ![w] = "idle"]
    /\ work' = [work EXCEPT ![w] = None]
    /\ UNCHANGED <<state, lines, email, goBack, expired>>

-----------------------------------------------------------------------------
(* The rest of the attempt's life *)

\* transition_begin
Begin ==
    /\ lock = None
    /\ state = "new"
    /\ state' = "in_progress"
    /\ UNCHANGED <<lines, email, goBack, expired, lock, pc, work>>

\* transition_done, from finish or from the session's end
Finish ==
    /\ lock = None
    /\ state = "in_progress"
    /\ state' = "done"
    /\ UNCHANGED <<lines, email, goBack, expired, lock, pc, work>>

\* Time passes the deadline and its ten seconds.
Expire ==
    /\ ~expired
    /\ expired' = TRUE
    /\ UNCHANGED <<state, lines, email, goBack, lock, pc, work>>

Submit(w) ==
    \/ \E q \in Questions, valid \in BOOLEAN, window \in Windows : \E draft \in DraftsOn(q) :
           SubmitLock(w, q, draft, valid, window)
    \/ SubmitCommit(w)
    \/ SubmitAbort(w)

Next ==
    \/ \E w \in Workers : Submit(w)
    \/ \E q \in Questions, window \in Windows : RefuseLate(q, window)
    \/ Begin
    \/ Finish
    \/ Expire

Spec == Init /\ [][Next]_vars

-----------------------------------------------------------------------------
(* Properties *)

\* A worker past its lock holds the row, passed the gates, and what it found is there.
WorkerHolds ==
    \A w \in Workers : pc[w] = "store" =>
        /\ lock = w
        /\ work[w] \in Job
        /\ state # "done"
        /\ MayOverwrite(work[w].at, work[w].draft) /\ Normal(work[w].at, work[w].draft)
        /\ work[w].overwrite <=> ~IsSet(work[w].draft) /\ lines[work[w].at].scalars # <<>>

\* "Two identical submits cannot both insert": a question has at most one line
\* without a label, however its submits interleave (no constraint of the table
\* says so, only the row lock of submit_answer).
OneScalarLine == \A q \in Questions : Len(lines[q].scalars) <= 1

\* A stored label is one of its question's own, and a single choice has one.
LabelsOwn ==
    \A q \in Questions : lines[q].labels # {} =>
        /\ Kind[q] \in SetKinds
        /\ lines[q].labels \subseteq LabelsOf[q]
        /\ q \in Single => Cardinality(lines[q].labels) = 1

AnswerInv == TypeOK /\ WorkerHolds /\ OneScalarLine /\ LabelsOwn

\* An attempt with an answer has begun: the lazy begin of a submit is committed with
\* its lines, whichever gate or begin ran before.
AnsweredHasBegun == (\E q \in Questions : lines[q] # Blank) => state # "new"

\* The stamp of the e-mail and the char answer it came from move together; an answer
\* skipped later leaves the stamp (submit_answer's step 5b and its probe; SPEC.md 5.5
\* still says that no submit stamps).
StampAgrees ==
    \A q \in Questions : q = EmailQuestion =>
        \A i \in DOMAIN lines[q].scalars :
            lines[q].scalars[i].family = "char" /\ ~lines[q].scalars[i].skipped =>
                email = lines[q].scalars[i].value

\* Without roaming an answer that was given stays as it is: a submit can only add a
\* line beside it, or take it away by giving the first answer to a question that
\* triggers it.  The question whose answer is saved as the e-mail is left out: SPEC.md
\* lets its answer be replaced without roaming, the code does not.
KeptWithoutGoBack ==
    [][~goBack => \A q \in Questions \ {EmailQuestion} :
           \/ /\ lines[q].labels \subseteq lines'[q].labels
              /\ \A i \in DOMAIN lines[q].scalars :
                     i \in DOMAIN lines'[q].scalars /\ lines'[q].scalars[i] = lines[q].scalars[i]
           \/ \E p \in Questions : /\ Triggers[q] \cap LabelsOf[p] # {}
                                   /\ lines[p] = Blank
                                   /\ lines'[p] # Blank]_vars

\* A one-line answer that has earned its score.
Earned(sheet) == \E i \in DOMAIN sheet.scalars : sheet.scalars[i].score = 1

\* A taker cannot earn by answering again: a score appears only where there was no
\* answer, whatever skips, comments, empty sets and overwrites came in between.
NoSecondGrade ==
    [][\A q \in Questions : Earned(lines'[q]) => Earned(lines[q]) \/ lines[q] = Blank]_vars

\* A choice that leaves every trigger of a conditional on that question unchosen
\* leaves the conditional without lines, also when it chooses nothing.
UnchosenCleared ==
    [][\A w \in Workers : pc[w] = "store" /\ lines' # lines /\ work[w].draft.kind = "choice" =>
           \A c \in Questions :
               LET onIt == Triggers[c] \cap LabelsOf[work[w].at] IN
               onIt # {} /\ onIt \cap work[w].draft.chosen = {} => lines'[c] = Blank]_vars

\* "A choice answer keeps the dependent lines of every trigger STILL chosen": a
\* conditional with a chosen trigger on the answered question keeps its lines.
StillChosenKept ==
    [][\A w \in Workers : pc[w] = "store" /\ lines' # lines /\ work[w].draft.kind = "choice" =>
           \A c \in Questions :
               Triggers[c] \cap work[w].draft.chosen # {} => lines'[c] = lines[c]]_vars
==============================================================================
