---------------------------- MODULE ScoreTotals -----------------------------
(***************************************************************************)
(* The stored answer lines of the attempts, the frozen set they are scored *)
(* against, and the score triple stored beside them, under concurrent      *)
(* submit_answer, finish, session-end and regrade_question transactions.   *)
(*                                                                         *)
(* A transaction's uncommitted writes live in its worker until the commit; *)
(* rows it wrote are locked meanwhile.  Grading is abstracted to a choice  *)
(* of score, the triple to what it was folded from: the lines' scores and  *)
(* the frozen set.  new and in_progress attempts are both "open" here:     *)
(* SurveySession tells them apart.  A choice question is answered with     *)
(* choices and a scalar with a scalar or a skip, overwrites allowed.       *)
(***************************************************************************)
EXTENDS Naturals

CONSTANTS Attempts,
          Selects,       \* choice questions: a line is deleted and recreated
          Scalars,       \* one-line questions: a line is updated in place
          Parent,        \* for each conditional question, the choice that triggers it
          Writers,       \* workers running submits and finishes
          Graders,       \* workers running regrades
          Scores,        \* what a line can earn
          None           \* no line, no worker, no question

Scorables    == Selects \cup Scalars
Conditionals == DOMAIN Parent

ASSUME ScoreAssumption ==
    /\ Selects \cap Scalars = {}
    /\ Conditionals \subseteq Scorables
    /\ Parent \in [Conditionals -> Selects]
    /\ Writers \cap Graders = {}
    /\ None \notin Writers \cup Graders \cup Attempts \cup Scorables
    /\ None \notin [score : Scores, fires : BOOLEAN]
    /\ 0 \in Scores

VARIABLES
    state,       \* of each attempt: "open" or "done"
    lines,       \* per attempt and question, the stored line or None
    frozen,      \* per attempt, the questions of its snapshot
    stored,      \* per attempt, what its stored triple was folded from
    inputLock,   \* worker holding the attempt row
    writerPc, work,                    \* a writer's step, and its transaction
    graderPc, task, todo, visiting,    \* a grader's step, question, attempts left, attempt
    gone,        \* attempts whose lines were replaced since the grader read them
    held,        \* attempts whose line the grader has rewritten, and holds
    rewrite,     \* the scores it rewrote them to
    refold,      \* the triples it will store
    overlapped   \* history: attempts a regrade and another transaction worked on at once

sheetVars  == <<state, lines, frozen, stored>>
writerVars == <<writerPc, work>>
graderVars == <<graderPc, task, todo, visiting, gone, held, rewrite, refold>>
totalsVars == <<sheetVars, inputLock, writerVars, graderVars, overlapped>>

-----------------------------------------------------------------------------
Line   == [score : Scores, fires : BOOLEAN]     \* fires: the trigger label is chosen
Sheet  == [Scorables -> Line \cup {None}]
Triple == [scores : [Scorables -> Scores], frozen : SUBSET Scorables]
Job    == [on : Attempts \cup {None}, at : Scorables \cup {None}, line : Line \cup {None},
           fold : Triple]

\* fold_totals sums the scores, a line without one counting zero, and divides by
\* the frozen weights: what it reads is all that decides the triple.
Fold(sheet, asked) ==
    [scores |-> [q \in Scorables |-> IF sheet[q] = None THEN 0 ELSE sheet[q].score],
     frozen |-> asked]

BlankSheet  == [q \in Scorables |-> None]
BlankTriple == Fold(BlankSheet, Scorables)
NoJob       == [on |-> None, at |-> None, line |-> None, fold |-> BlankTriple]

TotalsTypeOK ==
    /\ state \in [Attempts -> {"open", "done"}]
    /\ lines \in [Attempts -> Sheet]
    /\ frozen \in [Attempts -> SUBSET Scorables]
    /\ stored \in [Attempts -> Triple]
    /\ inputLock \in [Attempts -> Writers \cup Graders \cup {None}]
    /\ writerPc \in [Writers -> {"idle", "store", "fold", "commit", "prune", "close"}]
    /\ work \in [Writers -> Job]
    /\ graderPc \in [Graders -> {"idle", "next", "fold", "set"}]
    /\ task \in [Graders -> Scorables \cup {None}]
    /\ todo \in [Graders -> SUBSET Attempts]
    /\ visiting \in [Graders -> Attempts \cup {None}]
    /\ gone \in [Graders -> SUBSET Attempts]
    /\ held \in [Graders -> SUBSET Attempts]
    /\ rewrite \in [Graders -> [Attempts -> Scores]]
    /\ refold \in [Graders -> [Attempts -> Triple]]
    /\ overlapped \in SUBSET Attempts

TotalsInit ==
    /\ state = [a \in Attempts |-> "open"]
    /\ lines = [a \in Attempts |-> BlankSheet]
    /\ frozen = [a \in Attempts |-> Scorables]
    /\ stored = [a \in Attempts |-> BlankTriple]
    /\ inputLock = [a \in Attempts |-> None]
    /\ writerPc = [w \in Writers |-> "idle"]
    /\ work = [w \in Writers |-> NoJob]
    /\ graderPc = [g \in Graders |-> "idle"]
    /\ task = [g \in Graders |-> None]
    /\ todo = [g \in Graders |-> {}]
    /\ visiting = [g \in Graders |-> None]
    /\ gone = [g \in Graders |-> {}]
    /\ held = [g \in Graders |-> {}]
    /\ rewrite = [g \in Graders |-> [a \in Attempts |-> 0]]
    /\ refold = [g \in Graders |-> [a \in Attempts |-> BlankTriple]]
    /\ overlapped = {}

-----------------------------------------------------------------------------
(* What a transaction sees and touches *)

FreeInput(a) == inputLock[a] = None
Unlocked(w)  == [a \in Attempts |-> IF inputLock[a] = w THEN None ELSE inputLock[a]]

\* clear_inactive_conditionals: what a choice that fires no trigger clears.
Dropped(q, line) ==
    IF q \in Selects /\ ~line.fires THEN {c \in Conditionals : Parent[c] = q} ELSE {}

\* The questions whose line rows the submit deletes, updates or inserts.
Touched(job) == {job.at} \cup Dropped(job.at, job.line)

\* The attempt's lines as the submit's own transaction sees them.
Seen(job) ==
    [q \in Scorables |-> IF q = job.at THEN job.line
                         ELSE IF q \in Dropped(job.at, job.line) THEN None
                         ELSE lines[job.on][q]]

\* The rows of these questions are new ones, or gone, once the submit commits.
Replaced(job) == IF job.at \in Selects THEN Touched(job) ELSE {}

\* A grader's own view: the line it rewrote, the rest as committed.
GraderView(g, a) ==
    IF a \in held[g] THEN [lines[a] EXCEPT ![task[g]].score = rewrite[g][a]] ELSE lines[a]

\* (slip: the prune keeps triggered questions only, not answered ones)
ActiveUnanswered(sheet) ==
    {q \in Scorables : q \in Conditionals => sheet[Parent[q]] # None /\ sheet[Parent[q]].fires}

\* active_question_ids: unconditional, answered, or triggered.
Active(sheet) ==
    {q \in Scorables : \/ q \notin Conditionals
                       \/ sheet[q] # None
                       \/ sheet[Parent[q]] # None /\ sheet[Parent[q]].fires}

\* Attempts a grader has read lines of and not yet given back.
Regrading(a) == {g \in Graders : graderPc[g] # "idle" /\ (a \in todo[g] \cup held[g]
                                                          \/ a = visiting[g] \/ inputLock[a] = g)}
Overlap(a) == overlapped \cup IF Regrading(a) # {} THEN {a} ELSE {}

WriterIdle(w) ==
    /\ writerPc' = [writerPc EXCEPT ![w] = "idle"]
    /\ work' = [work EXCEPT ![w] = NoJob]

-----------------------------------------------------------------------------
(* submit_answer *)

\* (slip: the attempt read without FOR UPDATE)
SubmitPlainRead(w, a, q, line) ==
    /\ writerPc[w] = "idle"
    /\ state[a] = "open"
    /\ q \in frozen[a]
    /\ q \in Scalars => ~line.fires
    /\ writerPc' = [writerPc EXCEPT ![w] = "store"]
    /\ work' = [work EXCEPT ![w] = [on |-> a, at |-> q, line |-> line, fold |-> BlankTriple]]
    /\ overlapped' = Overlap(a)
    /\ UNCHANGED <<sheetVars, inputLock, graderVars>>

\* The attempt row's lock, the refusal of a finished attempt and of a question
\* outside the frozen set.
SubmitLock(w, a, q, line) ==
    /\ writerPc[w] = "idle"
    /\ FreeInput(a)
    /\ state[a] = "open"
    /\ q \in frozen[a]
    /\ q \in Scalars => ~line.fires
    /\ inputLock' = [inputLock EXCEPT ![a] = w]
    /\ writerPc' = [writerPc EXCEPT ![w] = "store"]
    /\ work' = [work EXCEPT ![w] = [on |-> a, at |-> q, line |-> line, fold |-> BlankTriple]]
    /\ overlapped' = Overlap(a)
    /\ UNCHANGED <<sheetVars, graderVars>>

\* (slip: the overwrite writes the fresh grade too)
KeptNot(job) == job.line

\* A go-back overwrite of a scalar moves the value and keeps the score.
Kept(job) ==
    LET old == lines[job.on][job.at] IN
    IF job.at \in Scalars /\ old # None THEN [job.line EXCEPT !.score = old.score] ELSE job.line

\* The line rows are written, once no regrade holds one of them.
SubmitStore(w) ==
    /\ writerPc[w] = "store"
    /\ \A g \in Graders : ~(work[w].on \in held[g] /\ task[g] \in Touched(work[w]))
    /\ work' = [work EXCEPT ![w].line = Kept(work[w])]
    /\ writerPc' = [writerPc EXCEPT ![w] = "fold"]
    /\ UNCHANGED <<sheetVars, inputLock, graderVars, overlapped>>

\* recompute_input_scores reads the lines and the snapshot.
SubmitFold(w) ==
    /\ writerPc[w] = "fold"
    /\ work' = [work EXCEPT ![w].fold = Fold(Seen(work[w]), frozen[work[w].on])]
    /\ writerPc' = [writerPc EXCEPT ![w] = "commit"]
    /\ UNCHANGED <<sheetVars, inputLock, graderVars, overlapped>>

SubmitCommit(w) ==
    LET job == work[w] IN
    /\ writerPc[w] = "commit"
    /\ lines' = [lines EXCEPT ![job.on] = Seen(job)]
    /\ stored' = [stored EXCEPT ![job.on] = job.fold]
    /\ gone' = [g \in Graders |-> IF graderPc[g] # "idle" /\ task[g] \in Replaced(job)
                                  THEN gone[g] \cup {job.on} ELSE gone[g]]
    /\ inputLock' = Unlocked(w)
    /\ WriterIdle(w)
    /\ UNCHANGED <<state, frozen, graderPc, task, todo, visiting, held, rewrite, refold, overlapped>>

-----------------------------------------------------------------------------
(* finish, and the session-end sweep *)

\* transition_done takes the row; zero rows when the attempt is done already.
FinishLock(w, a) ==
    /\ writerPc[w] = "idle"
    /\ FreeInput(a)
    /\ state[a] = "open"
    /\ inputLock' = [inputLock EXCEPT ![a] = w]
    /\ writerPc' = [writerPc EXCEPT ![w] = "prune"]
    /\ work' = [work EXCEPT ![w].on = a]
    /\ overlapped' = Overlap(a)
    /\ UNCHANGED <<sheetVars, graderVars>>

\* The keep set is read, the rest pruned, the triple folded from what is left.
FinishFold(w) ==
    LET a == work[w].on IN
    /\ writerPc[w] = "prune"
    /\ work' = [work EXCEPT ![w].fold = Fold(lines[a], frozen[a] \cap Active(lines[a]))]
    /\ writerPc' = [writerPc EXCEPT ![w] = "close"]
    /\ UNCHANGED <<sheetVars, inputLock, graderVars, overlapped>>

FinishCommit(w) ==
    LET a == work[w].on IN
    /\ writerPc[w] = "close"
    /\ state' = [state EXCEPT ![a] = "done"]
    /\ frozen' = [frozen EXCEPT ![a] = work[w].fold.frozen]
    /\ stored' = [stored EXCEPT ![a] = work[w].fold]
    /\ inputLock' = Unlocked(w)
    /\ WriterIdle(w)
    /\ UNCHANGED <<lines, graderVars, overlapped>>

\* bulk_done_attendees: no prune, no fold.
SessionEnds(a) ==
    /\ FreeInput(a)
    /\ state[a] = "open"
    /\ state' = [state EXCEPT ![a] = "done"]
    /\ UNCHANGED <<lines, frozen, stored, inputLock, writerVars, graderVars, overlapped>>

WriterAbort(w) ==
    /\ writerPc[w] # "idle"
    /\ WriterIdle(w)
    /\ inputLock' = Unlocked(w)
    /\ UNCHANGED <<sheetVars, graderVars, overlapped>>

-----------------------------------------------------------------------------
(* regrade_question: one transaction over every attempt that answered, with *)
(* no lock on the attempt rows until it stores their triples.               *)

GradeRead(g, q) ==
    LET answered == {a \in Attempts : lines[a][q] # None} IN
    /\ graderPc[g] = "idle"
    /\ graderPc' = [graderPc EXCEPT ![g] = "next"]
    /\ task' = [task EXCEPT ![g] = q]
    /\ todo' = [todo EXCEPT ![g] = answered]
    /\ overlapped' = overlapped \cup {a \in answered : ~FreeInput(a) \/ Regrading(a) # {}}
    /\ UNCHANGED <<sheetVars, inputLock, writerVars, visiting, gone, held, rewrite, refold>>

\* regrade_score on the attempt's line: waits for whoever has written that row,
\* and finds nothing to update when the row has been replaced since it was read.
GradeLine(g, a) ==
    /\ graderPc[g] = "next"
    /\ a \in todo[g]
    /\ \/ /\ a \in gone[g]
          /\ UNCHANGED <<held, rewrite>>
       \/ /\ a \notin gone[g]
          /\ \A w \in Writers : writerPc[w] \in {"fold", "commit"} =>
                ~(work[w].on = a /\ task[g] \in Touched(work[w]))
          /\ \A h \in Graders : ~(task[h] = task[g] /\ a \in held[h])
          /\ held' = [held EXCEPT ![g] = @ \cup {a}]
          /\ \E s \in Scores : rewrite' = [rewrite EXCEPT ![g][a] = s]
    /\ visiting' = [visiting EXCEPT ![g] = a]
    /\ todo' = [todo EXCEPT ![g] = @ \ {a}]
    /\ graderPc' = [graderPc EXCEPT ![g] = "fold"]
    /\ UNCHANGED <<sheetVars, inputLock, writerVars, task, gone, refold, overlapped>>

\* recompute_input_scores, part one: the fold ...
GradeFold(g) ==
    LET a == visiting[g] IN
    /\ graderPc[g] = "fold"
    /\ refold' = [refold EXCEPT ![g][a] = Fold(GraderView(g, a), frozen[a])]
    /\ graderPc' = [graderPc EXCEPT ![g] = "set"]
    /\ UNCHANGED <<sheetVars, inputLock, writerVars, task, todo, visiting, gone, held, rewrite,
                   overlapped>>

\* ... part two: set_scoring, which waits for the attempt row.
GradeSet(g) ==
    /\ graderPc[g] = "set"
    /\ FreeInput(visiting[g])
    /\ inputLock' = [inputLock EXCEPT ![visiting[g]] = g]
    /\ visiting' = [visiting EXCEPT ![g] = None]
    /\ graderPc' = [graderPc EXCEPT ![g] = "next"]
    /\ UNCHANGED <<sheetVars, writerVars, task, todo, gone, held, rewrite, refold, overlapped>>

GraderIdle(g) ==
    /\ graderPc' = [graderPc EXCEPT ![g] = "idle"]
    /\ task' = [task EXCEPT ![g] = None]
    /\ todo' = [todo EXCEPT ![g] = {}]
    /\ visiting' = [visiting EXCEPT ![g] = None]
    /\ gone' = [gone EXCEPT ![g] = {}]
    /\ held' = [held EXCEPT ![g] = {}]
    /\ rewrite' = [rewrite EXCEPT ![g] = [a \in Attempts |-> 0]]
    /\ refold' = [refold EXCEPT ![g] = [a \in Attempts |-> BlankTriple]]
    /\ inputLock' = Unlocked(g)

GradeCommit(g) ==
    /\ graderPc[g] = "next"
    /\ todo[g] = {}
    /\ lines' = [a \in Attempts |-> GraderView(g, a)]
    /\ stored' = [a \in Attempts |-> IF inputLock[a] = g THEN refold[g][a] ELSE stored[a]]
    /\ GraderIdle(g)
    /\ UNCHANGED <<state, frozen, writerVars, overlapped>>

GraderAbort(g) ==
    /\ graderPc[g] # "idle"
    /\ GraderIdle(g)
    /\ UNCHANGED <<sheetVars, writerVars, overlapped>>

-----------------------------------------------------------------------------
Write(w) ==
    \/ \E a \in Attempts, q \in Scorables, line \in Line : SubmitLock(w, a, q, line)
    \/ SubmitStore(w) \/ SubmitFold(w) \/ SubmitCommit(w)
    \/ \E a \in Attempts : FinishLock(w, a)
    \/ FinishFold(w) \/ FinishCommit(w)
    \/ WriterAbort(w)

Regrade(g) ==
    \/ \E q \in Scorables : GradeRead(g, q)
    \/ \E a \in Attempts : GradeLine(g, a)
    \/ GradeFold(g) \/ GradeSet(g) \/ GradeCommit(g) \/ GraderAbort(g)

TotalsNext ==
    \/ \E w \in Writers : Write(w)
    \/ \E g \in Graders : Regrade(g)
    \/ \E a \in Attempts : SessionEnds(a)

TotalsSpec == TotalsInit /\ [][TotalsNext]_totalsVars

-----------------------------------------------------------------------------
(* Properties *)

Fresh(a) == stored[a] = Fold(lines[a], frozen[a])

\* Every stored triple is the fold of the lines and the frozen set stored beside it,
\* whoever wrote them last: recompute_input_scores promises the triple "from its
\* stored lines + frozen snapshot".
TotalsFresh == \A a \in Attempts : Fresh(a)

\* The same for the attempts on which no regrade overlapped another transaction:
\* concurrent submits, finishes, session ends, rollbacks and lone regrades keep the
\* triple fresh (the row lock of submit_answer and transition_done).
TotalsFreshUnlessOverlapped == \A a \in Attempts : a \notin overlapped => Fresh(a)

\* No answered question is ever outside the frozen set, so no score counts without its
\* weight in the denominator: a prune cannot drop a question a racing submit answers.
AnsweredStaysFrozen ==
    \A a \in Attempts, q \in Scorables : lines[a][q] # None => q \in frozen[a]

RegradeCommits == \E g \in Graders : graderPc[g] = "next" /\ graderPc'[g] = "idle"

\* A finished attempt is fixed: no submit or finish that was in flight changes what it
\* answered or what it is scored against, and its score moves only by a regrade.
DoneIsFixed ==
    [][\A a \in Attempts : state[a] = "done" =>
          /\ state'[a] = "done" /\ frozen'[a] = frozen[a]
          /\ \A q \in Scorables : (lines[a][q] = None) <=> (lines'[a][q] = None)
          /\ <<lines'[a], stored'[a]>> # <<lines[a], stored[a]>> => RegradeCommits]_totalsVars

\* A scalar's score is written once: later submits move its value only, and one that
\* raced a regrade does not undo it (the go-back overwrite and the drift trigger).
ScalarScoreWrittenOnce ==
    [][\A a \in Attempts, q \in Scalars :
          lines[a][q] # None /\ lines'[a][q] # None /\ lines'[a][q].score # lines[a][q].score
              => RegradeCommits]_totalsVars

\* What makes these inductive.  A writer at work holds an open attempt row, answers a
\* question of its frozen set, and keeps the score of a scalar it overwrites;
WriterHolds ==
    \A w \in Writers : writerPc[w] # "idle" =>
        /\ work[w].on \in Attempts
        /\ inputLock[work[w].on] = w
        /\ state[work[w].on] = "open"
        /\ writerPc[w] \in {"store", "fold", "commit"} =>
              work[w].at \in frozen[work[w].on] /\ work[w].line \in Line

ScoreKept ==
    \A w \in Writers :
        /\ writerPc[w] \in {"fold", "commit"}
        /\ work[w].at \in Scalars
        /\ lines[work[w].on][work[w].at] # None
        => work[w].line.score = lines[work[w].on][work[w].at].score

\* the triple it is about to store is the fold of what it is about to commit;
WriterFolds ==
    \A w \in Writers :
        /\ writerPc[w] = "commit" => work[w].fold = Fold(Seen(work[w]), frozen[work[w].on])
        /\ writerPc[w] = "close" =>
              work[w].fold = Fold(lines[work[w].on],
                                  frozen[work[w].on] \cap Active(lines[work[w].on]))

\* an idle grader has nothing, one at work locks each attempt it has visited before
\* the next and never returns to it;
GraderHolds ==
    \A g \in Graders :
        /\ graderPc[g] = "idle" => /\ todo[g] = {} /\ held[g] = {} /\ gone[g] = {}
                                   /\ \A a \in Attempts : inputLock[a] # g
        /\ graderPc[g] # "idle" => task[g] \in Scorables
        /\ graderPc[g] \in {"fold", "set"} <=> visiting[g] # None
        /\ \A a \in held[g] : inputLock[a] = g \/ visiting[g] = a
        /\ \A a \in todo[g] : inputLock[a] # g /\ visiting[g] # a /\ a \notin held[g]
        /\ visiting[g] # None => inputLock[visiting[g]] # g

\* the line a grader has rewritten, or is going to, is there, and no submit that
\* touches it is past its store;
GraderLines ==
    \A g \in Graders :
        /\ \A a \in held[g] : lines[a][task[g]] # None
        /\ \A a \in todo[g] \ gone[g] : lines[a][task[g]] # None
        /\ \A w \in Writers : writerPc[w] \in {"fold", "commit"} =>
              ~(work[w].on \in held[g] /\ task[g] \in Touched(work[w]))

\* and on an attempt that was never overlapped a grader is alone, so that the triple
\* it folded stays the fold of what it will commit.
GraderAlone ==
    \A a \in Attempts \ overlapped : \A g \in Regrading(a) :
        /\ \A w \in Writers : writerPc[w] # "idle" => work[w].on # a
        /\ \A h \in Regrading(a) : h = g

GraderFolds ==
    \A a \in Attempts \ overlapped, g \in Graders :
        inputLock[a] = g \/ (graderPc[g] = "set" /\ visiting[g] = a)
            => refold[g][a] = Fold(GraderView(g, a), frozen[a])

\* Together: what a transaction has read under its locks is still true when it commits,
\* whatever submits, finishes, sweeps, regrades and rollbacks happen meanwhile.
ScoreInv ==
    /\ TotalsTypeOK
    /\ WriterHolds
    /\ ScoreKept
    /\ WriterFolds
    /\ GraderHolds
    /\ GraderLines
    /\ GraderAlone
    /\ GraderFolds
    /\ AnsweredStaysFrozen
    /\ TotalsFreshUnlessOverlapped
=============================================================================
