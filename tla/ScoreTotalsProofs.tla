------------------------- MODULE ScoreTotalsProofs --------------------------
(***************************************************************************)
(* The stored totals, for any attempts, questions, writers, graders and    *)
(* scores.  A writer keeps the attempt row locked from its first read, so  *)
(* nothing it has read is replaced before it commits; a grader keeps what  *)
(* it has folded fresh only on the attempts it has to itself.              *)
(***************************************************************************)
EXTENDS ScoreTotals, TLAPS

-----------------------------------------------------------------------------
(* Views *)

LEMMA FoldType ==
    ASSUME NEW sheet \in Sheet, NEW asked \in SUBSET Scorables
    PROVE  Fold(sheet, asked) \in Triple /\ Fold(sheet, asked).frozen = asked
<1>1. \A q \in Scorables : sheet[q] # None => sheet[q] \in Line
  BY DEF Sheet
<1>2. \A q \in Scorables : (IF sheet[q] = None THEN 0 ELSE sheet[q].score) \in Scores
  BY <1>1, ScoreAssumption DEF Line
<1> QED
  BY <1>2 DEF Fold, Triple

LEMMA BlankType == BlankSheet \in Sheet /\ BlankTriple \in Triple
<1>1. BlankSheet \in Sheet
  BY DEF BlankSheet, Sheet
<1> QED
  BY <1>1, FoldType DEF BlankTriple

\* None is no line.
LEMMA LineNotNone == None \notin Line
  BY ScoreAssumption DEF Line

\* A line with another's score is a line that fires as it did.
LEMMA Rescored ==
    ASSUME NEW line \in Line, NEW s \in Scores
    PROVE  /\ [line EXCEPT !.score = s] \in Line
           /\ [line EXCEPT !.score = s].score = s
           /\ [line EXCEPT !.score = s].fires = line.fires
  BY DEF Line

\* A submit sees a sheet, and depends only on where, what and with which line.
LEMMA ViewType ==
    ASSUME TotalsTypeOK, NEW job \in Job, job.on \in Attempts, job.line \in Line
    PROVE  Seen(job) \in Sheet
<1>1. lines[job.on] \in [Scorables -> Line \cup {None}]
  BY DEF TotalsTypeOK, Sheet
<1> QED
  BY <1>1 DEF Seen, Sheet

LEMMA ViewEq ==
    ASSUME NEW j, NEW k, j.on = k.on, j.at = k.at, j.line = k.line
    PROVE  Seen(j) = Seen(k) /\ Touched(j) = Touched(k)
  BY DEF Seen, Touched, Dropped

\* What a submit sees of each question.
LEMMA ViewAt ==
    ASSUME NEW job, NEW q \in Scorables
    PROVE  /\ q = job.at => Seen(job)[q] = job.line
           /\ q # job.at /\ q \in Touched(job) => Seen(job)[q] = None
           /\ q \notin Touched(job) => Seen(job)[q] = lines[job.on][q]
  BY DEF Seen, Touched

\* A submit keeps the score of the scalar it overwrites, and touches what it would
\* have touched anyway.
LEMMA KeptLine ==
    ASSUME TotalsTypeOK, NEW job \in Job, job.on \in Attempts, job.line \in Line
    PROVE  /\ Kept(job) \in Line
           /\ Kept(job).fires = job.line.fires
           /\ job.at \in Scalars /\ lines[job.on][job.at] # None
                 => Kept(job).score = lines[job.on][job.at].score
<1>1. CASE job.at \in Scalars /\ lines[job.on][job.at] # None
  <2>1. lines[job.on][job.at] \in Line
    BY <1>1 DEF TotalsTypeOK, Sheet, Scorables
  <2>2. lines[job.on][job.at].score \in Scores
    BY <2>1 DEF Line
  <2> QED
    BY <1>1, <2>2, Rescored DEF Kept
<1>2. CASE ~(job.at \in Scalars /\ lines[job.on][job.at] # None)
  BY <1>2 DEF Kept
<1> QED
  BY <1>1, <1>2

\* A grader's view changes scores only, of lines that are there.
LEMMA GraderViewType ==
    ASSUME TotalsTypeOK, GraderHolds, GraderLines, NEW g \in Graders, NEW a \in Attempts
    PROVE  /\ GraderView(g, a) \in Sheet
           /\ \A q \in Scorables : (GraderView(g, a)[q] = None) <=> (lines[a][q] = None)
           /\ a \notin held[g] => GraderView(g, a) = lines[a]
<1>1. lines[a] \in [Scorables -> Line \cup {None}]
  BY DEF TotalsTypeOK, Sheet
<1>2. CASE a \in held[g]
  <2>1. task[g] \in Scorables /\ lines[a][task[g]] # None
    BY <1>2 DEF GraderHolds, GraderLines
  <2>2. lines[a][task[g]] \in Line /\ rewrite[g][a] \in Scores
    BY <1>1, <2>1 DEF TotalsTypeOK
  <2>3. [lines[a][task[g]] EXCEPT !.score = rewrite[g][a]] \in Line
    BY <2>2, Rescored
  <2>4. GraderView(g, a) = [lines[a] EXCEPT
                              ![task[g]] = [lines[a][task[g]] EXCEPT !.score = rewrite[g][a]]]
    BY <1>2 DEF GraderView
  <2> QED
    BY <1>1, <1>2, <2>1, <2>3, <2>4, LineNotNone DEF Sheet
<1>3. CASE a \notin held[g]
  BY <1>1, <1>3 DEF GraderView, Sheet
<1> QED
  BY <1>2, <1>3

\* Giving back a worker's attempt rows leaves the others'.
LEMMA UnlockedAt ==
    ASSUME NEW w, NEW a \in Attempts
    PROVE  /\ inputLock[a] = w => Unlocked(w)[a] = None
           /\ inputLock[a] # w => Unlocked(w)[a] = inputLock[a]
  BY DEF Unlocked

-----------------------------------------------------------------------------
(* Types *)

\* Releasing rows keeps the locks well typed.
LEMMA UnlockedType ==
    ASSUME TotalsTypeOK, NEW w
    PROVE  Unlocked(w) \in [Attempts -> Writers \cup Graders \cup {None}]
  BY DEF TotalsTypeOK, Unlocked

LEMMA WriterIdleType ==
    ASSUME TotalsTypeOK, NEW w \in Writers, WriterIdle(w)
    PROVE  /\ writerPc' \in [Writers -> {"idle", "store", "fold", "commit", "prune", "close"}]
           /\ work' \in [Writers -> Job]
<1>1. NoJob \in Job
  BY BlankType DEF NoJob, Job
<1> QED
  BY <1>1 DEF TotalsTypeOK, WriterIdle

LEMMA GraderIdleType ==
    ASSUME TotalsTypeOK, NEW g \in Graders, GraderIdle(g)
    PROVE  /\ graderPc' \in [Graders -> {"idle", "next", "fold", "set"}]
           /\ task' \in [Graders -> Scorables \cup {None}]
           /\ todo' \in [Graders -> SUBSET Attempts]
           /\ visiting' \in [Graders -> Attempts \cup {None}]
           /\ gone' \in [Graders -> SUBSET Attempts]
           /\ held' \in [Graders -> SUBSET Attempts]
           /\ rewrite' \in [Graders -> [Attempts -> Scores]]
           /\ refold' \in [Graders -> [Attempts -> Triple]]
           /\ inputLock' \in [Attempts -> Writers \cup Graders \cup {None}]
  BY BlankType, UnlockedType, ScoreAssumption DEF TotalsTypeOK, GraderIdle

\* Every step keeps the variables in their types.
LEMMA WriterTypeStep ==
    ASSUME TotalsTypeOK, WriterHolds, NEW w \in Writers, Write(w)
    PROVE  TotalsTypeOK'
<1> USE DEF TotalsTypeOK, sheetVars, writerVars, graderVars
<1>j. work[w] \in Job /\ BlankTriple \in Triple
  BY BlankType
<1>h. writerPc[w] # "idle" => work[w].on \in Attempts
  BY DEF WriterHolds
<1>1. ASSUME NEW a \in Attempts, NEW q \in Scorables, NEW line \in Line,
             SubmitLock(w, a, q, line)
      PROVE  TotalsTypeOK'
  <2>1. [on |-> a, at |-> q, line |-> line, fold |-> BlankTriple] \in Job
    BY <1>j DEF Job
  <2> QED
    BY <1>1, <2>1 DEF SubmitLock, Overlap
<1>2. CASE SubmitStore(w)
  <2>1. work[w].line \in Line
    BY <1>2 DEF WriterHolds, SubmitStore
  <2>2. Kept(work[w]) \in Line
    BY <1>2, <1>j, <1>h, <2>1, KeptLine DEF SubmitStore
  <2>3. [work[w] EXCEPT !.line = Kept(work[w])] \in Job
    BY <1>j, <2>2 DEF Job
  <2> QED
    BY <1>2, <2>3 DEF SubmitStore
<1>3. CASE SubmitFold(w)
  <2>1. work[w].on \in Attempts /\ work[w].line \in Line
    BY <1>3 DEF WriterHolds, SubmitFold
  <2>2. Fold(Seen(work[w]), frozen[work[w].on]) \in Triple
    BY <1>j, <2>1, ViewType, FoldType
  <2>3. [work[w] EXCEPT !.fold = Fold(Seen(work[w]), frozen[work[w].on])] \in Job
    BY <1>j, <2>2 DEF Job
  <2> QED
    BY <1>3, <2>3 DEF SubmitFold
<1>4. CASE SubmitCommit(w)
  <2>1. work[w].on \in Attempts /\ work[w].line \in Line /\ work[w].fold \in Triple
    BY <1>4, <1>j DEF WriterHolds, SubmitCommit, Job
  <2>2. Seen(work[w]) \in Sheet
    BY <1>j, <2>1, ViewType
  <2>3. lines' \in [Attempts -> Sheet] /\ stored' \in [Attempts -> Triple]
    BY <1>4, <2>1, <2>2 DEF SubmitCommit
  <2>4. gone' \in [Graders -> SUBSET Attempts]
    BY <1>4, <2>1 DEF SubmitCommit
  <2> QED
    BY <1>4, <2>3, <2>4, WriterIdleType, UnlockedType DEF SubmitCommit
<1>5. ASSUME NEW a \in Attempts, FinishLock(w, a) PROVE TotalsTypeOK'
  <2>1. [work[w] EXCEPT !.on = a] \in Job
    BY <1>j DEF Job
  <2> QED
    BY <1>5, <2>1 DEF FinishLock, Overlap
<1>6. CASE FinishFold(w)
  <2> DEFINE a == work[w].on
             f == Fold(lines[a], frozen[a] \cap Active(lines[a]))
  <2>1. a \in Attempts
    BY <1>6, <1>h DEF FinishFold
  <2>2. f \in Triple
    BY <2>1, FoldType
  <2>3. [work[w] EXCEPT !.fold = f] \in Job
    BY <1>j, <2>2 DEF Job
  <2> QED
    BY <1>6, <2>3 DEF FinishFold
<1>7. CASE FinishCommit(w)
  <2>1. work[w].on \in Attempts /\ work[w].fold \in Triple
    BY <1>7, <1>j, <1>h DEF FinishCommit, Job
  <2>2. work[w].fold.frozen \in SUBSET Scorables
    BY <2>1 DEF Triple
  <2> QED
    BY <1>7, <2>1, <2>2, WriterIdleType, UnlockedType DEF FinishCommit
<1>8. CASE WriterAbort(w)
  BY <1>8, WriterIdleType, UnlockedType DEF WriterAbort
<1> QED
  BY <1>1, <1>2, <1>3, <1>4, <1>5, <1>6, <1>7, <1>8 DEF Write

LEMMA GraderTypeStep ==
    ASSUME TotalsTypeOK, GraderHolds, GraderLines, NEW g \in Graders, Regrade(g)
    PROVE  TotalsTypeOK'
<1> USE DEF TotalsTypeOK, sheetVars, writerVars, graderVars
<1>1. ASSUME NEW q \in Scorables, GradeRead(g, q) PROVE TotalsTypeOK'
  BY <1>1 DEF GradeRead
<1>2. ASSUME NEW a \in Attempts, GradeLine(g, a) PROVE TotalsTypeOK'
  <2>1. CASE UNCHANGED <<held, rewrite>>
    BY <1>2, <2>1 DEF GradeLine
  <2>2. ASSUME held' = [held EXCEPT ![g] = @ \cup {a}],
               NEW s \in Scores, rewrite' = [rewrite EXCEPT ![g][a] = s]
        PROVE  TotalsTypeOK'
    <3>1. held' \in [Graders -> SUBSET Attempts]
      BY <2>2
    <3>2. rewrite' \in [Graders -> [Attempts -> Scores]]
      BY <2>2
    <3> QED
      BY <1>2, <3>1, <3>2 DEF GradeLine
  <2> QED
    BY <1>2, <2>1, <2>2 DEF GradeLine
<1>3. CASE GradeFold(g)
  <2> DEFINE a == visiting[g]
  <2>1. a \in Attempts
    BY <1>3 DEF GradeFold, GraderHolds
  <2>2. Fold(GraderView(g, a), frozen[a]) \in Triple
    BY <2>1, GraderViewType, FoldType
  <2> QED
    BY <1>3, <2>1, <2>2 DEF GradeFold
<1>4. CASE GradeSet(g)
  <2>1. visiting[g] \in Attempts
    BY <1>4 DEF GradeSet, GraderHolds
  <2> QED
    BY <1>4, <2>1 DEF GradeSet
<1>5. CASE GradeCommit(g)
  <2>1. lines' \in [Attempts -> Sheet]
    BY <1>5, GraderViewType DEF GradeCommit
  <2>2. stored' \in [Attempts -> Triple]
    BY <1>5 DEF GradeCommit
  <2> QED
    BY <1>5, <2>1, <2>2, GraderIdleType DEF GradeCommit
<1>6. CASE GraderAbort(g)
  BY <1>6, GraderIdleType DEF GraderAbort
<1> QED
  BY <1>1, <1>2, <1>3, <1>4, <1>5, <1>6 DEF Regrade

-----------------------------------------------------------------------------
(* Writer steps *)

\* Writers at work are on different attempts.
LEMMA WritersApart ==
    ASSUME WriterHolds, NEW v \in Writers, NEW w \in Writers, v # w,
           writerPc[v] # "idle", writerPc[w] # "idle"
    PROVE  work[v].on # work[w].on
  BY DEF WriterHolds

\* A writer takes a free, open attempt: a submit that goes on to store its line, or a
\* finish that goes on to prune.
LEMMA TakeKeeps ==
    ASSUME ScoreInv, TotalsTypeOK', NEW w \in Writers, NEW a \in Attempts, NEW job \in Job,
           NEW pc \in {"store", "prune"},
           writerPc[w] = "idle", FreeInput(a), state[a] = "open",
           job.on = a, pc = "store" => job.at \in frozen[a] /\ job.line \in Line,
           inputLock' = [inputLock EXCEPT ![a] = w],
           writerPc' = [writerPc EXCEPT ![w] = pc],
           work' = [work EXCEPT ![w] = job],
           overlapped' = Overlap(a),
           UNCHANGED <<sheetVars, graderVars>>
    PROVE  ScoreInv'
<1> USE DEF ScoreInv, sheetVars, graderVars
<1>t. /\ inputLock[a] = None /\ a # None
      /\ None \notin Writers /\ \A g \in Graders : g # w /\ g # None
      /\ \A b \in Attempts : inputLock'[b] = IF b = a THEN w ELSE inputLock[b]
      /\ \A v \in Writers : v # w => work'[v] = work[v] /\ writerPc'[v] = writerPc[v]
      /\ work'[w] = job /\ writerPc'[w] = pc
      /\ overlapped \subseteq overlapped'
  BY ScoreAssumption DEF TotalsTypeOK, FreeInput, Overlap
<1>r. \A b \in Attempts : Regrading(b)' = Regrading(b)
  BY <1>t DEF Regrading
<1>1. WriterHolds'
  BY <1>t DEF WriterHolds
<1>2. ScoreKept'
  BY <1>t DEF ScoreKept
<1>3. WriterFolds'
  <2> SUFFICES ASSUME NEW v \in Writers, writerPc'[v] \in {"commit", "close"}
               PROVE  v # w /\ Seen(work[v])' = Seen(work[v])
    BY <1>t DEF WriterFolds
  <2> QED
    BY <1>t DEF Seen, Dropped
<1>4. GraderHolds'
  BY <1>t DEF GraderHolds
<1>5. GraderLines'
  BY <1>t DEF GraderLines, Touched, Dropped
<1>6. GraderAlone'
  <2> SUFFICES ASSUME NEW b \in Attempts, b \notin overlapped', NEW g \in Regrading(b)
               PROVE  /\ \A v \in Writers : writerPc'[v] # "idle" => work'[v].on # b
                      /\ \A h \in Regrading(b) : h = g
    BY <1>r DEF GraderAlone
  <2>1. b # a
    BY DEF Overlap
  <2> QED
    BY <1>t, <2>1 DEF GraderAlone
<1>7. GraderFolds'
  <2> SUFFICES ASSUME NEW b \in Attempts, b \notin overlapped', NEW g \in Graders,
                      inputLock'[b] = g \/ (graderPc[g] = "set" /\ visiting[g] = b)
               PROVE  refold[g][b] = Fold(GraderView(g, b), frozen[b])
    BY DEF GraderFolds, GraderView
  <2>1. inputLock[b] = g \/ (graderPc[g] = "set" /\ visiting[g] = b)
    BY <1>t
  <2> QED
    BY <1>t, <2>1 DEF GraderFolds
<1>8. AnsweredStaysFrozen' /\ TotalsFreshUnlessOverlapped'
  BY <1>t DEF AnsweredStaysFrozen, TotalsFreshUnlessOverlapped, Fresh
<1> QED
  BY <1>1, <1>2, <1>3, <1>4, <1>5, <1>6, <1>7, <1>8

\* A writer goes on with its transaction, writing no row and taking no lock: it keeps
\* its attempt, question and trigger.
LEMMA WorkKeeps ==
    ASSUME ScoreInv, TotalsTypeOK', NEW w \in Writers, NEW job \in Job,
           NEW pc \in {"fold", "commit", "close"},
           writerPc[w] # "idle",
           job.on = work[w].on, Touched(job) = Touched(work[w]),
           pc \in {"fold", "commit"} => /\ job.at \in frozen[job.on] /\ job.line \in Line
                                        /\ \A g \in Graders : ~(job.on \in held[g]
                                                                /\ task[g] \in Touched(job)),
           pc \in {"fold", "commit"} /\ job.at \in Scalars /\ lines[job.on][job.at] # None
                => job.line.score = lines[job.on][job.at].score,
           pc = "commit" => job.fold = Fold(Seen(job), frozen[job.on]),
           pc = "close" => job.fold = Fold(lines[job.on],
                                           frozen[job.on] \cap Active(lines[job.on])),
           writerPc' = [writerPc EXCEPT ![w] = pc],
           work' = [work EXCEPT ![w] = job],
           UNCHANGED <<sheetVars, inputLock, graderVars, overlapped>>
    PROVE  ScoreInv'
<1> USE DEF ScoreInv, sheetVars, graderVars
<1>t. /\ \A v \in Writers : v # w => work'[v] = work[v] /\ writerPc'[v] = writerPc[v]
      /\ work'[w] = job /\ writerPc'[w] = pc
  BY DEF TotalsTypeOK
<1>v. \A v \in Writers : Seen(work[v])' = IF v = w THEN Seen(job) ELSE Seen(work[v])
  BY <1>t DEF Seen, Dropped
<1>u. \A v \in Writers : Touched(work[v])' = Touched(work[v])
  BY <1>t DEF Touched, Dropped
<1>1. WriterHolds'
  BY <1>t DEF WriterHolds
<1>2. ScoreKept'
  BY <1>t DEF ScoreKept
<1>3. WriterFolds'
  <2> SUFFICES ASSUME NEW v \in Writers
               PROVE  /\ writerPc'[v] = "commit" =>
                            work'[v].fold = Fold(Seen(work[v])', frozen[work'[v].on])
                      /\ writerPc'[v] = "close" =>
                            work'[v].fold = Fold(lines[work'[v].on],
                                                 frozen[work'[v].on]
                                                     \cap Active(lines[work'[v].on]))
    BY DEF WriterFolds
  <2>1. CASE v = w
    BY <1>t, <1>v, <2>1
  <2>2. CASE v # w
    BY <1>t, <1>v, <2>2 DEF WriterFolds
  <2> QED
    BY <2>1, <2>2
<1>4. GraderHolds'
  BY DEF GraderHolds
<1>5. GraderLines'
  BY <1>t, <1>u DEF GraderLines
<1>6. GraderAlone'
  BY <1>t DEF GraderAlone, Regrading
<1>7. GraderFolds'
  BY DEF GraderFolds, GraderView
<1>8. AnsweredStaysFrozen' /\ TotalsFreshUnlessOverlapped'
  BY DEF AnsweredStaysFrozen, TotalsFreshUnlessOverlapped, Fresh
<1> QED
  BY <1>1, <1>2, <1>3, <1>4, <1>5, <1>6, <1>7, <1>8

\* A writer ends its transaction, changing nothing but its own attempt's row, lines and
\* snapshot, to a state of them that no grader at work is misled by.
LEMMA ReleaseKeeps ==
    ASSUME ScoreInv, TotalsTypeOK', NEW w \in Writers, NEW a \in Attempts,
           writerPc[w] # "idle", work[w].on = a,
           WriterIdle(w), inputLock' = Unlocked(w),
           UNCHANGED <<graderPc, task, todo, visiting, held, rewrite, refold, overlapped>>,
           \A b \in Attempts : b # a => /\ lines'[b] = lines[b] /\ frozen'[b] = frozen[b]
                                        /\ stored'[b] = stored[b] /\ state'[b] = state[b],
           \A g \in Graders : /\ gone[g] \subseteq gone'[g]
                              /\ graderPc[g] = "idle" => gone'[g] = gone[g]
                              /\ a \in held[g] => lines'[a][task[g]] # None
                              /\ a \in todo[g] \ gone'[g] => lines'[a][task[g]] # None,
           \A q \in Scorables : lines'[a][q] # None => q \in frozen'[a],
           a \notin overlapped => stored'[a] = Fold(lines'[a], frozen'[a])
    PROVE  ScoreInv'
<1> USE DEF ScoreInv
<1>t. /\ \A g \in Graders : g # w /\ g # None
      /\ inputLock[a] = w
      /\ \A b \in Attempts : inputLock'[b] = IF inputLock[b] = w THEN None ELSE inputLock[b]
      /\ \A v \in Writers : v # w => work'[v] = work[v] /\ writerPc'[v] = writerPc[v]
      /\ writerPc'[w] = "idle"
  BY ScoreAssumption, UnlockedAt DEF TotalsTypeOK, WriterIdle, WriterHolds
<1>o. \A v \in Writers : writerPc'[v] # "idle" => /\ v # w /\ work[v].on # a
                                                  /\ work[v].on \in Attempts
  BY <1>t, WritersApart DEF WriterHolds
<1>v. \A v \in Writers : writerPc'[v] # "idle" => Seen(work[v])' = Seen(work[v])
  <2> SUFFICES ASSUME NEW v \in Writers, writerPc'[v] # "idle"
               PROVE  Seen(work[v])' = Seen(work[v])
    OBVIOUS
  <2>1. lines'[work[v].on] = lines[work[v].on] /\ work'[v] = work[v]
    BY <1>t, <1>o
  <2> QED
    BY <2>1 DEF Seen, Dropped
<1>r. \A b \in Attempts : Regrading(b)' \subseteq Regrading(b)
  BY <1>t DEF Regrading
<1>1. WriterHolds'
  <2> SUFFICES ASSUME NEW v \in Writers, writerPc'[v] # "idle"
               PROVE  /\ work'[v].on \in Attempts
                      /\ inputLock'[work'[v].on] = v
                      /\ state'[work'[v].on] = "open"
                      /\ writerPc'[v] \in {"store", "fold", "commit"} =>
                            work'[v].at \in frozen'[work'[v].on] /\ work'[v].line \in Line
    BY DEF WriterHolds
  <2> QED
    BY <1>t, <1>o DEF WriterHolds
<1>2. ScoreKept'
  BY <1>t, <1>o DEF ScoreKept
<1>3. WriterFolds'
  BY <1>t, <1>o, <1>v DEF WriterFolds
<1>4. GraderHolds'
  BY <1>t, ScoreAssumption DEF GraderHolds, TotalsTypeOK
<1>5. GraderLines'
  <2>1. ASSUME NEW g \in Graders, NEW b \in held[g] PROVE lines'[b][task[g]] # None
    <3>1. b \in Attempts /\ lines[b][task[g]] # None
      BY DEF GraderLines, TotalsTypeOK
    <3>2. CASE b = a
      BY <3>2
    <3>3. CASE b # a
      BY <3>1, <3>3
    <3> QED
      BY <3>2, <3>3
  <2>2. ASSUME NEW g \in Graders, NEW b \in todo[g] \ gone'[g]
        PROVE  lines'[b][task[g]] # None
    <3>1. b \in Attempts /\ b \in todo[g] \ gone[g]
      BY <2>2 DEF TotalsTypeOK
    <3> QED
      BY <2>2, <3>1 DEF GraderLines
  <2>3. \A v \in Writers : v # w => Touched(work[v])' = Touched(work[v])
    BY <1>t DEF Touched, Dropped
  <2> QED
    BY <1>t, <2>1, <2>2, <2>3 DEF GraderLines
<1>6. GraderAlone'
  BY <1>t, <1>r DEF GraderAlone
<1>7. GraderFolds'
  <2> SUFFICES ASSUME NEW b \in Attempts, b \notin overlapped, NEW g \in Graders,
                      inputLock'[b] = g \/ (graderPc[g] = "set" /\ visiting[g] = b)
               PROVE  refold[g][b] = Fold(GraderView(g, b)', frozen'[b])
    BY DEF GraderFolds
  <2>1. inputLock[b] = g \/ (graderPc[g] = "set" /\ visiting[g] = b)
    BY <1>t
  <2>2. g \in Regrading(b)
    BY <2>1 DEF Regrading, GraderHolds
  <2>3. b # a
    BY <2>2 DEF GraderAlone
  <2>4. GraderView(g, b)' = GraderView(g, b) /\ frozen'[b] = frozen[b]
    BY <2>3 DEF GraderView
  <2> QED
    BY <2>1, <2>4 DEF GraderFolds
<1>8. AnsweredStaysFrozen' /\ TotalsFreshUnlessOverlapped'
  BY DEF AnsweredStaysFrozen, TotalsFreshUnlessOverlapped, Fresh
<1> QED
  BY <1>1, <1>2, <1>3, <1>4, <1>5, <1>6, <1>7, <1>8

\* Every step of a writer keeps the invariant.
LEMMA WriterStep ==
    ASSUME ScoreInv, NEW w \in Writers, Write(w)
    PROVE  ScoreInv'
<1>t. /\ TotalsTypeOK /\ TotalsTypeOK' /\ work[w] \in Job
      /\ writerPc[w] # "idle" => /\ work[w].on \in Attempts
                                 /\ lines[work[w].on] \in Sheet
  BY WriterTypeStep DEF ScoreInv, TotalsTypeOK, WriterHolds
<1>1. ASSUME NEW a \in Attempts, NEW q \in Scorables, NEW line \in Line,
             SubmitLock(w, a, q, line)
      PROVE  ScoreInv'
  <2> DEFINE job == [on |-> a, at |-> q, line |-> line, fold |-> BlankTriple]
  <2>1. job \in Job
    BY BlankType DEF Job
  <2> QED
    BY <1>1, <1>t, <2>1, TakeKeeps DEF SubmitLock
<1>2. CASE SubmitStore(w)
  <2> DEFINE job == [work[w] EXCEPT !.line = Kept(work[w])]
  <2>1. work[w].on \in Attempts /\ work[w].line \in Line
        /\ work[w].at \in frozen[work[w].on]
    BY <1>2 DEF SubmitStore, ScoreInv, WriterHolds
  <2>2. /\ Kept(work[w]) \in Line
        /\ Kept(work[w]).fires = work[w].line.fires
        /\ work[w].at \in Scalars /\ lines[work[w].on][work[w].at] # None
              => Kept(work[w]).score = lines[work[w].on][work[w].at].score
    BY <1>t, <2>1, KeptLine
  <2>3. /\ job \in Job /\ job.on = work[w].on /\ job.at = work[w].at
        /\ job.line = Kept(work[w])
    BY <1>t, <2>2 DEF Job
  <2>4. Touched(job) = Touched(work[w])
    BY <2>2, <2>3 DEF Touched, Dropped
  <2> HIDE DEF job
  <2>5. writerPc' = [writerPc EXCEPT ![w] = "fold"] /\ work' = [work EXCEPT ![w] = job]
    BY <1>2 DEF SubmitStore, job
  <2> QED
    BY <1>2, <1>t, <2>1, <2>2, <2>3, <2>4, <2>5, WorkKeeps DEF SubmitStore
<1>3. CASE SubmitFold(w)
  <2> DEFINE f == Fold(Seen(work[w]), frozen[work[w].on])
             job == [work[w] EXCEPT !.fold = f]
  <2>1. work[w].on \in Attempts /\ work[w].line \in Line
        /\ work[w].at \in frozen[work[w].on]
    BY <1>3 DEF SubmitFold, ScoreInv, WriterHolds
  <2>2. f \in Triple
    BY <1>t, <2>1, ViewType, FoldType DEF TotalsTypeOK
  <2>3. /\ job \in Job /\ job.on = work[w].on /\ job.at = work[w].at
        /\ job.line = work[w].line /\ job.fold = f
    BY <1>t, <2>2 DEF Job
  <2>4. Touched(job) = Touched(work[w]) /\ Seen(job) = Seen(work[w])
    BY <2>3, ViewEq
  <2> HIDE DEF job
  <2>5. writerPc' = [writerPc EXCEPT ![w] = "commit"] /\ work' = [work EXCEPT ![w] = job]
    BY <1>3 DEF SubmitFold, job
  <2>6. /\ job.at \in Scalars /\ lines[job.on][job.at] # None
              => job.line.score = lines[job.on][job.at].score
        /\ \A g \in Graders : ~(job.on \in held[g] /\ task[g] \in Touched(job))
    BY <1>3, <2>3, <2>4 DEF SubmitFold, ScoreInv, ScoreKept, GraderLines
  <2> QED
    BY <1>3, <1>t, <2>1, <2>3, <2>4, <2>5, <2>6, WorkKeeps DEF SubmitFold
<1>4. CASE SubmitCommit(w)
  <2> DEFINE a == work[w].on
             job == work[w]
  <2>1. /\ a \in Attempts /\ job.line \in Line /\ job.at \in frozen[a]
        /\ job.at \in Scorables /\ lines[a] \in Sheet
        /\ job.fold = Fold(Seen(job), frozen[a])
    BY <1>4, <1>t DEF SubmitCommit, ScoreInv, WriterHolds, WriterFolds, TotalsTypeOK
  <2>2. /\ lines'[a] = Seen(job) /\ stored'[a] = job.fold /\ frozen'[a] = frozen[a]
        /\ \A b \in Attempts : b # a => lines'[b] = lines[b] /\ stored'[b] = stored[b]
    BY <1>4, <1>t, <2>1 DEF SubmitCommit, TotalsTypeOK
  <2>3. \A q \in Scorables : lines'[a][q] # None => q \in frozen'[a]
    BY <2>1, <2>2, ViewAt DEF ScoreInv, AnsweredStaysFrozen
  <2>4. ASSUME NEW g \in Graders, a \in held[g] PROVE lines'[a][task[g]] # None
    <3>1. task[g] \in Scorables /\ task[g] \notin Touched(job) /\ lines[a][task[g]] # None
      BY <1>4, <2>4 DEF SubmitCommit, ScoreInv, GraderLines, GraderHolds
    <3> QED
      BY <2>2, <3>1, ViewAt
  <2>5. ASSUME NEW g \in Graders, a \in todo[g] \ gone'[g]
        PROVE  lines'[a][task[g]] # None
    <3>1. graderPc[g] # "idle" /\ task[g] \in Scorables
      BY <2>5 DEF ScoreInv, GraderHolds
    <3>2. task[g] \notin Replaced(job) /\ a \notin gone[g]
      BY <1>4, <2>5, <3>1 DEF SubmitCommit
    <3>3. lines[a][task[g]] # None
      BY <2>5, <3>2 DEF ScoreInv, GraderLines
    <3>4. CASE task[g] \notin Touched(job)
      BY <2>2, <3>1, <3>3, <3>4, ViewAt
    <3>5. CASE task[g] \in Touched(job)
      <4>1. job.at \notin Selects
        BY <3>2, <3>5 DEF Replaced
      <4>2. task[g] = job.at
        BY <3>5, <4>1 DEF Touched, Dropped
      <4> QED
        BY <2>1, <2>2, <3>1, <4>2, ViewAt, LineNotNone
    <3> QED
      BY <3>4, <3>5
  <2>6. \A g \in Graders : /\ gone[g] \subseteq gone'[g]
                           /\ graderPc[g] = "idle" => gone'[g] = gone[g]
    BY <1>4 DEF SubmitCommit
  <2> HIDE DEF job, a
  <2>7. work[w].on = a /\ writerPc[w] # "idle" /\ a \in Attempts
    BY <1>4, <2>1 DEF SubmitCommit, a
  <2>8. stored'[a] = Fold(lines'[a], frozen'[a])
    BY <2>1, <2>2
  <2>9. \A b \in Attempts : b # a => /\ lines'[b] = lines[b] /\ frozen'[b] = frozen[b]
                                     /\ stored'[b] = stored[b] /\ state'[b] = state[b]
    BY <1>4, <2>2 DEF SubmitCommit
  <2>10. \A g \in Graders : /\ gone[g] \subseteq gone'[g]
                            /\ graderPc[g] = "idle" => gone'[g] = gone[g]
                            /\ a \in held[g] => lines'[a][task[g]] # None
                            /\ a \in todo[g] \ gone'[g] => lines'[a][task[g]] # None
    BY <2>4, <2>5, <2>6
  <2>11. /\ WriterIdle(w) /\ inputLock' = Unlocked(w)
         /\ UNCHANGED <<graderPc, task, todo, visiting, held, rewrite, refold, overlapped>>
    BY <1>4 DEF SubmitCommit
  <2> QED
    BY <1>t, <2>3, <2>7, <2>8, <2>9, <2>10, <2>11, ReleaseKeeps
<1>5. ASSUME NEW a \in Attempts, FinishLock(w, a) PROVE ScoreInv'
  <2> DEFINE job == [work[w] EXCEPT !.on = a]
  <2>1. job \in Job /\ job.on = a
    BY <1>t DEF Job
  <2> HIDE DEF job
  <2>2. work' = [work EXCEPT ![w] = job]
    BY <1>5 DEF FinishLock, job
  <2> QED
    BY <1>5, <1>t, <2>1, <2>2, TakeKeeps DEF FinishLock
<1>6. CASE FinishFold(w)
  <2> DEFINE a == work[w].on
             f == Fold(lines[a], frozen[a] \cap Active(lines[a]))
             job == [work[w] EXCEPT !.fold = f]
  <2>1. a \in Attempts
    BY <1>6, <1>t DEF FinishFold
  <2>2. f \in Triple
    BY <1>t, <2>1, FoldType DEF TotalsTypeOK
  <2>3. /\ job \in Job /\ job.on = work[w].on /\ job.at = work[w].at
        /\ job.line = work[w].line /\ job.fold = f
    BY <1>t, <2>2 DEF Job
  <2>4. Touched(job) = Touched(work[w])
    BY <2>3, ViewEq
  <2> HIDE DEF job
  <2>5. writerPc' = [writerPc EXCEPT ![w] = "close"] /\ work' = [work EXCEPT ![w] = job]
    BY <1>6 DEF FinishFold, job
  <2> QED
    BY <1>6, <1>t, <2>1, <2>3, <2>4, <2>5, WorkKeeps DEF FinishFold
<1>7. CASE FinishCommit(w)
  <2> DEFINE a == work[w].on
             asked == frozen[a] \cap Active(lines[a])
  <2>1. /\ a \in Attempts /\ writerPc[w] # "idle"
        /\ work[w].fold = Fold(lines[a], asked)
    BY <1>7, <1>t DEF FinishCommit, ScoreInv, WriterFolds
  <2>2. work[w].fold.frozen = asked
    <3>1. lines[a] \in Sheet /\ asked \in SUBSET Scorables
      BY <1>t, <2>1 DEF TotalsTypeOK
    <3> QED
      BY <2>1, <3>1, FoldType
  <2>3. /\ lines'[a] = lines[a] /\ frozen'[a] = asked /\ stored'[a] = Fold(lines[a], asked)
        /\ \A b \in Attempts : b # a => /\ lines'[b] = lines[b] /\ frozen'[b] = frozen[b]
                                        /\ stored'[b] = stored[b] /\ state'[b] = state[b]
    <3> HIDE DEF a, asked
    <3>1. /\ state' = [state EXCEPT ![a] = "done"] /\ frozen' = [frozen EXCEPT ![a] = asked]
          /\ stored' = [stored EXCEPT ![a] = Fold(lines[a], asked)] /\ lines' = lines
      BY <1>7, <2>1, <2>2 DEF FinishCommit, a
    <3> QED
      BY <1>t, <2>1, <3>1 DEF TotalsTypeOK
  <2>4. \A q \in Scorables : lines'[a][q] # None => q \in frozen'[a]
    BY <2>1, <2>3 DEF Active, ScoreInv, AnsweredStaysFrozen
  <2>5. \A g \in Graders : /\ gone[g] \subseteq gone'[g]
                           /\ graderPc[g] = "idle" => gone'[g] = gone[g]
                           /\ a \in held[g] => lines'[a][task[g]] # None
                           /\ a \in todo[g] \ gone'[g] => lines'[a][task[g]] # None
    BY <1>7, <2>3 DEF FinishCommit, graderVars, ScoreInv, GraderLines
  <2> HIDE DEF a, asked
  <2>6. work[w].on = a
    BY DEF a
  <2> QED
    BY <1>7, <1>t, <2>1, <2>3, <2>4, <2>5, <2>6, ReleaseKeeps DEF FinishCommit, graderVars
<1>8. CASE WriterAbort(w)
  <2> DEFINE a == work[w].on
  <2>1. a \in Attempts
    BY <1>8, <1>t DEF WriterAbort
  <2>2. \A g \in Graders : /\ a \in held[g] => lines[a][task[g]] # None
                           /\ a \in todo[g] \ gone[g] => lines[a][task[g]] # None
    BY DEF ScoreInv, GraderLines
  <2>3. /\ \A q \in Scorables : lines[a][q] # None => q \in frozen[a]
        /\ a \notin overlapped => stored[a] = Fold(lines[a], frozen[a])
    BY <2>1 DEF ScoreInv, AnsweredStaysFrozen, TotalsFreshUnlessOverlapped, Fresh
  <2> QED
    BY <1>8, <1>t, <2>1, <2>2, <2>3, ReleaseKeeps DEF WriterAbort, sheetVars, graderVars
<1> QED
  BY <1>1, <1>2, <1>3, <1>4, <1>5, <1>6, <1>7, <1>8 DEF Write

\* The session-end sweep finishes attempts that nobody holds.
LEMMA SweepStep ==
    ASSUME ScoreInv, NEW a \in Attempts, SessionEnds(a)
    PROVE  ScoreInv'
<1> USE DEF ScoreInv, SessionEnds, writerVars, graderVars
<1>1. TotalsTypeOK'
  BY DEF TotalsTypeOK
<1>2. \A w \in Writers : writerPc[w] # "idle" => work[w].on # a
  BY ScoreAssumption DEF WriterHolds, FreeInput
<1>3. WriterHolds'
  BY <1>2 DEF WriterHolds, TotalsTypeOK
<1>4. ScoreKept' /\ WriterFolds' /\ GraderHolds' /\ GraderLines'
  <2>1. ScoreKept'
    BY DEF ScoreKept
  <2>2. WriterFolds'
    BY DEF WriterFolds, Seen, Dropped
  <2>3. GraderHolds' /\ GraderLines'
    BY DEF GraderHolds, GraderLines, Touched
  <2> QED
    BY <2>1, <2>2, <2>3
<1>5. GraderAlone' /\ GraderFolds'
  BY DEF GraderAlone, GraderFolds, GraderView, Regrading
<1>6. AnsweredStaysFrozen' /\ TotalsFreshUnlessOverlapped'
  BY DEF AnsweredStaysFrozen, TotalsFreshUnlessOverlapped, Fresh
<1> QED
  BY <1>1, <1>3, <1>4, <1>5, <1>6

-----------------------------------------------------------------------------
(* Grader steps *)

\* What a grader's step leaves alone: the writers, and what they will commit.
LEMMA WritersUndisturbed ==
    ASSUME ScoreInv, UNCHANGED <<writerPc, work, state, frozen>>,
           \A w \in Writers : writerPc[w] # "idle" =>
              /\ inputLock'[work[w].on] = w
              /\ lines'[work[w].on] = lines[work[w].on]
    PROVE  WriterHolds' /\ ScoreKept' /\ WriterFolds'
<1> USE DEF ScoreInv
<1>1. WriterHolds'
  BY DEF WriterHolds
<1>2. ScoreKept'
  BY DEF ScoreKept
<1>3. ASSUME NEW w \in Writers, writerPc[w] # "idle" PROVE Seen(work[w])' = Seen(work[w])
  BY <1>3 DEF Seen, Dropped
<1>4. WriterFolds'
  BY <1>3 DEF WriterFolds
<1> QED
  BY <1>1, <1>2, <1>4

\* Regrades go over what is answered; an attempt that another worker is on at that
\* moment counts as overlapped.
LEMMA GradeReadStep ==
    ASSUME ScoreInv, NEW g \in Graders, NEW q \in Scorables, GradeRead(g, q)
    PROVE  ScoreInv'
<1> DEFINE answered == {a \in Attempts : lines[a][q] # None}
<1>t. /\ TotalsTypeOK /\ TotalsTypeOK'
      /\ UNCHANGED <<sheetVars, inputLock, writerVars, visiting, gone, held, rewrite, refold>>
  BY GraderTypeStep DEF ScoreInv, Regrade, GradeRead
<1>u. /\ state' = state /\ lines' = lines /\ frozen' = frozen /\ stored' = stored
      /\ inputLock' = inputLock /\ writerPc' = writerPc /\ work' = work
      /\ visiting' = visiting /\ gone' = gone /\ held' = held /\ refold' = refold
      /\ rewrite' = rewrite
  BY <1>t DEF sheetVars, writerVars
<1>s. /\ graderPc[g] = "idle" /\ graderPc'[g] = "next"
      /\ task'[g] = q /\ todo'[g] = answered
      /\ \A h \in Graders : h # g => /\ graderPc'[h] = graderPc[h] /\ task'[h] = task[h]
                                     /\ todo'[h] = todo[h]
      /\ overlapped \subseteq overlapped'
      /\ \A a \in answered : ~FreeInput(a) \/ Regrading(a) # {} => a \in overlapped'
  BY <1>t DEF GradeRead, TotalsTypeOK
<1>i. /\ todo[g] = {} /\ held[g] = {} /\ gone[g] = {} /\ visiting[g] = None
      /\ \A a \in Attempts : inputLock[a] # g
  BY <1>s DEF ScoreInv, GraderHolds
<1> HIDE DEF answered
<1>1. WriterHolds' /\ ScoreKept' /\ WriterFolds'
  BY <1>u, WritersUndisturbed DEF ScoreInv, WriterHolds
<1>2. GraderHolds'
  <2> SUFFICES ASSUME NEW h \in Graders
               PROVE  /\ graderPc'[h] = "idle" => /\ todo'[h] = {} /\ held[h] = {}
                                                  /\ gone[h] = {}
                                                  /\ \A a \in Attempts : inputLock[a] # h
                      /\ graderPc'[h] # "idle" => task'[h] \in Scorables
                      /\ graderPc'[h] \in {"fold", "set"} <=> visiting[h] # None
                      /\ \A a \in held[h] : inputLock[a] = h \/ visiting[h] = a
                      /\ \A a \in todo'[h] : /\ inputLock[a] # h /\ visiting[h] # a
                                             /\ a \notin held[h]
                      /\ visiting[h] # None => inputLock[visiting[h]] # h
    BY <1>u DEF GraderHolds
  <2>1. CASE h = g
    BY <1>s, <1>i, <2>1, ScoreAssumption DEF answered
  <2>2. CASE h # g
    BY <1>s, <2>2 DEF ScoreInv, GraderHolds
  <2> QED
    BY <2>1, <2>2
<1>3. GraderLines'
  <2> SUFFICES ASSUME NEW h \in Graders
               PROVE  /\ \A a \in held[h] : lines[a][task'[h]] # None
                      /\ \A a \in todo'[h] \ gone[h] : lines[a][task'[h]] # None
                      /\ \A w \in Writers : writerPc[w] \in {"fold", "commit"} =>
                            ~(work[w].on \in held[h] /\ task'[h] \in Touched(work[w]))
    BY <1>u DEF GraderLines, Touched, Dropped
  <2>1. CASE h = g
    BY <1>s, <1>i, <2>1 DEF answered
  <2>2. CASE h # g
    BY <1>s, <2>2 DEF ScoreInv, GraderLines
  <2> QED
    BY <2>1, <2>2
<1>4. GraderAlone'
  <2> SUFFICES ASSUME NEW a \in Attempts, a \notin overlapped', NEW h \in Regrading(a)'
               PROVE  /\ \A w \in Writers : writerPc[w] # "idle" => work[w].on # a
                      /\ \A k \in Regrading(a)' : k = h
    BY <1>u DEF GraderAlone
  <2>1. \A k \in Regrading(a)' : k \in Graders /\ (k # g => k \in Regrading(a))
    BY <1>u, <1>s DEF Regrading
  <2>2. CASE g \in Regrading(a)'
    <3>1. a \in answered
      BY <1>u, <1>s, <1>i, <2>2, ScoreAssumption DEF Regrading
    <3>2. FreeInput(a) /\ Regrading(a) = {}
      BY <1>s, <3>1
    <3>3. \A w \in Writers : writerPc[w] # "idle" => work[w].on # a
      BY <3>2, ScoreAssumption DEF FreeInput, ScoreInv, WriterHolds
    <3> QED
      BY <2>1, <3>2, <3>3
  <2>3. CASE g \notin Regrading(a)'
    BY <1>s, <2>1, <2>3 DEF ScoreInv, GraderAlone
  <2> QED
    BY <2>2, <2>3
<1>5. GraderFolds'
  <2> SUFFICES ASSUME NEW a \in Attempts, a \notin overlapped', NEW h \in Graders,
                      inputLock[a] = h \/ (graderPc'[h] = "set" /\ visiting[h] = a)
               PROVE  refold[h][a] = Fold(GraderView(h, a)', frozen[a])
    BY <1>u DEF GraderFolds
  <2>1. h # g
    BY <1>s, <1>i
  <2>2. GraderView(h, a)' = GraderView(h, a)
    BY <1>u, <1>s, <2>1 DEF GraderView
  <2> QED
    BY <1>s, <2>1, <2>2 DEF ScoreInv, GraderFolds
<1>6. AnsweredStaysFrozen' /\ TotalsFreshUnlessOverlapped'
  BY <1>u, <1>s DEF ScoreInv, AnsweredStaysFrozen, TotalsFreshUnlessOverlapped, Fresh
<1> QED
  BY <1>t, <1>1, <1>2, <1>3, <1>4, <1>5, <1>6 DEF ScoreInv

\* A regrade moves to its next attempt, and writes its line unless it is gone.
LEMMA GradeLineStep ==
    ASSUME ScoreInv, NEW g \in Graders, NEW a \in Attempts, GradeLine(g, a)
    PROVE  ScoreInv'
<1>t. /\ TotalsTypeOK /\ TotalsTypeOK'
      /\ UNCHANGED <<sheetVars, inputLock, writerVars, task, gone, refold, overlapped>>
  BY GraderTypeStep DEF ScoreInv, Regrade, GradeLine
<1>u. /\ state' = state /\ lines' = lines /\ frozen' = frozen /\ stored' = stored
      /\ inputLock' = inputLock /\ writerPc' = writerPc /\ work' = work
      /\ task' = task /\ gone' = gone /\ refold' = refold /\ overlapped' = overlapped
  BY <1>t DEF sheetVars, writerVars
<1>s. /\ graderPc[g] = "next" /\ graderPc'[g] = "fold"
      /\ a \in todo[g] /\ visiting'[g] = a /\ todo'[g] = todo[g] \ {a}
      /\ \A h \in Graders : h # g => /\ graderPc'[h] = graderPc[h] /\ todo'[h] = todo[h]
                                     /\ visiting'[h] = visiting[h]
  BY <1>t DEF GradeLine, TotalsTypeOK
<1>h. /\ \A h \in Graders : h # g => held'[h] = held[h] /\ rewrite'[h] = rewrite[h]
      /\ \A b \in Attempts : b # a => /\ b \in held'[g] <=> b \in held[g]
                                      /\ rewrite'[g][b] = rewrite[g][b]
      /\ held'[g] \subseteq held[g] \cup {a}
      /\ a \in held'[g] /\ a \notin held[g] =>
            /\ a \notin gone[g]
            /\ \A w \in Writers : writerPc[w] \in {"fold", "commit"} =>
                  ~(work[w].on = a /\ task[g] \in Touched(work[w]))
  <2>1. CASE UNCHANGED <<held, rewrite>>
    BY <2>1
  <2>2. ASSUME a \notin gone[g],
               \A w \in Writers : writerPc[w] \in {"fold", "commit"} =>
                  ~(work[w].on = a /\ task[g] \in Touched(work[w])),
               held' = [held EXCEPT ![g] = @ \cup {a}],
               NEW s \in Scores, rewrite' = [rewrite EXCEPT ![g][a] = s]
        PROVE  <1>h!:
    BY <1>t, <2>2 DEF TotalsTypeOK
  <2> QED
    BY <2>1, <2>2 DEF GradeLine
<1>i. /\ visiting[g] = None /\ a # None
      /\ inputLock[a] # g /\ a \notin held[g]
      /\ \A b \in held[g] : b \in Attempts /\ inputLock[b] = g
  <2>1. visiting[g] = None
    BY <1>s DEF ScoreInv, GraderHolds
  <2>2. /\ inputLock[a] # g /\ a \notin held[g]
        /\ \A b \in held[g] : inputLock[b] = g \/ visiting[g] = b
    BY <1>s DEF ScoreInv, GraderHolds
  <2>3. /\ a # None
        /\ \A b \in held[g] : b \in Attempts /\ b # None
    BY <1>t, ScoreAssumption DEF TotalsTypeOK
  <2> QED
    BY <2>1, <2>2, <2>3
<1>1. WriterHolds' /\ ScoreKept' /\ WriterFolds'
  BY <1>u, WritersUndisturbed DEF ScoreInv, WriterHolds
<1>2. GraderHolds'
  <2> SUFFICES ASSUME NEW h \in Graders
               PROVE  /\ graderPc'[h] = "idle" => /\ todo'[h] = {} /\ held'[h] = {}
                                                  /\ gone[h] = {}
                                                  /\ \A b \in Attempts : inputLock[b] # h
                      /\ graderPc'[h] # "idle" => task[h] \in Scorables
                      /\ graderPc'[h] \in {"fold", "set"} <=> visiting'[h] # None
                      /\ \A b \in held'[h] : inputLock[b] = h \/ visiting'[h] = b
                      /\ \A b \in todo'[h] : /\ inputLock[b] # h /\ visiting'[h] # b
                                             /\ b \notin held'[h]
                      /\ visiting'[h] # None => inputLock[visiting'[h]] # h
    BY <1>u DEF GraderHolds
  <2>1. CASE h = g
    <3>1. \A b \in todo'[g] : b # a /\ b \in todo[g] /\ b \in Attempts
      BY <1>s, <1>t DEF TotalsTypeOK
    <3>2. \A b \in todo'[g] : inputLock[b] # g /\ b \notin held'[g]
      BY <3>1, <1>h DEF ScoreInv, GraderHolds
    <3>3. task[g] \in Scorables
      BY <1>s DEF ScoreInv, GraderHolds
    <3> QED
      BY <1>s, <1>h, <1>i, <2>1, <3>1, <3>2, <3>3
  <2>2. CASE h # g
    BY <1>s, <1>h, <2>2 DEF ScoreInv, GraderHolds
  <2> QED
    BY <2>1, <2>2
<1>3. GraderLines'
  <2> SUFFICES ASSUME NEW h \in Graders
               PROVE  /\ \A b \in held'[h] : lines[b][task[h]] # None
                      /\ \A b \in todo'[h] \ gone[h] : lines[b][task[h]] # None
                      /\ \A w \in Writers : writerPc[w] \in {"fold", "commit"} =>
                            ~(work[w].on \in held'[h] /\ task[h] \in Touched(work[w]))
    BY <1>u DEF GraderLines, Touched, Dropped
  <2>1. CASE h = g
    <3>1. /\ \A b \in held[g] : lines[b][task[g]] # None
          /\ \A b \in todo[g] \ gone[g] : lines[b][task[g]] # None
          /\ \A w \in Writers : writerPc[w] \in {"fold", "commit"} =>
                ~(work[w].on \in held[g] /\ task[g] \in Touched(work[w]))
      BY DEF ScoreInv, GraderLines
    <3> QED
      BY <1>s, <1>h, <2>1, <3>1
  <2>2. CASE h # g
    BY <1>s, <1>h, <2>2 DEF ScoreInv, GraderLines
  <2> QED
    BY <2>1, <2>2
<1>4. GraderAlone'
  <2>1. \A b \in Attempts : Regrading(b)' \subseteq Regrading(b)
    <3> SUFFICES ASSUME NEW b \in Attempts, NEW h \in Regrading(b)'
                 PROVE  h \in Regrading(b)
      OBVIOUS
    <3>1. CASE h = g
      BY <1>u, <1>s, <1>h, <3>1 DEF Regrading
    <3>2. CASE h # g
      BY <1>u, <1>s, <1>h, <3>2 DEF Regrading
    <3> QED
      BY <3>1, <3>2
  <2> QED
    BY <1>u, <2>1 DEF ScoreInv, GraderAlone
<1>5. GraderFolds'
  <2> SUFFICES ASSUME NEW b \in Attempts, b \notin overlapped, NEW h \in Graders,
                      inputLock[b] = h \/ (graderPc'[h] = "set" /\ visiting'[h] = b)
               PROVE  refold[h][b] = Fold(GraderView(h, b)', frozen[b])
    BY <1>u DEF GraderFolds
  <2>1. inputLock[b] = h \/ (graderPc[h] = "set" /\ visiting[h] = b)
    BY <1>s
  <2>2. h = g => b # a
    BY <1>s, <1>i
  <2>3. GraderView(h, b)' = GraderView(h, b)
    <3>1. (b \in held'[h] <=> b \in held[h]) /\ rewrite'[h][b] = rewrite[h][b]
      BY <1>h, <2>2
    <3> QED
      BY <1>u, <3>1 DEF GraderView
  <2> QED
    BY <2>1, <2>3 DEF ScoreInv, GraderFolds
<1>6. AnsweredStaysFrozen' /\ TotalsFreshUnlessOverlapped'
  BY <1>u DEF ScoreInv, AnsweredStaysFrozen, TotalsFreshUnlessOverlapped, Fresh
<1> QED
  BY <1>t, <1>1, <1>2, <1>3, <1>4, <1>5, <1>6 DEF ScoreInv

\* A regrade folds its attempt; alone on it, what it folds is what it will commit.
LEMMA GradeFoldStep ==
    ASSUME ScoreInv, NEW g \in Graders, GradeFold(g)
    PROVE  ScoreInv'
<1> DEFINE a == visiting[g]
<1>t. /\ TotalsTypeOK /\ TotalsTypeOK'
      /\ UNCHANGED <<sheetVars, inputLock, writerVars, task, todo, visiting, gone, held, rewrite,
                     overlapped>>
  BY GraderTypeStep DEF ScoreInv, Regrade, GradeFold
<1>u. /\ state' = state /\ lines' = lines /\ frozen' = frozen /\ stored' = stored
      /\ inputLock' = inputLock /\ writerPc' = writerPc /\ work' = work /\ task' = task
      /\ todo' = todo /\ visiting' = visiting /\ gone' = gone /\ held' = held
      /\ rewrite' = rewrite /\ overlapped' = overlapped
  BY <1>t DEF sheetVars, writerVars
<1>a. a \in Attempts /\ inputLock[a] # g /\ graderPc[g] = "fold"
  BY <1>t DEF GradeFold, ScoreInv, GraderHolds, TotalsTypeOK
<1>s. /\ graderPc'[g] = "set"
      /\ \A h \in Graders : h # g => graderPc'[h] = graderPc[h] /\ refold'[h] = refold[h]
      /\ \A b \in Attempts : refold'[g][b] = IF b = a THEN Fold(GraderView(g, a), frozen[a])
                                                     ELSE refold[g][b]
  BY <1>t, <1>a DEF GradeFold, TotalsTypeOK
<1> HIDE DEF a
<1>1. WriterHolds' /\ ScoreKept' /\ WriterFolds'
  BY <1>u, WritersUndisturbed DEF ScoreInv, WriterHolds
<1>2. GraderHolds' /\ GraderLines'
  BY <1>u, <1>s, <1>a DEF ScoreInv, GraderHolds, GraderLines, Touched, Dropped
<1>3. \A b \in Attempts : Regrading(b)' = Regrading(b)
  BY <1>u, <1>s, <1>a DEF Regrading
<1>4. GraderAlone'
  BY <1>u, <1>3 DEF ScoreInv, GraderAlone
<1>5. GraderFolds'
  <2> SUFFICES ASSUME NEW b \in Attempts, b \notin overlapped, NEW h \in Graders,
                      inputLock[b] = h \/ (graderPc'[h] = "set" /\ visiting[h] = b)
               PROVE  refold'[h][b] = Fold(GraderView(h, b), frozen[b])
    BY <1>u DEF GraderFolds, GraderView
  <2>1. CASE h = g
    BY <1>s, <1>a, <2>1 DEF a, ScoreInv, GraderFolds
  <2>2. CASE h # g
    BY <1>s, <2>2 DEF ScoreInv, GraderFolds
  <2> QED
    BY <2>1, <2>2
<1>6. AnsweredStaysFrozen' /\ TotalsFreshUnlessOverlapped'
  BY <1>u DEF ScoreInv, AnsweredStaysFrozen, TotalsFreshUnlessOverlapped, Fresh
<1> QED
  BY <1>t, <1>1, <1>2, <1>4, <1>5, <1>6 DEF ScoreInv

\* ... and stores the triple, taking the attempt row.
LEMMA GradeSetStep ==
    ASSUME ScoreInv, NEW g \in Graders, GradeSet(g)
    PROVE  ScoreInv'
<1> DEFINE a == visiting[g]
<1>t. /\ TotalsTypeOK /\ TotalsTypeOK'
      /\ UNCHANGED <<sheetVars, writerVars, task, todo, gone, held, rewrite, refold, overlapped>>
  BY GraderTypeStep DEF ScoreInv, Regrade, GradeSet
<1>u. /\ state' = state /\ lines' = lines /\ frozen' = frozen /\ stored' = stored
      /\ refold' = refold /\ writerPc' = writerPc /\ work' = work /\ task' = task
      /\ todo' = todo /\ gone' = gone /\ held' = held
      /\ rewrite' = rewrite /\ overlapped' = overlapped
  BY <1>t DEF sheetVars, writerVars
<1>a. a \in Attempts /\ inputLock[a] = None /\ graderPc[g] = "set"
  BY <1>t DEF GradeSet, FreeInput, ScoreInv, GraderHolds, TotalsTypeOK
<1>s. /\ graderPc'[g] = "next" /\ visiting'[g] = None
      /\ \A h \in Graders : h # g => graderPc'[h] = graderPc[h] /\ visiting'[h] = visiting[h]
      /\ \A b \in Attempts : inputLock'[b] = IF b = a THEN g ELSE inputLock[b]
  BY <1>t, <1>a DEF GradeSet, TotalsTypeOK
<1>n. \A h \in Graders : h # None /\ \A b \in held[h] \cup todo[h] : b \in Attempts
  BY <1>t, ScoreAssumption DEF TotalsTypeOK
<1>1. WriterHolds' /\ ScoreKept' /\ WriterFolds'
  <2>1. \A w \in Writers : writerPc[w] # "idle" => inputLock'[work[w].on] = w
    BY <1>a, <1>s, ScoreAssumption DEF ScoreInv, WriterHolds
  <2> QED
    BY <1>u, <2>1, WritersUndisturbed DEF ScoreInv
<1> HIDE DEF a
<1>2. GraderHolds'
  <2> SUFFICES ASSUME NEW h \in Graders
               PROVE  /\ graderPc'[h] = "idle" => /\ todo[h] = {} /\ held[h] = {}
                                                  /\ gone[h] = {}
                                                  /\ \A b \in Attempts : inputLock'[b] # h
                      /\ graderPc'[h] # "idle" => task[h] \in Scorables
                      /\ graderPc'[h] \in {"fold", "set"} <=> visiting'[h] # None
                      /\ \A b \in held[h] : inputLock'[b] = h \/ visiting'[h] = b
                      /\ \A b \in todo[h] : /\ inputLock'[b] # h /\ visiting'[h] # b
                                            /\ b \notin held[h]
                      /\ visiting'[h] # None => inputLock'[visiting'[h]] # h
    BY <1>u DEF GraderHolds
  <2>1. CASE h = g
    <3>1. /\ task[g] \in Scorables
          /\ \A b \in held[g] : inputLock[b] = g \/ a = b
          /\ \A b \in todo[g] : inputLock[b] # g /\ a # b /\ b \notin held[g]
      BY <1>a DEF ScoreInv, GraderHolds, a
    <3>2. \A b \in todo[g] : inputLock'[b] # g /\ b # None
      BY <1>s, <1>n, <3>1, ScoreAssumption
    <3> QED
      BY <1>s, <1>n, <2>1, <3>1, <3>2
  <2>2. CASE h # g
    <3>1. \A b \in Attempts : inputLock'[b] = h <=> inputLock[b] = h
      BY <1>a, <1>s, <1>n, <2>2
    <3>2. visiting[h] # None => visiting[h] \in Attempts
      BY <1>t DEF TotalsTypeOK
    <3> QED
      BY <1>s, <1>n, <2>2, <3>1, <3>2 DEF ScoreInv, GraderHolds
  <2> QED
    BY <2>1, <2>2
<1>3. GraderLines'
  BY <1>u DEF ScoreInv, GraderLines, Touched, Dropped
<1>4. GraderAlone'
  <2>1. \A b \in Attempts : Regrading(b)' \subseteq Regrading(b)
    <3> SUFFICES ASSUME NEW b \in Attempts, NEW h \in Regrading(b)'
                 PROVE  h \in Regrading(b)
      OBVIOUS
    <3>1. CASE h = g
      BY <1>u, <1>s, <1>a, <3>1, ScoreAssumption DEF Regrading, a
    <3>2. CASE h # g
      BY <1>u, <1>s, <3>2 DEF Regrading
    <3> QED
      BY <3>1, <3>2
  <2> QED
    BY <1>u, <2>1 DEF ScoreInv, GraderAlone
<1>5. GraderFolds'
  <2> SUFFICES ASSUME NEW b \in Attempts, b \notin overlapped, NEW h \in Graders,
                      inputLock'[b] = h \/ (graderPc'[h] = "set" /\ visiting'[h] = b)
               PROVE  refold[h][b] = Fold(GraderView(h, b), frozen[b])
    BY <1>u DEF GraderFolds, GraderView
  <2>1. inputLock[b] = h \/ (graderPc[h] = "set" /\ visiting[h] = b)
    BY <1>s, <1>a DEF a
  <2> QED
    BY <2>1 DEF ScoreInv, GraderFolds
<1>6. AnsweredStaysFrozen' /\ TotalsFreshUnlessOverlapped'
  BY <1>u DEF ScoreInv, AnsweredStaysFrozen, TotalsFreshUnlessOverlapped, Fresh
<1> QED
  BY <1>t, <1>1, <1>2, <1>3, <1>4, <1>5, <1>6 DEF ScoreInv

\* A grader's transaction ends, committed or rolled back, and gives back what it holds.
LEMMA GraderReleases ==
    ASSUME ScoreInv, TotalsTypeOK', NEW g \in Graders, graderPc[g] # "idle", GraderIdle(g),
           UNCHANGED <<state, frozen, writerVars, overlapped>>,
           \A b \in Attempts : b \notin held[g] => lines'[b] = lines[b],
           \A b \in held[g] : inputLock[b] = g \/ lines'[b] = lines[b],
           \A b \in Attempts, q \in Scorables : lines'[b][q] = None <=> lines[b][q] = None,
           TotalsFreshUnlessOverlapped'
    PROVE  ScoreInv'
<1>t. TotalsTypeOK /\ writerPc' = writerPc /\ work' = work /\ overlapped' = overlapped
  BY DEF ScoreInv, writerVars
<1>n. /\ g # None /\ \A w \in Writers : w # g
      /\ \A h \in Graders : h # None /\ \A b \in held[h] \cup todo[h] : b \in Attempts
  BY <1>t, ScoreAssumption DEF TotalsTypeOK
<1>s. /\ graderPc'[g] = "idle" /\ todo'[g] = {} /\ held'[g] = {} /\ gone'[g] = {}
      /\ visiting'[g] = None
      /\ \A h \in Graders : h # g =>
            /\ graderPc'[h] = graderPc[h] /\ task'[h] = task[h] /\ todo'[h] = todo[h]
            /\ visiting'[h] = visiting[h] /\ gone'[h] = gone[h] /\ held'[h] = held[h]
            /\ rewrite'[h] = rewrite[h] /\ refold'[h] = refold[h]
      /\ \A b \in Attempts : inputLock'[b] = IF inputLock[b] = g THEN None ELSE inputLock[b]
  BY <1>t, UnlockedAt DEF GraderIdle, TotalsTypeOK
<1>1. WriterHolds' /\ ScoreKept' /\ WriterFolds'
  <2>1. \A w \in Writers : writerPc[w] # "idle" => /\ work[w].on \in Attempts
                                                   /\ inputLock[work[w].on] = w
    BY DEF ScoreInv, WriterHolds
  <2>2. \A w \in Writers : writerPc[w] # "idle" =>
           inputLock'[work[w].on] = w /\ lines'[work[w].on] = lines[work[w].on]
    BY <1>n, <1>s, <2>1
  <2> QED
    BY <1>t, <2>2, WritersUndisturbed
<1>2. GraderHolds'
  <2> SUFFICES ASSUME NEW h \in Graders
               PROVE  /\ graderPc'[h] = "idle" => /\ todo'[h] = {} /\ held'[h] = {}
                                                  /\ gone'[h] = {}
                                                  /\ \A b \in Attempts : inputLock'[b] # h
                      /\ graderPc'[h] # "idle" => task'[h] \in Scorables
                      /\ graderPc'[h] \in {"fold", "set"} <=> visiting'[h] # None
                      /\ \A b \in held'[h] : inputLock'[b] = h \/ visiting'[h] = b
                      /\ \A b \in todo'[h] : /\ inputLock'[b] # h /\ visiting'[h] # b
                                             /\ b \notin held'[h]
                      /\ visiting'[h] # None => inputLock'[visiting'[h]] # h
    BY DEF GraderHolds
  <2>1. CASE h = g
    BY <1>s, <1>n, <2>1
  <2>2. CASE h # g
    <3>1. \A b \in Attempts : inputLock'[b] = h <=> inputLock[b] = h
      BY <1>s, <1>n, <2>2
    <3>2. visiting[h] # None => visiting[h] \in Attempts
      BY <1>t DEF TotalsTypeOK
    <3> QED
      BY <1>s, <1>n, <2>2, <3>1, <3>2 DEF ScoreInv, GraderHolds
  <2> QED
    BY <2>1, <2>2
<1>3. GraderLines'
  <2> SUFFICES ASSUME NEW h \in Graders, h # g
               PROVE  /\ \A b \in held[h] : lines'[b][task[h]] # None
                      /\ \A b \in todo[h] \ gone[h] : lines'[b][task[h]] # None
                      /\ \A w \in Writers : writerPc[w] \in {"fold", "commit"} =>
                            ~(work[w].on \in held[h] /\ task[h] \in Touched(work[w]))
    BY <1>s, <1>t DEF GraderLines, Touched, Dropped
  <2>1. \A b \in held[h] \cup todo[h] : task[h] \in Scorables /\ b \in Attempts
    BY <1>n DEF ScoreInv, GraderHolds
  <2> QED
    BY <2>1 DEF ScoreInv, GraderLines
<1>4. \A b \in Attempts : Regrading(b)' \subseteq Regrading(b) \ {g}
  <2> SUFFICES ASSUME NEW b \in Attempts, NEW h \in Regrading(b)'
               PROVE  h \in Regrading(b) /\ h # g
    OBVIOUS
  <2>1. h # g /\ h \in Graders
    BY <1>s DEF Regrading
  <2> QED
    BY <1>s, <1>n, <2>1 DEF Regrading
<1>5. GraderAlone'
  BY <1>t, <1>4 DEF ScoreInv, GraderAlone
<1>6. GraderFolds'
  <2> SUFFICES ASSUME NEW b \in Attempts, b \notin overlapped, NEW h \in Graders,
                      inputLock'[b] = h \/ (graderPc'[h] = "set" /\ visiting'[h] = b)
               PROVE  refold'[h][b] = Fold(GraderView(h, b)', frozen[b])
    BY <1>t DEF GraderFolds
  <2>1. h # g
    BY <1>s, <1>n
  <2>2. inputLock[b] = h \/ (graderPc[h] = "set" /\ visiting[h] = b)
    BY <1>s, <1>n, <2>1
  <2>3. h \in Regrading(b)
    BY <2>2 DEF Regrading, ScoreInv, GraderHolds
  <2>4. g \notin Regrading(b)
    BY <2>1, <2>3 DEF ScoreInv, GraderAlone
  <2>5. b \notin held[g]
    BY <2>4 DEF Regrading
  <2>6. GraderView(h, b)' = GraderView(h, b)
    BY <1>s, <2>1, <2>5 DEF GraderView
  <2> QED
    BY <1>s, <2>1, <2>2, <2>6 DEF ScoreInv, GraderFolds
<1>7. AnsweredStaysFrozen'
  BY DEF ScoreInv, AnsweredStaysFrozen
<1> QED
  BY <1>1, <1>2, <1>3, <1>5, <1>6, <1>7 DEF ScoreInv

\* A regrade commits the lines and the triples of the attempts it went over.
LEMMA GradeCommitStep ==
    ASSUME ScoreInv, NEW g \in Graders, GradeCommit(g)
    PROVE  ScoreInv'
<1>t. TotalsTypeOK /\ TotalsTypeOK' /\ GraderHolds /\ GraderLines
  BY GraderTypeStep DEF ScoreInv, Regrade
<1>a. /\ graderPc[g] = "next" /\ visiting[g] = None
      /\ \A b \in held[g] : inputLock[b] = g
  <2>1. graderPc[g] = "next" /\ visiting[g] = None
    BY <1>t DEF GradeCommit, GraderHolds
  <2>2. \A b \in held[g] : b # None
    BY <1>t, ScoreAssumption DEF TotalsTypeOK
  <2> QED
    BY <1>t, <2>1, <2>2 DEF GraderHolds
<1>l. \A b \in Attempts : /\ lines'[b] = GraderView(g, b)
                          /\ b \notin held[g] => lines'[b] = lines[b]
                          /\ \A q \in Scorables : lines'[b][q] = None <=> lines[b][q] = None
  BY <1>t, GraderViewType DEF GradeCommit
<1>1. TotalsFreshUnlessOverlapped'
  <2> SUFFICES ASSUME NEW b \in Attempts, b \notin overlapped
               PROVE  stored'[b] = Fold(lines'[b], frozen[b])
    BY DEF TotalsFreshUnlessOverlapped, Fresh, GradeCommit
  <2>1. CASE inputLock[b] = g
    BY <1>l, <2>1 DEF GradeCommit, ScoreInv, GraderFolds
  <2>2. CASE inputLock[b] # g
    BY <1>a, <1>l, <2>2 DEF GradeCommit, ScoreInv, TotalsFreshUnlessOverlapped, Fresh
  <2> QED
    BY <2>1, <2>2
<1> QED
  BY <1>t, <1>a, <1>l, <1>1, GraderReleases DEF GradeCommit

LEMMA GraderAbortStep ==
    ASSUME ScoreInv, NEW g \in Graders, GraderAbort(g)
    PROVE  ScoreInv'
<1>1. TotalsTypeOK'
  BY GraderTypeStep DEF ScoreInv, Regrade
<1>2. TotalsFreshUnlessOverlapped'
  BY DEF ScoreInv, GraderAbort, sheetVars, TotalsFreshUnlessOverlapped, Fresh
<1> QED
  BY <1>1, <1>2, GraderReleases DEF GraderAbort, sheetVars

-----------------------------------------------------------------------------
(* The theorems *)

LEMMA ScoreInvInit == TotalsInit => ScoreInv
<1> SUFFICES ASSUME TotalsInit PROVE ScoreInv
  OBVIOUS
<1>1. TotalsTypeOK
  <2>1. NoJob \in Job
    BY BlankType DEF NoJob, Job
  <2> QED
    BY <2>1, BlankType, ScoreAssumption DEF TotalsInit, TotalsTypeOK
<1>2. /\ WriterHolds /\ ScoreKept /\ WriterFolds
  BY DEF TotalsInit, WriterHolds, ScoreKept, WriterFolds
<1>3. /\ GraderHolds /\ GraderLines /\ GraderFolds
  BY ScoreAssumption DEF TotalsInit, GraderHolds, GraderLines, GraderFolds
<1>4. GraderAlone
  BY DEF TotalsInit, GraderAlone, Regrading
<1>5. AnsweredStaysFrozen /\ TotalsFreshUnlessOverlapped
  BY DEF TotalsInit, AnsweredStaysFrozen, TotalsFreshUnlessOverlapped, Fresh, BlankTriple, BlankSheet
<1> QED
  BY <1>1, <1>2, <1>3, <1>4, <1>5 DEF ScoreInv

LEMMA ScoreInvStep ==
    ASSUME ScoreInv, [TotalsNext]_totalsVars
    PROVE  ScoreInv'
<1>1. ASSUME NEW w \in Writers, Write(w) PROVE ScoreInv'
  BY <1>1, WriterStep
<1>2. ASSUME NEW g \in Graders, Regrade(g) PROVE ScoreInv'
  BY <1>2, GradeReadStep, GradeLineStep, GradeFoldStep, GradeSetStep, GradeCommitStep,
     GraderAbortStep DEF Regrade
<1>3. ASSUME NEW a \in Attempts, SessionEnds(a) PROVE ScoreInv'
  BY <1>3, SweepStep
<1>4. CASE UNCHANGED totalsVars
  <2> USE <1>4 DEF totalsVars, sheetVars, writerVars, graderVars, ScoreInv
  <2>1. TotalsTypeOK' /\ WriterHolds' /\ ScoreKept'
    BY DEF TotalsTypeOK, WriterHolds, ScoreKept
  <2>2. WriterFolds'
    BY DEF WriterFolds, Seen, Dropped
  <2>3. GraderHolds' /\ GraderLines'
    BY DEF GraderHolds, GraderLines, Touched, Dropped
  <2>4. GraderAlone' /\ GraderFolds'
    BY DEF GraderAlone, Regrading, GraderFolds, GraderView
  <2>5. AnsweredStaysFrozen' /\ TotalsFreshUnlessOverlapped'
    BY DEF AnsweredStaysFrozen, TotalsFreshUnlessOverlapped, Fresh
  <2> QED
    BY <2>1, <2>2, <2>3, <2>4, <2>5
<1> QED
  BY <1>1, <1>2, <1>3, <1>4 DEF TotalsNext

\* What a transaction has read under its locks is still true when it commits, for any
\* number of attempts, questions, writers and graders.
THEOREM ScoreInvariance == TotalsSpec => []ScoreInv
<1>1. TotalsInit => ScoreInv
  BY ScoreInvInit
<1>2. ScoreInv /\ [TotalsNext]_totalsVars => ScoreInv'
  BY ScoreInvStep
<1> QED
  BY <1>1, <1>2, PTL DEF TotalsSpec

\* Submits, finishes, session ends, rollbacks and lone regrades keep every stored triple
\* the fold of the lines and the frozen set beside it.
THEOREM TotalsStayFresh == TotalsSpec => []TotalsFreshUnlessOverlapped
<1>1. ScoreInv => TotalsFreshUnlessOverlapped
  BY DEF ScoreInv
<1> QED
  BY <1>1, ScoreInvariance, PTL

\* The prune of a finish never drops a question that was answered.
THEOREM AnsweredAlwaysFrozen == TotalsSpec => []AnsweredStaysFrozen
<1>1. ScoreInv => AnsweredStaysFrozen
  BY DEF ScoreInv
<1> QED
  BY <1>1, ScoreInvariance, PTL

\* Only commits write lines; a writer's leaves every scalar it overwrites its score, and
\* its attempt was open.
LEMMA LineWrites ==
    ASSUME ScoreInv, [TotalsNext]_totalsVars, NEW a \in Attempts, lines'[a] # lines[a]
    PROVE  \/ RegradeCommits /\ \A q \in Scorables : lines'[a][q] = None <=> lines[a][q] = None
           \/ /\ state[a] = "open"
              /\ \A q \in Scalars : lines[a][q] # None /\ lines'[a][q] # None =>
                    lines'[a][q].score = lines[a][q].score
<1>1. CASE lines' = lines
  BY <1>1
<1>2. ASSUME NEW w \in Writers, SubmitCommit(w)
      PROVE  /\ state[a] = "open"
             /\ \A q \in Scalars : lines[a][q] # None /\ lines'[a][q] # None =>
                   lines'[a][q].score = lines[a][q].score
  <2> DEFINE job == work[w]
  <2>1. /\ job.on \in Attempts /\ state[job.on] = "open"
        /\ job.at \in Scalars /\ lines[job.on][job.at] # None =>
              job.line.score = lines[job.on][job.at].score
    BY <1>2 DEF SubmitCommit, ScoreInv, WriterHolds, ScoreKept
  <2>2. a = job.on /\ lines'[a] = Seen(job)
    BY <1>2, <2>1 DEF SubmitCommit, ScoreInv, TotalsTypeOK
  <2>3. ASSUME NEW q \in Scalars, lines[a][q] # None, lines'[a][q] # None
        PROVE  lines'[a][q].score = lines[a][q].score
    <3>1. CASE q = job.at
      BY <2>1, <2>2, <2>3, <3>1, ViewAt DEF Scorables
    <3>2. CASE q # job.at /\ q \in Touched(job)
      BY <2>2, <2>3, <3>2, ViewAt DEF Scorables
    <3>3. CASE q \notin Touched(job)
      BY <2>2, <3>3, ViewAt DEF Scorables
    <3> QED
      BY <3>1, <3>2, <3>3
  <2> QED
    BY <2>1, <2>2, <2>3
<1>3. ASSUME NEW g \in Graders, GradeCommit(g)
      PROVE  RegradeCommits /\ \A q \in Scorables : lines'[a][q] = None <=> lines[a][q] = None
  <2>1. graderPc[g] = "next" /\ graderPc'[g] = "idle"
    BY <1>3 DEF GradeCommit, GraderIdle, ScoreInv, TotalsTypeOK
  <2>2. lines'[a] = GraderView(g, a)
    BY <1>3 DEF GradeCommit
  <2> QED
    BY <2>1, <2>2, GraderViewType DEF RegradeCommits, ScoreInv
<1>4. ASSUME NEW w \in Writers, Write(w), ~SubmitCommit(w) PROVE lines' = lines
  BY <1>4 DEF Write, SubmitLock, SubmitStore, SubmitFold, FinishLock, FinishFold, FinishCommit,
     WriterAbort, sheetVars
<1>5. ASSUME NEW g \in Graders, Regrade(g), ~GradeCommit(g) PROVE lines' = lines
  BY <1>5 DEF Regrade, GradeRead, GradeLine, GradeFold, GradeSet, GraderAbort, sheetVars
<1>6. ASSUME NEW b \in Attempts, SessionEnds(b) PROVE lines' = lines
  BY <1>6 DEF SessionEnds
<1>7. CASE UNCHANGED totalsVars
  BY <1>7 DEF totalsVars, sheetVars
<1> QED
  BY <1>1, <1>2, <1>3, <1>4, <1>5, <1>6, <1>7 DEF TotalsNext

\* A finished attempt's state and frozen set stay, and its triple moves by a regrade only.
LEMMA DoneWrites ==
    ASSUME ScoreInv, [TotalsNext]_totalsVars, NEW a \in Attempts, state[a] = "done"
    PROVE  /\ state'[a] = "done" /\ frozen'[a] = frozen[a]
           /\ stored'[a] # stored[a] => RegradeCommits
<1>1. ASSUME NEW w \in Writers, Write(w) PROVE
         state'[a] = "done" /\ frozen'[a] = frozen[a] /\ stored'[a] = stored[a]
  <2>1. writerPc[w] # "idle" => work[w].on # a
    BY DEF ScoreInv, WriterHolds
  <2>2. CASE SubmitCommit(w) \/ FinishCommit(w)
    BY <2>1, <2>2 DEF SubmitCommit, FinishCommit, ScoreInv, TotalsTypeOK
  <2>3. CASE UNCHANGED sheetVars
    BY <2>3 DEF sheetVars
  <2> QED
    BY <1>1, <2>2, <2>3 DEF Write, SubmitLock, SubmitStore, SubmitFold, FinishLock, FinishFold,
       WriterAbort
<1>2. ASSUME NEW g \in Graders, Regrade(g) PROVE
         state' = state /\ frozen' = frozen /\ (stored' # stored => RegradeCommits)
  <2>1. CASE GradeCommit(g)
    BY <2>1 DEF GradeCommit, GraderIdle, RegradeCommits, ScoreInv, TotalsTypeOK
  <2>2. CASE UNCHANGED sheetVars
    BY <2>2 DEF sheetVars
  <2> QED
    BY <1>2, <2>1, <2>2 DEF Regrade, GradeRead, GradeLine, GradeFold, GradeSet, GraderAbort
<1>3. ASSUME NEW b \in Attempts, SessionEnds(b) PROVE
         state'[a] = "done" /\ frozen'[a] = frozen[a] /\ stored'[a] = stored[a]
  BY <1>3 DEF SessionEnds, ScoreInv, TotalsTypeOK
<1>4. CASE UNCHANGED totalsVars
  BY <1>4 DEF totalsVars, sheetVars
<1> QED
  BY <1>1, <1>2, <1>3, <1>4 DEF TotalsNext

\* A finished attempt is fixed but for regrades, whatever was in flight when it finished.
THEOREM DoneStaysFixed == TotalsSpec => DoneIsFixed
<1>1. ASSUME ScoreInv, [TotalsNext]_totalsVars, NEW a \in Attempts, state[a] = "done"
      PROVE  /\ state'[a] = "done" /\ frozen'[a] = frozen[a]
             /\ \A q \in Scorables : (lines[a][q] = None) <=> (lines'[a][q] = None)
             /\ <<lines'[a], stored'[a]>> # <<lines[a], stored[a]>> => RegradeCommits
  BY <1>1, LineWrites, DoneWrites
<1>2. ScoreInv /\ [TotalsNext]_totalsVars =>
         [\A a \in Attempts : state[a] = "done" =>
             /\ state'[a] = "done" /\ frozen'[a] = frozen[a]
             /\ \A q \in Scorables : (lines[a][q] = None) <=> (lines'[a][q] = None)
             /\ <<lines'[a], stored'[a]>> # <<lines[a], stored[a]>> => RegradeCommits]_totalsVars
  BY <1>1
<1> QED
  BY <1>2, ScoreInvariance, PTL DEF TotalsSpec, DoneIsFixed

\* No submit changes the score of a scalar it overwrites, a regrade it raced included.
THEOREM ScalarScoresWrittenOnce == TotalsSpec => ScalarScoreWrittenOnce
<1>1. ScoreInv /\ [TotalsNext]_totalsVars =>
         [\A a \in Attempts, q \in Scalars :
             lines[a][q] # None /\ lines'[a][q] # None /\ lines'[a][q].score # lines[a][q].score
                 => RegradeCommits]_totalsVars
  BY LineWrites
<1> QED
  BY <1>1, ScoreInvariance, PTL DEF TotalsSpec, ScalarScoreWrittenOnce
=============================================================================
