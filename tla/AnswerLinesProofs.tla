--------------------------- MODULE AnswerLinesProofs --------------------------
(***************************************************************************)
(* What a submit does to the lines, for any questions, labels, triggers    *)
(* and number of requests.  The argument: the worker past its lock is the  *)
(* only one that may write, so what it found is still there; then every    *)
(* property is about one commit.                                           *)
(***************************************************************************)
EXTENDS AnswerLines, FiniteSetTheorems, TLAPS

-----------------------------------------------------------------------------
(* Sheets *)

\* A sequence of at most one element, and its replacement.
LEMMA ShortSeq ==
    ASSUME NEW S, NEW s \in Seq(S), Len(s) <= 1, s # <<>>
    PROVE  Len(s) = 1 /\ s[1] \in S
  OBVIOUS

LEMMA ReplaceOne ==
    ASSUME NEW S, NEW s \in Seq(S), Len(s) = 1, NEW x
    PROVE  [s EXCEPT ![1] = x] = <<x>>
  OBVIOUS

\* A new line is a line.
LEMMA NewScalarType ==
    ASSUME NEW q \in Questions, NEW draft \in Draft
    PROVE  NewScalar(q, draft) \in Scalar
<1>1. draft.value \in Values \cup {None} /\ draft.kind \in {"skip"} \cup ScalarKinds \cup SetKinds
  BY DEF Draft, ScalarKinds, SetKinds
<1>2. draft.value # None => draft.kind \in ScalarKinds
  BY AnswerAssumption DEF Draft
<1>3. Grade(q, draft) \in {0, 1}
  BY DEF Grade
<1> QED
  BY <1>1, <1>2, <1>3 DEF NewScalar, Scalar

\* What a commit stores under the answered question, case by case.
LEMMA StoredIs ==
    ASSUME TypeOK, WorkerHolds, OneScalarLine, NEW w \in Workers, pc[w] = "store"
    PROVE  LET job == work[w]
               old == lines[job.at]
               new == NewScalar(job.at, job.draft)
           IN /\ job \in Job /\ job.at \in Questions /\ job.draft \in Draft
              /\ old \in Sheet /\ new \in Scalar
              /\ \/ /\ IsSet(job.draft)
                    /\ Stored(job) = [labels |-> job.draft.chosen, scalars |-> <<>>]
                    /\ job.draft.chosen # {}
                 \/ /\ IsSet(job.draft)
                    /\ Stored(job) = [labels |-> {}, scalars |-> <<new>>]
                 \/ /\ ~IsSet(job.draft)
                    /\ job.overwrite
                    /\ Len(old.scalars) = 1
                    /\ old.scalars[1] \in Scalar
                    /\ Stored(job) = [labels |-> old.labels,
                                      scalars |-> <<Overwritten(job.at, old.scalars[1], job.draft)>>]
                 \/ /\ ~IsSet(job.draft)
                    /\ ~job.overwrite
                    /\ old.scalars = <<>>
                    /\ Stored(job) = [labels |-> old.labels, scalars |-> <<new>>]
<1> DEFINE job == work[w]
           old == lines[job.at]
           new == NewScalar(job.at, job.draft)
<1>1. job \in Job /\ job.at \in Questions /\ job.draft \in Draft
  BY DEF WorkerHolds, Job
<1>2. old \in Sheet /\ old.labels \in SUBSET Labels /\ old.scalars \in Seq(Scalar)
      /\ old = [labels |-> old.labels, scalars |-> old.scalars]
  BY <1>1 DEF TypeOK, Sheet
<1>3. new \in Scalar
  BY <1>1, NewScalarType
<1>4. Len(old.scalars) \in Nat /\ Len(old.scalars) <= 1
  BY <1>1, <1>2 DEF OneScalarLine
<1>5. job.overwrite <=> ~IsSet(job.draft) /\ old.scalars # <<>>
  BY DEF WorkerHolds
<1>6. CASE IsSet(job.draft) /\ job.draft.chosen # {}
  <2>1. Stored(job) = [labels |-> job.draft.chosen, scalars |-> <<>>]
    BY <1>6 DEF Stored
  <2> QED
    BY <1>1, <1>2, <1>3, <1>6, <2>1
<1>7. CASE IsSet(job.draft) /\ job.draft.chosen = {}
  <2>1. Stored(job) = [labels |-> {}, scalars |-> <<new>>]
    BY <1>7 DEF Stored
  <2> QED
    BY <1>1, <1>2, <1>3, <1>7, <2>1
<1>8. CASE ~IsSet(job.draft) /\ job.overwrite
  <2> DEFINE over == Overwritten(job.at, old.scalars[1], job.draft)
  <2>1. Len(old.scalars) = 1 /\ old.scalars[1] \in Scalar
    <3> HIDE DEF old
    <3> QED BY <1>2, <1>4, <1>5, <1>8, ShortSeq
  <2>2. Stored(job) = [old EXCEPT !.scalars = [old.scalars EXCEPT ![1] = over]]
    BY <1>8 DEF Stored
  <2>3. [old.scalars EXCEPT ![1] = over] = <<over>>
    <3> HIDE DEF over, old
    <3> QED BY <1>2, <2>1, ReplaceOne
  <2>4. Stored(job) = [labels |-> old.labels, scalars |-> <<over>>]
    BY <1>2, <2>2, <2>3
  <2> QED
    BY <1>1, <1>2, <1>3, <1>8, <2>1, <2>4
<1>9. CASE ~IsSet(job.draft) /\ ~job.overwrite
  <2>1. old.scalars = <<>>
    BY <1>5, <1>9
  <2>2. Stored(job) = [old EXCEPT !.scalars = Append(old.scalars, new)]
    BY <1>9 DEF Stored
  <2>3. Append(old.scalars, new) = <<new>>
    BY <2>1
  <2>4. Stored(job) = [labels |-> old.labels, scalars |-> <<new>>]
    BY <1>2, <2>2, <2>3
  <2> QED
    BY <1>1, <1>2, <1>3, <1>9, <2>1, <2>4
<1>10. \/ IsSet(job.draft) /\ job.draft.chosen # {}
       \/ IsSet(job.draft) /\ job.draft.chosen = {}
       \/ ~IsSet(job.draft) /\ job.overwrite
       \/ ~IsSet(job.draft) /\ ~job.overwrite
  OBVIOUS
<1> QED
  BY <1>6, <1>7, <1>8, <1>9, <1>10, Zenon

\* The same by field.
LEMMA StoredFields ==
    ASSUME TypeOK, WorkerHolds, OneScalarLine, NEW w \in Workers, pc[w] = "store",
           NEW q \in Questions, q = work[w].at, NEW draft, draft = work[w].draft
    PROVE  /\ \/ Stored(work[w]).labels = {}
              \/ Stored(work[w]).labels = lines[q].labels /\ ~IsSet(draft)
              \/ Stored(work[w]).labels = draft.chosen /\ IsSet(draft) /\ draft.chosen # {}
           /\ \/ Stored(work[w]).scalars = <<>> /\ Stored(work[w]).labels # {}
              \/ /\ Stored(work[w]).scalars = <<NewScalar(q, draft)>>
                 /\ IsSet(draft) \/ lines[q].scalars = <<>>
              \/ /\ Stored(work[w]).scalars = <<Overwritten(q, lines[q].scalars[1], draft)>>
                 /\ Len(lines[q].scalars) = 1
<1> DEFINE new == NewScalar(q, draft)
           over == Overwritten(q, lines[q].scalars[1], draft)
<1>1. \/ /\ IsSet(draft)
         /\ Stored(work[w]) = [labels |-> draft.chosen, scalars |-> <<>>]
         /\ draft.chosen # {}
      \/ /\ IsSet(draft)
         /\ Stored(work[w]) = [labels |-> {}, scalars |-> <<new>>]
      \/ /\ ~IsSet(draft)
         /\ Len(lines[q].scalars) = 1
         /\ Stored(work[w]) = [labels |-> lines[q].labels, scalars |-> <<over>>]
      \/ /\ ~IsSet(draft)
         /\ lines[q].scalars = <<>>
         /\ Stored(work[w]) = [labels |-> lines[q].labels, scalars |-> <<new>>]
  BY StoredIs, Zenon
<1> HIDE DEF new, over
<1> QED
  BY <1>1 DEF new, over

\* A sheet with no line is a sheet.
LEMMA BlankSheet == Blank \in Sheet /\ Blank.labels = {} /\ Blank.scalars = <<>> /\ Len(Blank.scalars) = 0
  BY DEF Blank, Sheet

\* A stored sheet is a sheet with at most one line without a label.
LEMMA StoredType ==
    ASSUME TypeOK, WorkerHolds, OneScalarLine, NEW w \in Workers, pc[w] = "store"
    PROVE  Stored(work[w]) \in Sheet /\ Len(Stored(work[w]).scalars) <= 1
<1> DEFINE job == work[w]
           old == lines[job.at]
           new == NewScalar(job.at, job.draft)
           over == Overwritten(job.at, old.scalars[1], job.draft)
<1>1. /\ job \in Job /\ job.at \in Questions /\ job.draft \in Draft
      /\ old \in Sheet /\ new \in Scalar
  BY StoredIs
<1>2. job.draft.chosen \subseteq Labels /\ old.labels \subseteq Labels
  BY <1>1 DEF Draft, Sheet
<1>3. old.scalars[1] \in Scalar => over \in Scalar
  <2> SUFFICES ASSUME old.scalars[1] \in Scalar PROVE over \in Scalar
    OBVIOUS
  <2>1. old.scalars[1].score \in {0, 1}
    BY DEF Scalar
  <2>2. (IF job.draft.value = None THEN "char" ELSE job.draft.kind) \in ScalarKinds
    <3>1. job.draft.value # None => job.draft.kind \in ScalarKinds
      BY <1>1 DEF Draft
    <3> QED BY <3>1 DEF ScalarKinds
  <2>3. over = [new EXCEPT !.score = old.scalars[1].score,
                           !.family = IF job.draft.value = None THEN "char" ELSE job.draft.kind]
    BY DEF Overwritten
  <2> HIDE DEF new, over, old, job
  <2> QED
    BY <1>1, <2>1, <2>2, <2>3 DEF Scalar
<1>4. \A S \in SUBSET Labels : /\ [labels |-> S, scalars |-> <<>>] \in Sheet
                               /\ [labels |-> S, scalars |-> <<new>>] \in Sheet
                               /\ over \in Scalar => [labels |-> S, scalars |-> <<over>>] \in Sheet
  <2> HIDE DEF new, over
  <2> QED BY <1>1 DEF Sheet
<1>5. \E S \in SUBSET Labels :
         \/ Stored(job) = [labels |-> S, scalars |-> <<>>]
         \/ Stored(job) = [labels |-> S, scalars |-> <<new>>]
         \/ over \in Scalar /\ Stored(job) = [labels |-> S, scalars |-> <<over>>]
  BY StoredIs, <1>2, <1>3
<1>6. PICK S \in SUBSET Labels :
         \/ Stored(job) = [labels |-> S, scalars |-> <<>>]
         \/ Stored(job) = [labels |-> S, scalars |-> <<new>>]
         \/ over \in Scalar /\ Stored(job) = [labels |-> S, scalars |-> <<over>>]
  BY <1>5
<1>7. Stored(job) \in Sheet
  <2> HIDE DEF job, new, over
  <2> QED BY <1>4, <1>6
<1>8. Len(Stored(job).scalars) <= 1
  <2>1. Stored(job).scalars = <<>> \/ Stored(job).scalars = <<new>>
        \/ Stored(job).scalars = <<over>>
    BY <1>6
  <2> HIDE DEF job, new, over
  <2>2. Len(<<>>) = 0 /\ Len(<<new>>) = 1 /\ Len(<<over>>) = 1
    OBVIOUS
  <2>3. 0 <= 1 /\ 1 <= 1
    OBVIOUS
  <2> QED BY <2>1, <2>2, <2>3, Zenon
<1> QED
  BY <1>7, <1>8

-----------------------------------------------------------------------------
(* The invariant *)

\* Only one worker is past its lock.
LEMMA Alone ==
    ASSUME WorkerHolds, NEW v \in Workers, pc[v] = "store"
    PROVE  lock # None /\ \A w \in Workers : pc[w] = "store" => w = v
  BY AnswerAssumption DEF WorkerHolds

\* What a commit makes of each question.
LEMMA CommitIs ==
    ASSUME AnswerInv, NEW w \in Workers, SubmitCommit(w)
    PROVE  /\ pc[w] = "store" /\ lock = w /\ work[w] \in Job /\ state # "done"
           /\ \A q \in Questions :
                 /\ lines'[q] \in Sheet /\ Len(lines'[q].scalars) <= 1
                 /\ \/ q \in Cleared(work[w]) /\ lines'[q] = Blank
                    \/ q \notin Cleared(work[w]) /\ q = work[w].at /\ lines'[q] = Stored(work[w])
                    \/ q \notin Cleared(work[w]) /\ q # work[w].at /\ lines'[q] = lines[q]
           /\ lines' \in [Questions -> Sheet]
<1>1. pc[w] = "store" /\ lock = w /\ work[w] \in Job /\ state # "done"
  BY DEF AnswerInv, WorkerHolds, SubmitCommit
<1>2. Stored(work[w]) \in Sheet /\ Len(Stored(work[w]).scalars) <= 1
  BY <1>1, StoredType DEF AnswerInv
<1>3. lines' = [q \in Questions |-> IF q \in Cleared(work[w]) THEN Blank
                                   ELSE IF q = work[w].at THEN Stored(work[w]) ELSE lines[q]]
  BY DEF SubmitCommit
<1>4. \A q \in Questions : lines[q] \in Sheet /\ Len(lines[q].scalars) <= 1
  BY DEF AnswerInv, TypeOK, OneScalarLine
<1> QED
  BY <1>1, <1>2, <1>3, <1>4, BlankSheet

\* A commit stores the question's own labels.
LEMMA CommitOwn ==
    ASSUME AnswerInv, NEW w \in Workers, SubmitCommit(w)
    PROVE  LabelsOwn'
<1>1. pc[w] = "store" /\ Normal(work[w].at, work[w].draft)
  BY DEF AnswerInv, WorkerHolds, SubmitCommit
<1>0. TypeOK /\ WorkerHolds /\ OneScalarLine
  BY DEF AnswerInv
<1>8. work[w].at \in Questions
  BY <1>0, <1>1 DEF WorkerHolds, Job
<1>2. Stored(work[w]).labels # {} =>
          \/ Stored(work[w]).labels = lines[work[w].at].labels
          \/ /\ IsSet(work[w].draft) /\ work[w].draft.chosen # {}
             /\ Stored(work[w]).labels = work[w].draft.chosen
  BY <1>0, <1>1, <1>8, StoredFields
<1> SUFFICES ASSUME NEW q \in Questions, lines'[q].labels # {}
             PROVE  /\ Kind[q] \in SetKinds
                    /\ lines'[q].labels \subseteq LabelsOf[q]
                    /\ q \in Single => Cardinality(lines'[q].labels) = 1
  BY DEF LabelsOwn
<1>3. CASE lines'[q].labels = lines[q].labels
  BY <1>3 DEF AnswerInv, LabelsOwn
<1>4. CASE q = work[w].at /\ IsSet(work[w].draft) /\ work[w].draft.chosen # {}
           /\ lines'[q].labels = work[w].draft.chosen
  BY <1>1, <1>4 DEF Normal, IsSet
<1>5. \/ lines'[q] = Blank
      \/ q = work[w].at /\ lines'[q] = Stored(work[w])
      \/ lines'[q] = lines[q]
  BY CommitIs
<1>6. CASE lines'[q] = Blank
  BY <1>6, BlankSheet
<1>7. CASE q = work[w].at /\ lines'[q] = Stored(work[w])
  <2>1. \/ lines'[q].labels = lines[q].labels
        \/ /\ IsSet(work[w].draft) /\ work[w].draft.chosen # {}
           /\ lines'[q].labels = work[w].draft.chosen
    BY <1>2, <1>7
  <2> QED
    BY <2>1, <1>3, <1>4, <1>7
<1> QED
  BY <1>3, <1>5, <1>6, <1>7

\* The invariant holds at the start.
LEMMA InvInit == Init => AnswerInv
<1> SUFFICES ASSUME Init PROVE AnswerInv
  OBVIOUS
<1>1. lines \in [Questions -> Sheet] /\ \A q \in Questions : lines[q] = Blank
  BY BlankSheet DEF Init
<1>2. TypeOK
  BY <1>1 DEF Init, TypeOK
<1>3. OneScalarLine
  BY <1>1, BlankSheet DEF OneScalarLine
<1>4. WorkerHolds
  BY DEF Init, WorkerHolds
<1>5. LabelsOwn
  BY <1>1, BlankSheet DEF LabelsOwn
<1> QED
  BY <1>2, <1>3, <1>4, <1>5 DEF AnswerInv

\* Every step keeps the invariant.
LEMMA InvStep == AnswerInv /\ [Next]_vars => AnswerInv'
<1> SUFFICES ASSUME AnswerInv, [Next]_vars PROVE AnswerInv'
  OBVIOUS
<1>1. ASSUME NEW w \in Workers, NEW q \in Questions, NEW draft \in Draft,
             NEW valid \in BOOLEAN, NEW window \in Windows,
             SubmitLock(w, q, draft, valid, window)
      PROVE  AnswerInv'
  <2>1. \A v \in Workers : pc[v] # "store"
    BY <1>1, Alone DEF AnswerInv, SubmitLock
  <2> DEFINE job == [at |-> q, draft |-> draft,
                     overwrite |-> ~IsSet(draft) /\ lines[q].scalars # <<>>]
  <2>2. job \in Job
    BY DEF Job
  <2>3. pc' = [pc EXCEPT ![w] = "store"] /\ work' = [work EXCEPT ![w] = job] /\ lock' = w
    BY <1>1 DEF SubmitLock
  <2>4. state # "done" /\ UNCHANGED <<state, lines, email, goBack, expired>>
    BY <1>1 DEF SubmitLock
  <2>5. TypeOK'
    BY <2>2, <2>3, <2>4 DEF AnswerInv, TypeOK
  <2>6. WorkerHolds'
    <3> SUFFICES ASSUME NEW v \in Workers, pc'[v] = "store"
                 PROVE  /\ lock' = v /\ work'[v] \in Job /\ state' # "done"
                        /\ MayOverwrite(work[v].at, work[v].draft)'
                        /\ Normal(work'[v].at, work'[v].draft)
                        /\ work'[v].overwrite <=> ~IsSet(work'[v].draft)
                                                  /\ lines'[work'[v].at].scalars # <<>>
      BY DEF WorkerHolds, IsSet, Normal
    <3>1. v = w
      BY <2>1, <2>3 DEF AnswerInv, TypeOK
    <3>2. work'[v] = job
      BY <3>1, <2>3 DEF AnswerInv, TypeOK
    <3>3. lines' = lines /\ state' # "done"
      BY <2>4
    <3>4. work'[v].overwrite = (~IsSet(draft) /\ lines[q].scalars # <<>>)
          /\ work'[v].draft = draft /\ work'[v].at = q
      BY <3>2
    <3>5. MayOverwrite(q, draft) /\ Normal(q, draft) /\ goBack' = goBack
      BY <1>1 DEF SubmitLock
    <3>6. MayOverwrite(work[v].at, work[v].draft)'
      BY <3>3, <3>4, <3>5 DEF MayOverwrite, IsSet
    <3> QED
      BY <3>1, <3>2, <3>3, <3>4, <3>5, <3>6, <2>2, <2>3
  <2>7. OneScalarLine' /\ LabelsOwn'
    BY <2>4 DEF AnswerInv, OneScalarLine, LabelsOwn
  <2> QED
    BY <2>5, <2>6, <2>7 DEF AnswerInv
<1>2. ASSUME NEW w \in Workers, SubmitCommit(w) PROVE AnswerInv'
  <2>1. lines' \in [Questions -> Sheet] /\ OneScalarLine'
    BY <1>2, CommitIs DEF OneScalarLine
  <2>2. work[w] \in Job /\ work[w].draft \in Draft
    BY <1>2, CommitIs DEF Job
  <2>3. email' \in Values \cup {None}
    BY <1>2, <2>2 DEF SubmitCommit, Stamped, Draft, AnswerInv, TypeOK
  <2>4. TypeOK'
    BY <1>2, <2>1, <2>3 DEF SubmitCommit, Begun, AnswerInv, TypeOK
  <2>5. \A v \in Workers : pc'[v] # "store"
    BY <1>2, Alone DEF SubmitCommit, AnswerInv, TypeOK
  <2> QED
    BY <1>2, <2>1, <2>4, <2>5, CommitOwn DEF AnswerInv, WorkerHolds
<1>3. ASSUME NEW w \in Workers, SubmitAbort(w) PROVE AnswerInv'
  <2>1. TypeOK' /\ OneScalarLine' /\ LabelsOwn'
    BY <1>3 DEF SubmitAbort, AnswerInv, TypeOK, OneScalarLine, LabelsOwn
  <2>2. \A v \in Workers : pc'[v] # "store"
    BY <1>3, Alone DEF SubmitAbort, AnswerInv, TypeOK
  <2> QED
    BY <2>1, <2>2 DEF AnswerInv, WorkerHolds
<1>4. ASSUME (\E q \in Questions, window \in Windows : RefuseLate(q, window)) \/ Begin \/ Finish
      PROVE  AnswerInv'
  <2>1. lock = None /\ UNCHANGED <<lines, email, goBack, expired, lock, pc, work>>
        /\ state' \in {"new", "in_progress", "done"}
    BY <1>4 DEF RefuseLate, Begin, Finish, Begun, AnswerInv, TypeOK
  <2>2. \A v \in Workers : pc[v] # "store"
    BY <2>1, Alone DEF AnswerInv
  <2> QED
    BY <2>1, <2>2 DEF AnswerInv, TypeOK, WorkerHolds, OneScalarLine, LabelsOwn
<1>5. CASE Expire
  BY <1>5 DEF Expire, AnswerInv, TypeOK, WorkerHolds, OneScalarLine, LabelsOwn,
                MayOverwrite, Normal, IsSet
<1>6. CASE UNCHANGED vars
  BY <1>6 DEF vars, AnswerInv, TypeOK, WorkerHolds, OneScalarLine, LabelsOwn,
                MayOverwrite, Normal, IsSet
<1>7. \A q \in Questions : DraftsOn(q) \subseteq Draft
  BY DEF DraftsOn
<1> QED
  BY <1>1, <1>2, <1>3, <1>4, <1>5, <1>6, <1>7 DEF Next, Submit

\* The types, the row lock's holder, and one line without a label per question, always.
THEOREM AnswerInvariance == Spec => []AnswerInv
  BY InvInit, InvStep, PTL DEF Spec

\* "Two identical submits cannot both insert": at most one line without a label.
THEOREM OneScalarLineHolds == Spec => []OneScalarLine
<1>1. AnswerInv => OneScalarLine
  BY DEF AnswerInv
<1> QED
  BY <1>1, AnswerInvariance, PTL

-----------------------------------------------------------------------------
(* Begun, and the stamp *)

\* A step that is not a commit leaves lines and stamp alone.
LEMMA OnlyCommitsWrite ==
    ASSUME [Next]_vars, ~\E w \in Workers : SubmitCommit(w)
    PROVE  UNCHANGED <<lines, email, goBack>>
<1>1. ASSUME NEW w \in Workers, Submit(w) PROVE UNCHANGED <<lines, email, goBack>>
  <2>1. ASSUME NEW q, NEW draft, NEW valid, NEW window, SubmitLock(w, q, draft, valid, window)
        PROVE  UNCHANGED <<lines, email, goBack>>
    BY <2>1 DEF SubmitLock
  <2>2. SubmitAbort(w) => UNCHANGED <<lines, email, goBack>>
    BY DEF SubmitAbort
  <2> QED
    BY <1>1, <2>1, <2>2, Zenon DEF Submit
<1>2. ASSUME NEW q, NEW window, RefuseLate(q, window) PROVE UNCHANGED <<lines, email, goBack>>
  BY <1>2 DEF RefuseLate
<1>3. CASE Begin \/ Finish \/ Expire \/ UNCHANGED vars
  BY <1>3 DEF Begin, Finish, Expire, vars
<1> QED
  BY <1>1, <1>2, <1>3, Zenon DEF Next

\* An answered attempt has begun: the lazy begin is committed with the lines.
THEOREM AnsweredHasBegunHolds == Spec => []AnsweredHasBegun
<1>1. Init => AnsweredHasBegun
  BY DEF Init, AnsweredHasBegun
<1>2. AnswerInv /\ AnsweredHasBegun /\ [Next]_vars => AnsweredHasBegun'
  <2> SUFFICES ASSUME AnswerInv, AnsweredHasBegun, [Next]_vars PROVE AnsweredHasBegun'
    OBVIOUS
  <2>1. state # "new" => state' # "new"
    <3>1. CASE \E w \in Workers : Submit(w)
      <4>1. PICK w \in Workers : Submit(w)
        BY <3>1
      <4>2. ASSUME NEW q, NEW draft, NEW valid, NEW window, SubmitLock(w, q, draft, valid, window)
            PROVE  state' = state
        BY <4>2 DEF SubmitLock
      <4>3. SubmitCommit(w) => state' = Begun
        BY DEF SubmitCommit
      <4>4. SubmitAbort(w) => state' = state
        BY DEF SubmitAbort
      <4> QED BY <4>1, <4>2, <4>3, <4>4, Zenon DEF Submit, Begun
    <3>2. CASE \E q \in Questions, window \in Windows : RefuseLate(q, window)
      BY <3>2 DEF RefuseLate, Begun
    <3>3. CASE Begin \/ Finish \/ Expire \/ UNCHANGED vars
      BY <3>3 DEF Begin, Finish, Expire, vars
    <3> QED
      BY <3>1, <3>2, <3>3 DEF Next
  <2>2. CASE \E w \in Workers : SubmitCommit(w)
    BY <2>2 DEF SubmitCommit, Begun, AnsweredHasBegun
  <2>3. CASE ~\E w \in Workers : SubmitCommit(w)
    BY <2>1, <2>3, OnlyCommitsWrite DEF AnsweredHasBegun
  <2> QED
    BY <2>2, <2>3
<1> QED
  BY <1>1, <1>2, AnswerInvariance, PTL DEF Spec

\* The scalar a commit leaves under a question is its new one, or has the type of
\* the draft and keeps the score of the line it overwrites.
LEMMA CommitScalar ==
    ASSUME AnswerInv, NEW w \in Workers, SubmitCommit(w), NEW q \in Questions,
           NEW i \in DOMAIN lines'[q].scalars
    PROVE  LET x == lines'[q].scalars[i]
               draft == work[w].draft
           IN \/ q # work[w].at /\ lines'[q] = lines[q]
              \/ /\ q = work[w].at
                 /\ draft.value = None => x.skipped
                 /\ draft.value # None => x.family = draft.kind
                 /\ x.value = draft.value
                 /\ \/ x.score = Grade(q, draft) /\ (IsSet(draft) \/ lines[q].scalars = <<>>)
                    \/ Len(lines[q].scalars) = 1 /\ x.score = lines[q].scalars[1].score
<1> DEFINE draft == work[w].draft
           new == NewScalar(q, draft)
           over == Overwritten(q, lines[q].scalars[1], draft)
<1>1. pc[w] = "store" /\ TypeOK /\ WorkerHolds /\ OneScalarLine
  BY DEF AnswerInv, SubmitCommit
<1>2. CASE q # work[w].at
  <2>1. lines'[q] # Blank
    BY BlankSheet
  <2> QED
    BY <1>2, <2>1, CommitIs
<1>3. CASE q = work[w].at
  <2>1. lines'[q] = Stored(work[w])
    BY <1>3, CommitIs, BlankSheet
  <2>2. \/ lines'[q].scalars = <<new>> /\ (IsSet(draft) \/ lines[q].scalars = <<>>)
        \/ lines'[q].scalars = <<over>> /\ Len(lines[q].scalars) = 1
    <3>1. lines'[q].scalars # <<>>
      OBVIOUS
    <3>2. \/ Stored(work[w]).scalars = <<>>
          \/ /\ Stored(work[w]).scalars = <<new>>
             /\ IsSet(draft) \/ lines[q].scalars = <<>>
          \/ /\ Stored(work[w]).scalars = <<over>>
             /\ Len(lines[q].scalars) = 1
      BY <1>1, <1>3, StoredFields, Zenon
    <3> HIDE DEF new, over, draft
    <3> QED
      BY <2>1, <3>1, <3>2
  <2>3. /\ draft.value = None => new.skipped
        /\ draft.value # None => new.family = draft.kind
        /\ new.value = draft.value
        /\ new.score = Grade(q, draft)
    BY DEF NewScalar
  <2>4. /\ over.skipped = new.skipped
        /\ draft.value # None => over.family = draft.kind
        /\ over.value = new.value
        /\ over.score = lines[q].scalars[1].score
    BY DEF Overwritten, NewScalar
  <2>5. \/ lines'[q].scalars[i] = new /\ (IsSet(draft) \/ lines[q].scalars = <<>>)
        \/ lines'[q].scalars[i] = over /\ Len(lines[q].scalars) = 1
    BY <2>2
  <2> QED
    BY <1>3, <2>3, <2>4, <2>5
<1> QED
  BY <1>2, <1>3

\* A char answer stored on the e-mail question is what the e-mail column holds.
THEOREM StampAlwaysAgrees == Spec => []StampAgrees
<1>1. Init => StampAgrees
  BY BlankSheet DEF Init, StampAgrees
<1>2. AnswerInv /\ StampAgrees /\ [Next]_vars => StampAgrees'
  <2> SUFFICES ASSUME AnswerInv, StampAgrees, [Next]_vars PROVE StampAgrees'
    OBVIOUS
  <2>1. ASSUME NEW w \in Workers, SubmitCommit(w) PROVE StampAgrees'
    <3> SUFFICES ASSUME NEW q \in Questions, q = EmailQuestion,
                        NEW i \in DOMAIN lines'[q].scalars,
                        lines'[q].scalars[i].family = "char", ~lines'[q].scalars[i].skipped
                 PROVE  email' = lines'[q].scalars[i].value
      BY DEF StampAgrees
    <3>1. email' = IF work[w].at = EmailQuestion /\ work[w].draft.kind = "char"
                   THEN work[w].draft.value ELSE email
      BY <2>1 DEF SubmitCommit, Stamped
    <3>2. CASE q # work[w].at /\ lines'[q] = lines[q]
      BY <3>1, <3>2 DEF StampAgrees
    <3>3. CASE /\ q = work[w].at
               /\ work[w].draft.value = None => lines'[q].scalars[i].skipped
               /\ work[w].draft.value # None => lines'[q].scalars[i].family = work[w].draft.kind
               /\ lines'[q].scalars[i].value = work[w].draft.value
      <4>1. work[w].draft.value # None /\ work[w].draft.kind = "char"
        BY <3>3
      <4> QED
        BY <3>1, <3>3, <4>1
    <3> QED
      BY <2>1, <3>2, <3>3, CommitScalar
  <2>2. CASE ~\E w \in Workers : SubmitCommit(w)
    BY <2>2, OnlyCommitsWrite DEF StampAgrees
  <2> QED
    BY <2>1, <2>2
<1> QED
  BY <1>1, <1>2, AnswerInvariance, PTL DEF Spec

-----------------------------------------------------------------------------
(* What a commit may do *)

\* While a worker is past its lock, it is the one whose commit changes lines.
LEMMA WriterIs ==
    ASSUME AnswerInv, [Next]_vars, NEW w \in Workers, pc[w] = "store", lines' # lines
    PROVE  SubmitCommit(w)
<1>1. PICK v \in Workers : SubmitCommit(v)
  BY OnlyCommitsWrite
<1>2. pc[v] = "store"
  BY <1>1 DEF SubmitCommit
<1> QED
  BY <1>1, <1>2, Alone DEF AnswerInv

\* Without roaming an answer stays, but for the first answer to a question that
\* triggers it.
THEOREM KeptWithoutGoBackHolds == Spec => KeptWithoutGoBack
<1> DEFINE Keeps == ~goBack => \A q \in Questions \ {EmailQuestion} :
           \/ /\ lines[q].labels \subseteq lines'[q].labels
              /\ \A i \in DOMAIN lines[q].scalars :
                     i \in DOMAIN lines'[q].scalars /\ lines'[q].scalars[i] = lines[q].scalars[i]
           \/ \E p \in Questions : /\ Triggers[q] \cap LabelsOf[p] # {}
                                   /\ lines[p] = Blank
                                   /\ lines'[p] # Blank
<1>1. AnswerInv /\ [Next]_vars => [Keeps]_vars
  <2> SUFFICES ASSUME AnswerInv, [Next]_vars, ~goBack, NEW q \in Questions \ {EmailQuestion}
               PROVE  \/ /\ lines[q].labels \subseteq lines'[q].labels
                         /\ \A i \in DOMAIN lines[q].scalars :
                                /\ i \in DOMAIN lines'[q].scalars
                                /\ lines'[q].scalars[i] = lines[q].scalars[i]
                      \/ \E p \in Questions : /\ Triggers[q] \cap LabelsOf[p] # {}
                                              /\ lines[p] = Blank
                                              /\ lines'[p] # Blank
    OBVIOUS
  <2>1. CASE lines'[q] = lines[q]
    BY <2>1
  <2>2. ASSUME NEW w \in Workers, SubmitCommit(w) PROVE
             \/ lines'[q] = lines[q]
             \/ /\ lines[q].labels \subseteq lines'[q].labels
                /\ lines[q].scalars = <<>>
             \/ \E p \in Questions : /\ Triggers[q] \cap LabelsOf[p] # {}
                                     /\ lines[p] = Blank
                                     /\ lines'[p] # Blank
    <3> DEFINE p == work[w].at
               draft == work[w].draft
    <3>1. p \in Questions /\ pc[w] = "store" /\ TypeOK /\ WorkerHolds /\ OneScalarLine
      BY <2>2, CommitIs DEF Job, AnswerInv
    <3>2. IF IsSet(draft) THEN lines[p] = Blank ELSE lines[p].scalars = <<>>
      BY <3>1 DEF WorkerHolds, MayOverwrite
    <3>3. CASE q \notin Cleared(work[w]) /\ q = p
      <4>1. lines'[q] = Stored(work[w])
        BY <2>2, <3>3, CommitIs
      <4>2. lines[q].scalars = <<>>
        BY <3>2, <3>3, BlankSheet
      <4>3. IsSet(draft) => lines[q].labels = {}
        BY <3>2, <3>3, BlankSheet
      <4>4. ~IsSet(draft) => Stored(work[w]).labels = lines[q].labels
        <5>1. \/ IsSet(draft)
              \/ Stored(work[w]) = [labels |-> lines[p].labels,
                     scalars |-> <<Overwritten(p, lines[p].scalars[1], draft)>>]
              \/ Stored(work[w]) = [labels |-> lines[p].labels, scalars |-> <<NewScalar(p, draft)>>]
          BY <3>1, StoredIs, Zenon
        <5> QED
          BY <3>3, <5>1
      <4> QED
        BY <4>1, <4>2, <4>3, <4>4
    <3>4. CASE q \in Cleared(work[w])
      <4>1. draft.kind = "choice" /\ Triggers[q] \cap LabelsOf[p] # {}
        BY <3>4 DEF Cleared
      <4>2. lines[p] = Blank
        BY <3>2, <4>1 DEF IsSet, SetKinds
      <4>3. p \notin Cleared(work[w])
        BY <3>1, AnswerAssumption DEF Cleared
      <4>4. lines'[p] = Stored(work[w])
        BY <2>2, <3>1, <4>3, CommitIs
      <4>5. Stored(work[w]).labels # {} \/ Stored(work[w]).scalars # <<>>
        <5>1. \/ Stored(work[w]).labels # {}
              \/ Stored(work[w]).scalars = <<NewScalar(p, draft)>>
              \/ Stored(work[w]).scalars = <<Overwritten(p, lines[p].scalars[1], draft)>>
          BY <3>1, StoredFields, Zenon
        <5>2. \A x : <<x>> # <<>>
          OBVIOUS
        <5> QED
          BY <5>1, <5>2, Zenon
      <4> QED
        BY <3>1, <4>1, <4>2, <4>4, <4>5, BlankSheet
    <3> QED
      BY <2>2, <3>3, <3>4, CommitIs
  <2>3. CASE \E w \in Workers : SubmitCommit(w)
    BY <2>1, <2>2, <2>3
  <2>4. CASE ~\E w \in Workers : SubmitCommit(w)
    BY <2>1, <2>4, OnlyCommitsWrite
  <2> QED
    BY <2>3, <2>4
<1> QED
  BY <1>1, AnswerInvariance, PTL DEF Spec, KeptWithoutGoBack

\* A score appears only where there was no answer.
THEOREM NoSecondGradeHolds == Spec => NoSecondGrade
<1> DEFINE Once == \A q \in Questions :
                       Earned(lines'[q]) => Earned(lines[q]) \/ lines[q] = Blank
<1>1. AnswerInv /\ [Next]_vars => [Once]_vars
  <2> SUFFICES ASSUME AnswerInv, [Next]_vars, NEW q \in Questions, Earned(lines'[q])
               PROVE  Earned(lines[q]) \/ lines[q] = Blank
    OBVIOUS
  <2>1. ASSUME NEW w \in Workers, SubmitCommit(w) PROVE Earned(lines[q]) \/ lines[q] = Blank
    <3> DEFINE draft == work[w].draft
    <3>1. PICK i \in DOMAIN lines'[q].scalars : lines'[q].scalars[i].score = 1
      BY DEF Earned
    <3>2. CASE lines'[q] = lines[q]
      BY <3>2
    <3>3. CASE Len(lines[q].scalars) = 1 /\ lines'[q].scalars[i].score = lines[q].scalars[1].score
      <4>1. lines[q].scalars \in Seq(Scalar)
        BY DEF AnswerInv, TypeOK, Sheet
      <4>2. 1 \in DOMAIN lines[q].scalars
        BY <3>3, <4>1
      <4> QED
        BY <3>1, <3>3, <4>2 DEF Earned
    <3>4. CASE lines'[q].scalars[i].score = Grade(q, draft) /\ (IsSet(draft) \/ lines[q].scalars = <<>>)
      <4>1. draft.kind = "typed" /\ Kind[q] = "typed"
        BY <3>1, <3>4 DEF Grade
      <4>2. ~IsSet(draft) /\ Kind[q] \notin SetKinds
        BY <4>1 DEF IsSet, SetKinds
      <4>3. lines[q].scalars = <<>> /\ lines[q].labels = {}
        BY <3>4, <4>2 DEF AnswerInv, LabelsOwn
      <4>4. lines[q] \in Sheet
        BY DEF AnswerInv, TypeOK
      <4> QED
        BY <4>3, <4>4 DEF Sheet, Blank
    <3> QED
      BY <2>1, <3>2, <3>3, <3>4, CommitScalar
  <2>2. CASE ~\E w \in Workers : SubmitCommit(w)
    BY <2>2, OnlyCommitsWrite
  <2> QED
    BY <2>1, <2>2
<1> QED
  BY <1>1, AnswerInvariance, PTL DEF Spec, NoSecondGrade

\* A choice clears the conditionals none of whose triggers on that question it chose.
THEOREM UnchosenAlwaysCleared == Spec => UnchosenCleared
<1> DEFINE Clears == \A w \in Workers :
           pc[w] = "store" /\ lines' # lines /\ work[w].draft.kind = "choice" =>
               \A c \in Questions :
                   LET onIt == Triggers[c] \cap LabelsOf[work[w].at] IN
                   onIt # {} /\ onIt \cap work[w].draft.chosen = {} => lines'[c] = Blank
<1>1. AnswerInv /\ [Next]_vars => [Clears]_vars
  <2> SUFFICES ASSUME AnswerInv, [Next]_vars, NEW w \in Workers, pc[w] = "store", lines' # lines,
                      work[w].draft.kind = "choice", NEW c \in Questions,
                      Triggers[c] \cap LabelsOf[work[w].at] # {},
                      Triggers[c] \cap LabelsOf[work[w].at] \cap work[w].draft.chosen = {}
               PROVE  lines'[c] = Blank
    OBVIOUS
  <2>1. SubmitCommit(w)
    BY WriterIs
  <2>2. c \in Cleared(work[w])
    BY DEF Cleared
  <2> QED
    BY <2>1, <2>2, CommitIs
<1> QED
  BY <1>1, AnswerInvariance, PTL DEF Spec, UnchosenCleared
==============================================================================
