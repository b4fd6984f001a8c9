------------------------- MODULE SurveySessionProofs ------------------------
(***************************************************************************)
(* The live session, for any number of hosts, clients, attempts, questions *)
(* and arms.  Everything rests on SessionInv: a worker past its lock holds *)
(* the row it is about to write, so what it read there still stands.       *)
(***************************************************************************)
EXTENDS SurveySession, WellFoundedInduction, TLAPS

-----------------------------------------------------------------------------
(* The cursor walk *)

\* A nonempty set of naturals has a least element.
LEMMA LeastExists ==
    ASSUME NEW S, S \subseteq Nat, S # {}
    PROVE  \E q \in S : \A r \in S : q <= r
<1>1. IsWellFoundedOn(OpToRel(<, Nat), Nat)
  BY NatLessThanWellFounded
<1>2. PICK q \in S : \A r \in S : ~ (<<r, q>> \in OpToRel(<, Nat))
  BY <1>1, WFMin
<1>3. \A r \in S : ~ (r < q)
  BY <1>2 DEF OpToRel
<1> QED
  BY <1>3

\* Where there is a next question, the walk lands on a live one past the cursor.
LEMMA NextAfterSound ==
    ASSUME TypeOK, NEW p \in Positions, HasNext(p)
    PROVE  NextAfter(p) \in questions /\ NextAfter(p) \in (p + 1)..NQ
<1>0. /\ NQ \in Nat /\ p \in Nat
      /\ \A q \in questions : q \in Nat /\ q <= NQ
  <2>1. questions \subseteq 1..NQ
    BY DEF TypeOK
  <2> QED
    BY <2>1, WorkersAssumption DEF Positions
<1>1. Following(p) \subseteq Nat /\ Following(p) # {}
  BY <1>0 DEF HasNext, Following
<1>2. \E q \in Following(p) : \A r \in Following(p) : q <= r
  BY <1>1, LeastExists
<1>3. NextAfter(p) \in Following(p)
  BY <1>2 DEF NextAfter
<1> QED
  BY <1>0, <1>3 DEF Following

-----------------------------------------------------------------------------
(* Types *)

\* Rows built from a row are rows.
LEMMA RowUpdates ==
    ASSUME NEW r \in Row, NEW p \in Positions, NEW q \in Positions, NEW k \in Codes
    PROVE  /\ [r EXCEPT !.state = "none", !.clock = p] \in Row
           /\ [r EXCEPT !.state = "ready", !.code = k, !.cursor = p, !.clock = q] \in Row
           /\ [r EXCEPT !.state = "in_progress", !.opened = k] \in Row
           /\ [r EXCEPT !.cursor = p, !.clock = q] \in Row
           /\ [r EXCEPT !.code = k] \in Row
           /\ \A cert \in BOOLEAN : [r EXCEPT !.certification = cert] \in Row
  BY DEF Row, SessionStates

LEMMA RowTypes ==
    ASSUME TypeOK
    PROVE  /\ BlankRow \in Row
           /\ armed < MaxSessions => ArmedRow \in Row /\ armed + 1 \in Codes
           /\ EndedRow \in Row
           /\ \A n \in Positions : [Opened(survey) EXCEPT !.cursor = n, !.clock = n] \in Row
           /\ \A cert \in BOOLEAN : [survey EXCEPT !.certification = cert] \in Row
<1>0. survey \in Row /\ armed \in Codes /\ 0 \in Positions /\ 0 \in Codes
  BY WorkersAssumption DEF TypeOK, Positions, Codes
<1>1. BlankRow \in Row
  BY <1>0 DEF BlankRow, Row, SessionStates
<1>2. armed < MaxSessions => armed + 1 \in Codes
  BY <1>0, WorkersAssumption DEF Codes
<1>3. armed < MaxSessions => ArmedRow \in Row
  BY <1>0, <1>2, RowUpdates DEF ArmedRow
<1>4. EndedRow \in Row
  BY <1>0, RowUpdates DEF EndedRow
<1>5. Opened(survey) \in Row
  <2>1. (IF survey.opened = 0 THEN armed ELSE survey.opened) \in Codes
    BY <1>0 DEF Row
  <2> QED
    BY <1>0, <2>1, RowUpdates DEF Opened
<1>6. \A n \in Positions : [Opened(survey) EXCEPT !.cursor = n, !.clock = n] \in Row
  BY <1>0, <1>5, RowUpdates
<1> QED
  BY <1>0, <1>1, <1>2, <1>3, <1>4, <1>6, RowUpdates

\* A saturating count stays one.
LEMMA BumpType == \A n \in Counts : Bump(n) \in Counts
  BY DEF Counts, Bump

\* Host verbs keep the variables in their types.
LEMMA HostTypeStep ==
    ASSUME TypeOK, NEW h \in Hosts, HostVerb(h) \/ SettingsEdit(h)
    PROVE  TypeOK'
<1> USE DEF TypeOK, rowVars, hostVars, clientVars, factVars
<1>r. /\ BlankRow \in Row
      /\ armed < MaxSessions => ArmedRow \in Row /\ armed + 1 \in Codes
      /\ EndedRow \in Row
      /\ \A n \in Positions : [Opened(survey) EXCEPT !.cursor = n, !.clock = n] \in Row
      /\ \A cert \in BOOLEAN : [survey EXCEPT !.certification = cert] \in Row
  BY RowTypes
<1>k. survey.code \in Codes /\ survey.cursor \in Positions /\ 0 \in Positions
  BY WorkersAssumption DEF Row, Positions
<1>1. CASE ArmCheck(h)
  BY <1>1 DEF ArmCheck, HostSteps
<1>2. CASE ArmCommit(h)
  <2>1. survey' \in Row /\ armed' \in Codes /\ ttlOver' \in BOOLEAN
    BY <1>2, <1>r DEF ArmCommit
  <2> QED
    BY <1>2, <2>1, <1>r, <1>k DEF ArmCommit, HostIdle, HostSteps
<1>3. CASE AdvanceLock(h)
  <2>1. NextAfter(survey.cursor) \in Positions
    BY <1>3, <1>k, NextAfterSound, WorkersAssumption DEF AdvanceLock, Positions
  <2>2. hostRow' \in [Hosts -> Row]
    BY <1>3, <1>k DEF AdvanceLock, Row
  <2>3. started' \in [Codes -> Counts]
    BY <1>3, BumpType DEF AdvanceLock
  <2> QED
    BY <1>3, <2>1, <2>2, <2>3 DEF AdvanceLock, HostSteps
<1>4. CASE AdvanceCommit(h)
  <2>1. survey' \in Row
    BY <1>4, <1>r DEF AdvanceCommit
  <2> QED
    BY <1>4, <2>1 DEF AdvanceCommit, HostSteps
<1>5. CASE Push(h)
  <2>1. hostRow[h].code \in Codes /\ hostNext[h] \in Positions
    BY DEF Row
  <2>2. advanced' \in [Codes \X Positions -> Counts]
    BY <1>5, <2>1, BumpType DEF Push
  <2>3. screen' \in Codes \X (0..NQ + 1)
    BY <1>5, <2>1, WorkersAssumption DEF Push, Positions
  <2> QED
    BY <1>5, <2>2, <2>3, <1>r, <1>k DEF Push, HostIdle, HostSteps
<1>6. CASE EndLock(h)
  <2>1. hostRow' \in [Hosts -> Row]
    BY <1>6, <1>k DEF EndLock, Row
  <2> QED
    BY <1>6, <2>1 DEF EndLock, HostSteps
<1>7. CASE EndScan(h)
  BY <1>7 DEF EndScan, HostSteps
<1>8. ASSUME NEW a \in Attempts, EndTake(h, a) PROVE TypeOK'
  BY <1>8 DEF EndTake, Workers
<1>9. CASE EndCommit(h)
  BY <1>9, <1>r DEF EndCommit, HostSteps, InputStates, Unlocked
<1>10. CASE PushEnd(h)
  <2>1. screen' \in Codes \X (0..NQ + 1)
    <3>1. hostRow[h].code \in Codes
      BY DEF Row
    <3> QED
      BY <1>10, <3>1, WorkersAssumption DEF PushEnd
  <2> QED
    BY <1>10, <2>1, <1>r, <1>k DEF PushEnd, HostIdle, HostSteps
<1>11. CASE HostAbort(h)
  BY <1>11, <1>r, <1>k DEF HostAbort, HostIdle, HostSteps, Unlocked
<1>12. CASE EditRead(h)
  <2>1. hostRow' \in [Hosts -> Row]
    BY <1>12, <1>r DEF EditRead
  <2> QED
    BY <1>12, <2>1 DEF EditRead, HostSteps
<1>13. CASE EditCommit(h)
  BY <1>13, <1>r, <1>k DEF EditCommit, HostIdle, HostSteps
<1> QED
  BY <1>1, <1>2, <1>3, <1>4, <1>5, <1>6, <1>7, <1>8, <1>9, <1>10, <1>11, <1>12, <1>13
  DEF HostVerb, SettingsEdit

\* Client verbs do too: whoever reads an attempt's state is at work on one.
LEMMA ClientTypeStep ==
    ASSUME TypeOK, ClientsPlaced, NEW c \in Clients, ClientVerb(c)
    PROVE  TypeOK'
<1> USE DEF TypeOK, rowVars, hostVars, clientVars, factVars
<1>1. ASSUME NEW a \in Attempts, JoinRead(c, a) PROVE TypeOK'
  BY <1>1 DEF JoinRead, ClientSteps, Row
<1>2. CASE JoinCommit(c)
  BY <1>2 DEF JoinCommit, ClientIdle, ClientSteps, SessionStates, InputStates
<1>3. ASSUME NEW a \in Attempts, NEW verb \in {"begin", "submit", "finish"}, Verify(c, a, verb)
      PROVE TypeOK'
  BY <1>3 DEF Verify, ClientSteps
<1>4. CASE Begin(c)
  BY <1>4 DEF Begin, ClientIdle, ClientSteps, SessionStates, InputStates
<1>5. CASE SubmitLock(c)
  BY <1>5 DEF SubmitLock, ClientIdle, ClientSteps, SessionStates, Workers
<1>6. CASE SubmitCommit(c)
  BY <1>6 DEF SubmitCommit, ClientIdle, ClientSteps, SessionStates, InputStates, Unlocked
<1>7. CASE FinishRead(c)
  BY <1>7 DEF FinishRead, ClientSteps, ClientsPlaced
<1>8. CASE FinishCommit(c)
  BY <1>8 DEF FinishCommit, ClientIdle, ClientSteps, SessionStates, InputStates
<1>9. CASE ClientAbort(c)
  BY <1>9 DEF ClientAbort, ClientIdle, ClientSteps, SessionStates, Unlocked
<1> QED
  BY <1>1, <1>2, <1>3, <1>4, <1>5, <1>6, <1>7, <1>8, <1>9 DEF ClientVerb

\* So do all steps.
LEMMA TypeStep == TypeOK /\ ClientsPlaced /\ [Next]_vars => TypeOK'
<1> SUFFICES ASSUME TypeOK, ClientsPlaced, [Next]_vars PROVE TypeOK'
  OBVIOUS
<1>1. CASE TtlRunsOut
  BY <1>1 DEF TypeOK, TtlRunsOut, hostVars, clientVars, factVars
<1>2. ASSUME NEW q \in 1..NQ, DeleteQuestion(q) PROVE TypeOK'
  BY <1>2 DEF TypeOK, DeleteQuestion, hostVars, clientVars, factVars
<1>3. CASE UNCHANGED vars
  BY <1>3 DEF TypeOK, vars, rowVars, hostVars, clientVars, factVars
<1>4. ASSUME NEW h \in Hosts, NEW c \in Clients, DeadlockDetected(h, c) PROVE TypeOK'
  BY <1>4, HostTypeStep, ClientTypeStep DEF DeadlockDetected, HostVerb, ClientVerb
<1> QED
  BY <1>1, <1>2, <1>3, <1>4, HostTypeStep, ClientTypeStep DEF Next, VerbNext

-----------------------------------------------------------------------------
(* The inductive invariant *)

\* The initial state satisfies it.
LEMMA SessionInvInit == Init => SessionInv
<1> SUFFICES ASSUME Init PROVE SessionInv
  OBVIOUS
<1> USE DEF Init
<1>1. TypeOK
  <2>1. 0 \in Positions /\ 0 \in Codes /\ 0 \in Counts /\ 0 \in 0..NQ + 1
    BY WorkersAssumption DEF Positions, Codes, Counts
  <2>2. BlankRow \in Row
    BY <2>1 DEF BlankRow, Row, SessionStates
  <2>3. survey \in Row /\ hostRow \in [Hosts -> Row]
    BY <2>2
  <2>4. /\ advanced \in [Codes \X Positions -> Counts]
        /\ started \in [Codes -> Counts]
        /\ screen \in Codes \X (0..NQ + 1)
    BY <2>1
  <2>5. /\ armed \in Codes /\ ttlOver \in BOOLEAN /\ questions \in SUBSET (1..NQ)
        /\ hostNext \in [Hosts -> Positions] /\ hostPc \in [Hosts -> HostSteps]
    BY <2>1 DEF HostSteps
  <2> QED
    BY <2>3, <2>4, <2>5 DEF TypeOK, SessionStates, InputStates, ClientSteps
<1> USE DEF BlankRow
<1>2. SurveyHeld /\ RowsSound /\ CertificationDisjoint
  BY DEF SurveyHeld, RowsSound, RowSound, SessionColumnsAgree, CertificationDisjoint,
         SessionCertificationDisjoint
<1>3. ClientsPlaced /\ InputHeld /\ DueCovered
  BY WorkersAssumption DEF ClientsPlaced, InputHeld, DueCovered
<1> QED
  BY <1>1, <1>2, <1>3 DEF SessionInv

\* A step that leaves the survey row and its lock alone, and moves no host onto a
\* step that relies on them.
LEMMA SurveyFrame ==
    ASSUME SessionInv,
           UNCHANGED <<survey, armed, surveyLock>>,
           \A h \in Hosts :
               hostPc'[h] \in {"advance", "end", "sweep", "edit"} =>
                   /\ hostPc'[h] = hostPc[h] \/ (hostPc[h] = "end" /\ hostPc'[h] = "sweep")
                   /\ hostNext'[h] = hostNext[h]
                   /\ hostRow'[h] = hostRow[h]
    PROVE  SurveyHeld' /\ RowsSound' /\ CertificationDisjoint'
<1>1. SurveyHeld'
  BY DEF SessionInv, SurveyHeld
<1>2. RowsSound'
  BY DEF SessionInv, RowsSound, RowSound, SessionColumnsAgree
<1>3. CertificationDisjoint'
  BY DEF SessionInv, CertificationDisjoint, SessionCertificationDisjoint
<1> QED
  BY <1>1, <1>2, <1>3

\* A step that leaves the attempts, their locks and the clients alone.
LEMMA InputFrame ==
    ASSUME SessionInv, UNCHANGED <<input, inputLock, clientPc, clientOn>>
    PROVE  ClientsPlaced' /\ InputHeld'
  BY DEF SessionInv, ClientsPlaced, InputHeld

\* A step that leaves the end in progress alone.
LEMMA SweepFrame ==
    ASSUME SessionInv,
           UNCHANGED <<sweep, due>>,
           \A h \in Hosts : hostPc'[h] \in {"end", "sweep"} => hostPc'[h] = hostPc[h],
           \A a \in Attempts :
               /\ input[a] \in {"in_progress", "done"} =>
                      input'[a] = input[a] \/ input'[a] = "done"
               /\ \A h \in Hosts : inputLock[a] = h => inputLock'[a] = h
    PROVE  DueCovered'
<1>1. due \subseteq Attempts
  BY DEF SessionInv, TypeOK
<1> QED
  BY <1>1 DEF SessionInv, DueCovered

\* Only the host that holds the survey row runs an end.
LEMMA OneHolder ==
    ASSUME SessionInv, NEW h \in Hosts, hostPc[h] \in {"advance", "end", "sweep"}
    PROVE  /\ surveyLock = h
           /\ surveyLock # NoOne
           /\ \A g \in Hosts : hostPc[g] \in {"advance", "end", "sweep"} => g = h
  BY WorkersAssumption DEF SessionInv, SurveyHeld

\* While nobody holds the row, nobody relies on it.
LEMMA NoHolder ==
    ASSUME SessionInv, FreeSurvey
    PROVE  \A g \in Hosts : hostPc[g] \notin {"advance", "end", "sweep"}
  BY WorkersAssumption DEF SessionInv, SurveyHeld, FreeSurvey

\* Host verbs keep the invariant.
LEMMA HostInvStep ==
    ASSUME SessionInv, NEW h \in Hosts, HostVerb(h) \/ SettingsEdit(h)
    PROVE  SessionInv'
<1>0. TypeOK /\ TypeOK'
  BY HostTypeStep DEF SessionInv
<1>pc. hostPc \in [Hosts -> HostSteps] /\ hostRow \in [Hosts -> Row] /\ hostNext \in [Hosts -> Positions]
  BY <1>0 DEF TypeOK
<1> USE DEF rowVars, hostVars, clientVars, factVars
<1>1. CASE ArmCheck(h)
  <2>1. SurveyHeld' /\ RowsSound' /\ CertificationDisjoint'
    BY <1>1, <1>pc, SurveyFrame DEF ArmCheck
  <2>2. ClientsPlaced' /\ InputHeld'
    BY <1>1, InputFrame DEF ArmCheck
  <2>3. DueCovered'
    BY <1>1, <1>pc, SweepFrame DEF ArmCheck
  <2> QED
    BY <1>0, <2>1, <2>2, <2>3 DEF SessionInv
<1>2. CASE ArmCommit(h)
  <2>0. hostPc' = [hostPc EXCEPT ![h] = "idle"]
    BY <1>2 DEF ArmCommit, HostIdle
  <2>1. \A g \in Hosts : hostPc'[g] \notin {"advance", "end", "sweep"}
    BY <1>2, <1>pc, <2>0, NoHolder DEF ArmCommit
  <2>2. SurveyHeld'
    BY <2>1 DEF SurveyHeld
  <2>3. RowsSound' /\ CertificationDisjoint'
    <3>1. \A g \in Hosts : hostPc'[g] = "edit" => hostPc[g] = "edit" /\ hostRow'[g] = hostRow[g]
      BY <1>2, <1>pc, <2>0 DEF ArmCommit, HostIdle
    <3>2. CASE UNCHANGED <<survey, armed>>
      BY <3>1, <3>2 DEF SessionInv, RowsSound, RowSound, SessionColumnsAgree,
                        CertificationDisjoint, SessionCertificationDisjoint
    <3>3. CASE /\ survey' = ArmedRow
               /\ SessionCertificationDisjoint(ArmedRow)
               /\ armed' = armed + 1
      <4>1. armed \in Nat
        BY <1>0, WorkersAssumption DEF TypeOK, Codes
      <4>2. survey'.state = "ready" /\ survey'.cursor = 0 /\ survey'.clock = 0
            /\ survey'.code = armed + 1
        BY <1>0, <3>3 DEF TypeOK, Row, ArmedRow
      <4>3. RowSound(survey)'
        BY <3>3, <4>1, <4>2 DEF RowSound, SessionColumnsAgree
      <4>4. \A g \in Hosts : hostPc'[g] = "edit" => RowSound(hostRow[g])'
        BY <3>1, <3>3, <4>1 DEF SessionInv, RowsSound, RowSound, SessionColumnsAgree
      <4>5. CertificationDisjoint'
        BY <3>3 DEF CertificationDisjoint, SessionCertificationDisjoint
      <4> QED
        BY <4>3, <4>4, <4>5 DEF RowsSound
    <3> QED
      BY <1>2, <3>2, <3>3 DEF ArmCommit
  <2>4. ClientsPlaced' /\ InputHeld'
    BY <1>2, InputFrame DEF ArmCommit
  <2>5. DueCovered'
    BY <2>1 DEF DueCovered
  <2> QED
    BY <1>0, <2>2, <2>3, <2>4, <2>5 DEF SessionInv
<1>3. CASE AdvanceLock(h)
  <2>0. /\ UNCHANGED <<survey, armed, input, inputLock, clientPc, clientOn, sweep, due>>
        /\ surveyLock' = h
        /\ hostPc' = [hostPc EXCEPT ![h] = "advance"]
        /\ hostNext' = [hostNext EXCEPT ![h] = NextAfter(survey.cursor)]
        /\ survey.state # "none"
    BY <1>3 DEF AdvanceLock
  <2>1. SurveyHeld'
    <3>1. NextAfter(survey.cursor) \in (survey.cursor + 1)..NQ
      BY <1>0, <1>3, NextAfterSound DEF AdvanceLock, TypeOK, Row
    <3> QED
      BY <1>3, <1>pc, <2>0, <3>1, NoHolder DEF AdvanceLock, SurveyHeld
  <2>2. RowsSound' /\ CertificationDisjoint'
    <3>1. \A g \in Hosts : hostPc'[g] = "edit" => hostPc[g] = "edit" /\ hostRow'[g] = hostRow[g]
      BY <1>3, <1>pc, <2>0 DEF AdvanceLock
    <3> QED
      BY <2>0, <3>1 DEF SessionInv, RowsSound, RowSound, SessionColumnsAgree,
                        CertificationDisjoint, SessionCertificationDisjoint
  <2>3. ClientsPlaced' /\ InputHeld'
    BY <2>0, InputFrame
  <2>4. DueCovered'
    BY <1>pc, <2>0, SweepFrame
  <2> QED
    BY <1>0, <2>1, <2>2, <2>3, <2>4 DEF SessionInv
<1>4. CASE AdvanceCommit(h)
  <2>0. /\ UNCHANGED <<armed, input, inputLock, hostRow, hostNext, clientPc, clientOn, sweep, due>>
        /\ survey' = [Opened(survey) EXCEPT !.cursor = hostNext[h], !.clock = hostNext[h]]
        /\ hostPc' = [hostPc EXCEPT ![h] = "push"]
        /\ hostPc[h] = "advance"
    BY <1>4 DEF AdvanceCommit
  <2>1. \A g \in Hosts : hostPc'[g] \notin {"advance", "end", "sweep"}
    BY <1>pc, <2>0, OneHolder
  <2>2. SurveyHeld'
    BY <2>1 DEF SurveyHeld
  <2>3. RowsSound' /\ CertificationDisjoint'
    <3>1. \A g \in Hosts : hostPc'[g] = "edit" => hostPc[g] = "edit"
      BY <1>pc, <2>0
    <3>2. survey.state \in {"ready", "in_progress"} /\ hostNext[h] # 0
      BY <1>0, <2>0, WorkersAssumption
      DEF SessionInv, SurveyHeld, TypeOK, Row, SessionStates, Positions
    <3>3. RowSound(survey) /\ armed # 0
      BY <3>2 DEF SessionInv, RowsSound, RowSound
    <3>4. /\ survey'.state = "in_progress"
          /\ survey'.cursor = hostNext[h] /\ survey'.clock = hostNext[h]
          /\ survey'.code = survey.code
          /\ survey'.opened = IF survey.state = "ready" /\ survey.opened = 0
                              THEN armed ELSE survey.opened
          /\ survey'.certification = survey.certification
      BY <1>0, <2>0, <3>2 DEF TypeOK, Row, Opened, CanTransition
    <3>5. RowSound(survey)'
      BY <2>0, <3>2, <3>3, <3>4 DEF RowSound, SessionColumnsAgree
    <3>6. \A g \in Hosts : hostPc'[g] = "edit" => RowSound(hostRow[g])'
      BY <2>0, <3>1 DEF SessionInv, RowsSound, RowSound, SessionColumnsAgree
    <3>7. CertificationDisjoint'
      BY <3>2, <3>4 DEF SessionInv, CertificationDisjoint, SessionCertificationDisjoint
    <3> QED
      BY <3>5, <3>6, <3>7 DEF RowsSound
  <2>4. ClientsPlaced' /\ InputHeld'
    BY <2>0, InputFrame
  <2>5. DueCovered'
    BY <2>1 DEF DueCovered
  <2> QED
    BY <1>0, <2>2, <2>3, <2>4, <2>5 DEF SessionInv
<1>5. CASE Push(h) \/ PushEnd(h)
  <2>0. /\ UNCHANGED <<survey, armed, surveyLock, input, inputLock, clientPc, clientOn, sweep, due>>
        /\ hostPc' = [hostPc EXCEPT ![h] = "idle"]
        /\ hostRow' = [hostRow EXCEPT ![h] = BlankRow]
        /\ hostNext' = [hostNext EXCEPT ![h] = 0]
    BY <1>5 DEF Push, PushEnd, HostIdle
  <2>1. SurveyHeld' /\ RowsSound' /\ CertificationDisjoint'
    BY <1>pc, <2>0, SurveyFrame
  <2>2. ClientsPlaced' /\ InputHeld' /\ DueCovered'
    BY <1>pc, <2>0, InputFrame, SweepFrame
  <2> QED
    BY <1>0, <2>1, <2>2 DEF SessionInv
<1>6. CASE EndLock(h)
  <2>0. /\ UNCHANGED <<survey, armed, input, inputLock, clientPc, clientOn, hostNext, sweep>>
        /\ surveyLock' = h
        /\ hostPc' = [hostPc EXCEPT ![h] = "end"]
        /\ due' = {a \in Attempts : input[a] = "in_progress"}
        /\ survey.state # "none"
    BY <1>6 DEF EndLock, CanTransition
  <2>f. \A g \in Hosts : hostPc[g] \notin {"advance", "end", "sweep"}
    BY <1>6, NoHolder DEF EndLock
  <2>1. SurveyHeld'
    BY <1>pc, <2>0, <2>f DEF SurveyHeld
  <2>2. RowsSound' /\ CertificationDisjoint'
    <3>1. \A g \in Hosts : hostPc'[g] = "edit" => hostPc[g] = "edit" /\ hostRow'[g] = hostRow[g]
      BY <1>6, <1>pc, <2>0 DEF EndLock
    <3> QED
      BY <2>0, <3>1 DEF SessionInv, RowsSound, RowSound, SessionColumnsAgree,
                        CertificationDisjoint, SessionCertificationDisjoint
  <2>3. ClientsPlaced' /\ InputHeld'
    BY <2>0, InputFrame
  <2>4. DueCovered'
    BY <1>pc, <2>0, <2>f DEF DueCovered
  <2> QED
    BY <1>0, <2>1, <2>2, <2>3, <2>4 DEF SessionInv
<1>7. CASE EndScan(h)
  <2>0. /\ UNCHANGED <<survey, armed, surveyLock, input, inputLock, hostRow, hostNext, clientPc,
                       clientOn, due>>
        /\ hostPc[h] = "end"
        /\ hostPc' = [hostPc EXCEPT ![h] = "sweep"]
        /\ sweep' = {a \in Attempts : input[a] = "in_progress"}
    BY <1>7 DEF EndScan
  <2>1. SurveyHeld' /\ RowsSound' /\ CertificationDisjoint'
    BY <1>pc, <2>0, SurveyFrame
  <2>2. ClientsPlaced' /\ InputHeld'
    BY <2>0, InputFrame
  <2>3. DueCovered'
    <3>1. \A g \in Hosts : hostPc'[g] \in {"end", "sweep"} => g = h
      BY <1>pc, <2>0, OneHolder
    <3>2. \A a \in due : a \in Attempts /\ input[a] \in {"in_progress", "done"}
      BY <1>0, <2>0 DEF SessionInv, DueCovered, TypeOK
    <3> QED
      BY <1>pc, <2>0, <3>1, <3>2 DEF DueCovered
  <2> QED
    BY <1>0, <2>1, <2>2, <2>3 DEF SessionInv
<1>8. ASSUME NEW a \in Attempts, EndTake(h, a) PROVE SessionInv'
  <2>0. /\ UNCHANGED <<survey, armed, surveyLock, input, hostPc, hostRow, hostNext, clientPc,
                       clientOn, due>>
        /\ hostPc[h] = "sweep" /\ inputLock[a] = NoOne
        /\ sweep' = sweep \ {a}
        /\ inputLock' = IF input[a] = "in_progress" THEN [inputLock EXCEPT ![a] = h] ELSE inputLock
    BY <1>8 DEF EndTake, FreeInput
  <2>1. SurveyHeld' /\ RowsSound' /\ CertificationDisjoint'
    BY <2>0, SurveyFrame
  <2>2. ClientsPlaced'
    BY <2>0 DEF SessionInv, ClientsPlaced
  <2>3. InputHeld'
    <3>1. \A c \in Clients : clientPc[c] \in {"insert", "settle"} => clientOn[c] # a
      BY <2>0, WorkersAssumption DEF SessionInv, InputHeld
    <3>2. \A b \in Attempts : b # a => inputLock'[b] = inputLock[b]
      BY <1>0, <2>0 DEF TypeOK
    <3>3. inputLock'[a] = inputLock[a] \/ (inputLock'[a] = h /\ input[a] = "in_progress")
      BY <1>0, <2>0 DEF TypeOK
    <3>4. \A c \in Clients : clientPc[c] \in {"insert", "settle"} => clientOn[c] \in Attempts
      BY DEF SessionInv, ClientsPlaced
    <3> QED
      BY <2>0, <3>1, <3>2, <3>3, <3>4 DEF SessionInv, InputHeld
  <2>4. DueCovered'
    <3>1. \A g \in Hosts : hostPc[g] \in {"end", "sweep"} => g = h
      BY <2>0, OneHolder
    <3>2. \A b \in Attempts \ {a} : inputLock'[b] = inputLock[b]
      BY <1>0, <2>0 DEF TypeOK
    <3>3. input[a] = "in_progress" => inputLock'[a] = h
      BY <1>0, <2>0 DEF TypeOK
    <3>4. due \subseteq Attempts
      BY <1>0 DEF TypeOK
    <3> QED
      BY <2>0, <3>1, <3>2, <3>3, <3>4 DEF SessionInv, DueCovered
  <2> QED
    BY <1>0, <2>1, <2>2, <2>3, <2>4 DEF SessionInv
<1>9. CASE EndCommit(h)
  <2>0. /\ UNCHANGED <<armed, hostRow, hostNext, sweep, clientPc, clientOn>>
        /\ hostPc[h] = "sweep"
        /\ hostPc' = [hostPc EXCEPT ![h] = "closing"]
        /\ survey' = EndedRow
        /\ input' = [a \in Attempts |-> IF inputLock[a] = h THEN "done" ELSE input[a]]
        /\ inputLock' = [a \in Attempts |-> IF inputLock[a] = h THEN NoOne ELSE inputLock[a]]
    BY <1>9 DEF EndCommit, Unlocked
  <2>1. \A g \in Hosts : hostPc'[g] \notin {"advance", "end", "sweep"}
    BY <1>pc, <2>0, OneHolder
  <2>2. SurveyHeld' /\ DueCovered'
    BY <2>1 DEF SurveyHeld, DueCovered
  <2>3. RowsSound' /\ CertificationDisjoint'
    <3>1. \A g \in Hosts : hostPc'[g] = "edit" => hostPc[g] = "edit"
      BY <1>pc, <2>0
    <3>2. survey'.state = "none" /\ survey'.clock = 0
      BY <1>0, <2>0 DEF TypeOK, Row, EndedRow
    <3>3. RowSound(survey)' /\ CertificationDisjoint'
      BY <3>2 DEF RowSound, SessionColumnsAgree, CertificationDisjoint, SessionCertificationDisjoint
    <3>4. \A g \in Hosts : hostPc'[g] = "edit" => RowSound(hostRow[g])'
      BY <2>0, <3>1 DEF SessionInv, RowsSound, RowSound, SessionColumnsAgree
    <3> QED
      BY <3>3, <3>4 DEF RowsSound
  <2>4. ClientsPlaced'
    <3>1. \A c \in Clients : clientPc[c] = "join" => clientOn[c] \in Attempts
      BY DEF SessionInv, ClientsPlaced
    <3>2. \A a \in Attempts : input[a] = "absent" => input'[a] = "absent"
      BY <2>0 DEF SessionInv, InputHeld
    <3> QED
      BY <2>0, <3>1, <3>2 DEF SessionInv, ClientsPlaced
  <2>5. InputHeld'
    <3>1. \A c \in Clients : clientPc[c] \in {"insert", "settle"} =>
             clientOn[c] \in Attempts /\ inputLock[clientOn[c]] = c /\ c # h
      BY WorkersAssumption DEF SessionInv, ClientsPlaced, InputHeld
    <3>2. \A g \in Hosts, a \in Attempts : inputLock'[a] = g => inputLock[a] = g /\ inputLock[a] # h
      BY <2>0, WorkersAssumption
    <3> QED
      BY <2>0, <3>1, <3>2 DEF SessionInv, InputHeld
  <2> QED
    BY <1>0, <2>2, <2>3, <2>4, <2>5 DEF SessionInv
<1>10. CASE HostAbort(h)
  <2>0. /\ UNCHANGED <<survey, armed, input, clientPc, clientOn>>
        /\ hostPc' = [hostPc EXCEPT ![h] = "idle"]
        /\ hostRow' = [hostRow EXCEPT ![h] = BlankRow]
        /\ hostNext' = [hostNext EXCEPT ![h] = 0]
        /\ surveyLock' = IF surveyLock = h THEN NoOne ELSE surveyLock
        /\ inputLock' = [a \in Attempts |-> IF inputLock[a] = h THEN NoOne ELSE inputLock[a]]
        /\ sweep' = IF hostPc[h] = "sweep" THEN {} ELSE sweep
        /\ due' = IF hostPc[h] \in {"end", "sweep"} THEN {} ELSE due
    BY <1>10 DEF HostAbort, HostIdle, Unlocked
  <2>1. SurveyHeld'
    BY <1>pc, <2>0 DEF SessionInv, SurveyHeld
  <2>2. RowsSound' /\ CertificationDisjoint'
    BY <1>pc, <2>0 DEF SessionInv, RowsSound, RowSound, SessionColumnsAgree,
                       CertificationDisjoint, SessionCertificationDisjoint
  <2>3. ClientsPlaced'
    BY <2>0 DEF SessionInv, ClientsPlaced
  <2>4. InputHeld'
    <3>1. \A c \in Clients : clientPc[c] \in {"insert", "settle"} =>
             clientOn[c] \in Attempts /\ inputLock[clientOn[c]] = c /\ c # h
      BY WorkersAssumption DEF SessionInv, ClientsPlaced, InputHeld
    <3>2. \A g \in Hosts, a \in Attempts : inputLock'[a] = g => inputLock[a] = g
      BY <2>0, WorkersAssumption
    <3> QED
      BY <2>0, <3>1, <3>2 DEF SessionInv, InputHeld
  <2>5. DueCovered'
    <3>1. CASE hostPc[h] \in {"end", "sweep"}
      BY <2>0, <3>1 DEF DueCovered
    <3>2. CASE hostPc[h] \notin {"end", "sweep"}
      <4>1. \A g \in Hosts : hostPc'[g] \in {"end", "sweep"} => g # h /\ hostPc'[g] = hostPc[g]
        BY <1>pc, <2>0
      <4>2. \A g \in Hosts, a \in Attempts : g # h /\ inputLock[a] = g => inputLock'[a] = g
        BY <2>0
      <4>3. due \subseteq Attempts
        BY <1>0 DEF TypeOK
      <4> QED
        BY <2>0, <3>2, <4>1, <4>2, <4>3 DEF SessionInv, DueCovered
    <3> QED
      BY <3>1, <3>2
  <2> QED
    BY <1>0, <2>1, <2>2, <2>3, <2>4, <2>5 DEF SessionInv
<1>11. CASE EditRead(h)
  <2>0. /\ UNCHANGED <<survey, armed, surveyLock, input, inputLock, hostNext, clientPc, clientOn,
                       sweep, due>>
        /\ hostPc' = [hostPc EXCEPT ![h] = "edit"]
    BY <1>11 DEF EditRead
  <2>1. PICK cert \in BOOLEAN :
          hostRow' = [hostRow EXCEPT ![h] = [survey EXCEPT !.certification = cert]]
    BY <1>11 DEF EditRead
  <2>2. SurveyHeld' /\ CertificationDisjoint'
    BY <1>pc, <2>0 DEF SessionInv, SurveyHeld, CertificationDisjoint, SessionCertificationDisjoint
  <2>3. RowsSound'
    <3>1. RowSound([survey EXCEPT !.certification = cert])
      BY <1>0 DEF SessionInv, RowsSound, RowSound, SessionColumnsAgree, TypeOK, Row
    <3>2. RowSound(survey)'
      BY <2>0 DEF SessionInv, RowsSound, RowSound, SessionColumnsAgree
    <3>3. hostRow'[h] = [survey EXCEPT !.certification = cert]
      BY <1>pc, <2>1
    <3>4. \A g \in Hosts \ {h} : hostPc'[g] = hostPc[g] /\ hostRow'[g] = hostRow[g]
      BY <1>pc, <2>0, <2>1
    <3>5. RowSound(hostRow[h])'
      BY <2>0, <3>1, <3>3 DEF RowSound, SessionColumnsAgree
    <3>6. \A g \in Hosts \ {h} : hostPc'[g] = "edit" => RowSound(hostRow[g])'
      BY <2>0, <3>4 DEF SessionInv, RowsSound, RowSound, SessionColumnsAgree
    <3> QED
      BY <3>2, <3>5, <3>6 DEF RowsSound
  <2>4. ClientsPlaced' /\ InputHeld' /\ DueCovered'
    BY <1>pc, <2>0, InputFrame, SweepFrame
  <2> QED
    BY <1>0, <2>2, <2>3, <2>4 DEF SessionInv
<1>12. CASE EditCommit(h)
  <2>0. /\ UNCHANGED <<armed, surveyLock, input, inputLock, clientPc, clientOn, sweep, due>>
        /\ hostPc[h] = "edit"
        /\ hostPc' = [hostPc EXCEPT ![h] = "idle"]
        /\ hostRow' = [hostRow EXCEPT ![h] = BlankRow]
        /\ survey' = IF EditAllowed(hostRow[h]) THEN hostRow[h] ELSE survey
    BY <1>12 DEF EditCommit, HostIdle
  <2>1. \A g \in Hosts : hostPc'[g] \notin {"advance", "end", "sweep"}
    BY <1>12, <1>pc, <2>0, NoHolder DEF EditCommit
  <2>2. SurveyHeld' /\ DueCovered'
    BY <2>1 DEF SurveyHeld, DueCovered
  <2>3. RowsSound' /\ CertificationDisjoint'
    <3>1. RowSound(survey) /\ RowSound(hostRow[h])
      BY <2>0 DEF SessionInv, RowsSound
    <3>2. RowSound(survey)'
      BY <2>0, <3>1 DEF RowSound, SessionColumnsAgree
    <3>3. \A g \in Hosts : hostPc'[g] = "edit" => hostPc[g] = "edit" /\ hostRow'[g] = hostRow[g]
      BY <1>pc, <2>0
    <3>4. \A g \in Hosts : hostPc'[g] = "edit" => RowSound(hostRow[g])'
      BY <2>0, <3>3 DEF SessionInv, RowsSound, RowSound, SessionColumnsAgree
    <3>5. CertificationDisjoint'
      BY <2>0 DEF SessionInv, CertificationDisjoint, SessionCertificationDisjoint, EditAllowed
    <3> QED
      BY <3>2, <3>4, <3>5 DEF RowsSound
  <2>4. ClientsPlaced' /\ InputHeld'
    BY <2>0, InputFrame
  <2> QED
    BY <1>0, <2>2, <2>3, <2>4 DEF SessionInv
<1> QED
  BY <1>1, <1>2, <1>3, <1>4, <1>5, <1>6, <1>7, <1>8, <1>9, <1>10, <1>11, <1>12
  DEF HostVerb, SettingsEdit

\* A client's commit that gives back the rows it held.
LEMMA UnlockedByClient ==
    ASSUME SessionInv, NEW c \in Clients, inputLock' = Unlocked(c)
    PROVE  /\ \A h \in Hosts, a \in Attempts : inputLock'[a] = h <=> inputLock[a] = h
           /\ \A d \in Clients, a \in Attempts : d # c /\ inputLock[a] = d => inputLock'[a] = d
  BY WorkersAssumption DEF Unlocked

\* What is known of the row a client is at work on.
LEMMA WorkingOn ==
    ASSUME SessionInv
    PROVE  /\ \A c \in Clients : clientPc[c] # "idle" => clientOn[c] \in Attempts
           /\ \A c \in Clients : clientPc[c] = "join" => input[clientOn[c]] = "absent"
           /\ \A c \in Clients : clientPc[c] \notin {"idle", "join"} => input[clientOn[c]] # "absent"
           /\ \A c, d \in Clients : clientPc[c] = "join" /\ clientOn[d] = clientOn[c] => d = c
           /\ \A c \in Clients : clientPc[c] \in {"insert", "settle"} =>
                  /\ inputLock[clientOn[c]] = c
                  /\ input[clientOn[c]] \in {"new", "in_progress"}
           /\ \A h \in Hosts, a \in Attempts : inputLock[a] = h => input[a] = "in_progress"
           /\ \A h \in Hosts : h # NoOne /\ h \notin Clients
           /\ \A c \in Clients : c # NoOne
           /\ NoOne \notin Attempts
  BY WorkersAssumption DEF SessionInv, ClientsPlaced, InputHeld

\* Client verbs keep the invariant.
LEMMA ClientInvStep ==
    ASSUME SessionInv, NEW c \in Clients, ClientVerb(c)
    PROVE  SessionInv'
<1>0. TypeOK /\ TypeOK'
  BY ClientTypeStep DEF SessionInv
<1>t. /\ input \in [Attempts -> InputStates]
      /\ inputLock \in [Attempts -> Workers \cup {NoOne}]
      /\ clientPc \in [Clients -> ClientSteps]
      /\ clientOn \in [Clients -> Attempts \cup {NoOne}]
  BY <1>0 DEF TypeOK
<1> USE DEF rowVars, hostVars, clientVars, factVars
<1>1. UNCHANGED <<survey, armed, surveyLock, hostPc, hostRow, hostNext, sweep, due>>
  BY DEF ClientVerb, JoinRead, JoinCommit, Verify, Begin, SubmitLock, SubmitCommit, FinishRead,
         FinishCommit, ClientAbort
<1>2. SurveyHeld' /\ RowsSound' /\ CertificationDisjoint'
  BY <1>1, SurveyFrame
<1>3. ASSUME NEW a \in Attempts, JoinRead(c, a) PROVE ClientsPlaced' /\ InputHeld' /\ DueCovered'
  <2>0. /\ UNCHANGED <<input, inputLock>>
        /\ clientPc[c] = "idle" /\ input[a] = "absent"
        /\ \A d \in Clients : clientOn[d] # a
        /\ clientPc' = [clientPc EXCEPT ![c] = "join"]
        /\ clientOn' = [clientOn EXCEPT ![c] = a]
    BY <1>3 DEF JoinRead
  <2>1. ClientsPlaced'
    BY <1>t, <2>0, WorkingOn DEF ClientsPlaced
  <2>2. InputHeld'
    BY <1>t, <2>0, WorkingOn DEF InputHeld
  <2>3. DueCovered'
    BY <1>1, <2>0, SweepFrame
  <2> QED
    BY <2>1, <2>2, <2>3
<1>4. ASSUME JoinCommit(c) PROVE ClientsPlaced' /\ InputHeld' /\ DueCovered'
  <2> DEFINE a == clientOn[c]
  <2>0. /\ UNCHANGED inputLock
        /\ clientPc[c] = "join"
        /\ clientPc' = [clientPc EXCEPT ![c] = "idle"]
        /\ clientOn' = [clientOn EXCEPT ![c] = NoOne]
        /\ \E st \in {"in_progress", "new"} : input' = [input EXCEPT ![a] = st]
    BY <1>4 DEF JoinCommit, ClientIdle
  <2>1. a \in Attempts /\ input[a] = "absent" /\ \A d \in Clients : clientOn[d] = a => d = c
    BY <2>0, WorkingOn
  <2>2. \A b \in Attempts : b # a => input'[b] = input[b]
    BY <1>t, <2>0
  <2>3. ClientsPlaced'
    BY <1>t, <2>0, <2>1, <2>2, WorkingOn DEF ClientsPlaced
  <2>4. InputHeld'
    BY <1>t, <1>1, <2>0, <2>1, <2>2, WorkingOn DEF InputHeld
  <2>5. DueCovered'
    BY <1>1, <2>0, <2>1, <2>2, SweepFrame
  <2> QED
    BY <2>3, <2>4, <2>5
<1>5. ASSUME NEW a \in Attempts, NEW verb \in {"begin", "submit", "finish"}, Verify(c, a, verb)
      PROVE ClientsPlaced' /\ InputHeld' /\ DueCovered'
  <2>0. /\ UNCHANGED <<input, inputLock>>
        /\ clientPc[c] = "idle" /\ input[a] # "absent"
        /\ clientPc' = [clientPc EXCEPT ![c] = verb]
        /\ clientOn' = [clientOn EXCEPT ![c] = a]
    BY <1>5 DEF Verify
  <2>1. ClientsPlaced'
    BY <1>t, <2>0, WorkingOn DEF ClientsPlaced
  <2>2. InputHeld'
    BY <1>t, <2>0, WorkingOn DEF InputHeld
  <2>3. DueCovered'
    BY <1>1, <2>0, SweepFrame
  <2> QED
    BY <2>1, <2>2, <2>3
<1>6. ASSUME Begin(c) \/ FinishCommit(c) PROVE ClientsPlaced' /\ InputHeld' /\ DueCovered'
  <2> DEFINE a == clientOn[c]
  <2>0. /\ UNCHANGED inputLock
        /\ clientPc[c] \in {"begin", "mark_done"}
        /\ inputLock[a] = NoOne
        /\ clientPc' = [clientPc EXCEPT ![c] = "idle"]
        /\ clientOn' = [clientOn EXCEPT ![c] = NoOne]
        /\ \/ input' = input
           \/ input[a] = "new" /\ input' = [input EXCEPT ![a] = "in_progress"]
           \/ input[a] \in {"new", "in_progress"} /\ input' = [input EXCEPT ![a] = "done"]
    BY <1>6 DEF Begin, FinishCommit, FreeInput, ClientIdle
  <2>1. a \in Attempts
    BY <2>0, WorkingOn
  <2>2. /\ \A b \in Attempts : b # a => input'[b] = input[b]
        /\ input[a] = "absent" <=> input'[a] = "absent"
        /\ input[a] \in {"in_progress", "done"} => input'[a] = input[a] \/ input'[a] = "done"
    BY <1>t, <2>0, <2>1
  <2>3. ClientsPlaced'
    BY <1>t, <2>0, <2>1, <2>2, WorkingOn DEF ClientsPlaced
  <2>4. InputHeld'
    BY <1>t, <1>1, <2>0, <2>1, <2>2, WorkingOn DEF InputHeld
  <2>5. DueCovered'
    BY <1>1, <2>0, <2>1, <2>2, SweepFrame
  <2> QED
    BY <2>3, <2>4, <2>5
<1>7. ASSUME SubmitLock(c) PROVE ClientsPlaced' /\ InputHeld' /\ DueCovered'
  <2> DEFINE a == clientOn[c]
  <2>0. UNCHANGED input /\ clientPc[c] = "submit" /\ inputLock[a] = NoOne
    BY <1>7 DEF SubmitLock, FreeInput
  <2>1. a \in Attempts
    BY <2>0, WorkingOn
  <2>2. CASE /\ clientPc' = [clientPc EXCEPT ![c] = "idle"]
             /\ clientOn' = [clientOn EXCEPT ![c] = NoOne]
             /\ UNCHANGED inputLock
    <3>1. ClientsPlaced' /\ InputHeld'
      BY <1>t, <2>0, <2>2, WorkingOn DEF ClientsPlaced, InputHeld
    <3> QED
      BY <1>1, <2>0, <2>2, <3>1, SweepFrame
  <2>3. CASE /\ input[a] # "done"
             /\ \E step \in {"insert", "settle"} : clientPc' = [clientPc EXCEPT ![c] = step]
             /\ inputLock' = [inputLock EXCEPT ![a] = c]
             /\ UNCHANGED clientOn
    <3>1. input[a] \in {"new", "in_progress"}
      BY <1>t, <2>0, <2>1, <2>3, WorkingOn DEF InputStates
    <3>2. ClientsPlaced'
      BY <1>t, <2>0, <2>1, <2>3, WorkingOn DEF ClientsPlaced
    <3>3. InputHeld'
      BY <1>t, <2>0, <2>1, <2>3, <3>1, WorkingOn DEF InputHeld
    <3>4. \A b \in Attempts, h \in Hosts : inputLock[b] = h => inputLock'[b] = h
      BY <1>t, <2>0, <2>3, WorkingOn
    <3> QED
      BY <1>1, <2>0, <3>2, <3>3, <3>4, SweepFrame
  <2> QED
    BY <1>7, <2>2, <2>3 DEF SubmitLock, ClientIdle
<1>8. ASSUME SubmitCommit(c) PROVE ClientsPlaced' /\ InputHeld' /\ DueCovered'
  <2> DEFINE a == clientOn[c]
  <2>0. /\ clientPc[c] \in {"insert", "settle"}
        /\ input' = [input EXCEPT ![a] = "in_progress"]
        /\ inputLock' = Unlocked(c)
        /\ clientPc' = [clientPc EXCEPT ![c] = "idle"]
        /\ clientOn' = [clientOn EXCEPT ![c] = NoOne]
    BY <1>8 DEF SubmitCommit, ClientIdle
  <2>1. a \in Attempts /\ inputLock[a] = c /\ input[a] \in {"new", "in_progress"}
    BY <2>0, WorkingOn
  <2>2. /\ \A b \in Attempts : b # a => input'[b] = input[b]
        /\ input'[a] = "in_progress"
    BY <1>t, <2>0, <2>1
  <2>3. ClientsPlaced'
    BY <1>t, <2>0, <2>1, <2>2, WorkingOn DEF ClientsPlaced
  <2>4. InputHeld'
    BY <1>t, <2>0, <2>1, <2>2, WorkingOn, UnlockedByClient DEF InputHeld
  <2>5. DueCovered'
    BY <1>1, <2>0, <2>1, <2>2, UnlockedByClient, SweepFrame
  <2> QED
    BY <2>3, <2>4, <2>5
<1>9. ASSUME FinishRead(c) PROVE ClientsPlaced' /\ InputHeld' /\ DueCovered'
  <2>0. /\ UNCHANGED <<input, inputLock, clientOn>>
        /\ clientPc[c] = "finish"
        /\ clientPc' = [clientPc EXCEPT ![c] = "mark_done"]
    BY <1>9 DEF FinishRead
  <2>1. ClientsPlaced' /\ InputHeld'
    BY <1>t, <2>0, WorkingOn DEF ClientsPlaced, InputHeld
  <2> QED
    BY <1>1, <2>0, <2>1, SweepFrame
<1>10. ASSUME ClientAbort(c) PROVE ClientsPlaced' /\ InputHeld' /\ DueCovered'
  <2>0. /\ UNCHANGED input
        /\ inputLock' = Unlocked(c)
        /\ clientPc' = [clientPc EXCEPT ![c] = "idle"]
        /\ clientOn' = [clientOn EXCEPT ![c] = NoOne]
    BY <1>10 DEF ClientAbort, ClientIdle
  <2>1. ClientsPlaced'
    BY <1>t, <2>0, WorkingOn DEF ClientsPlaced
  <2>2. InputHeld'
    BY <1>t, <2>0, WorkingOn, UnlockedByClient DEF InputHeld
  <2>3. DueCovered'
    BY <1>1, <2>0, UnlockedByClient, SweepFrame
  <2> QED
    BY <2>1, <2>2, <2>3
<1>11. ClientsPlaced' /\ InputHeld' /\ DueCovered'
  BY <1>3, <1>4, <1>5, <1>6, <1>7, <1>8, <1>9, <1>10 DEF ClientVerb
<1> QED
  BY <1>0, <1>2, <1>11 DEF SessionInv

\* Every step keeps the invariant.
LEMMA SessionInvStep == SessionInv /\ [Next]_vars => SessionInv'
<1> SUFFICES ASSUME SessionInv, [Next]_vars PROVE SessionInv'
  OBVIOUS
<1>0. TypeOK'
  BY TypeStep DEF SessionInv
<1>1. ASSUME UNCHANGED <<survey, armed, surveyLock, input, inputLock, hostVars, clientVars>>
      PROVE SessionInv'
  <2>1. SurveyHeld' /\ RowsSound' /\ CertificationDisjoint'
    BY <1>1, SurveyFrame DEF hostVars
  <2>2. ClientsPlaced' /\ InputHeld' /\ DueCovered'
    BY <1>1, InputFrame, SweepFrame DEF hostVars, clientVars
  <2> QED
    BY <1>0, <2>1, <2>2 DEF SessionInv
<1>2. CASE TtlRunsOut
  BY <1>1, <1>2 DEF TtlRunsOut
<1>3. ASSUME NEW q \in 1..NQ, DeleteQuestion(q) PROVE SessionInv'
  BY <1>1, <1>3 DEF DeleteQuestion
<1>4. CASE UNCHANGED vars
  BY <1>1, <1>4 DEF vars, rowVars
<1>5. ASSUME NEW h \in Hosts, NEW c \in Clients, DeadlockDetected(h, c) PROVE SessionInv'
  BY <1>5, HostInvStep, ClientInvStep DEF DeadlockDetected, HostVerb, ClientVerb
<1> QED
  BY <1>2, <1>3, <1>4, <1>5, HostInvStep, ClientInvStep DEF Next, VerbNext

-----------------------------------------------------------------------------
\* The session's inductive invariant holds throughout, settings updates included.
THEOREM SessionInvariance == Spec => []SessionInv
<1>1. Init => SessionInv
  BY SessionInvInit
<1>2. SessionInv /\ [Next]_vars => SessionInv'
  BY SessionInvStep
<1> QED
  BY <1>1, <1>2, PTL DEF Spec

\* The session verbs alone are among its steps.
LEMMA VerbsAreSteps == VerbSpec => Spec
<1>1. [VerbNext]_vars => [Next]_vars
  BY DEF Next
<1> QED
  BY <1>1, PTL DEF VerbSpec, Spec

\* The session's variables keep their types.
THEOREM TypeCorrect == Spec => []TypeOK
<1>1. SessionInv => TypeOK
  BY DEF SessionInv
<1> QED
  BY <1>1, SessionInvariance, PTL

\* The session columns of the row never come from different moments.
THEOREM ColumnsAlwaysAgree == Spec => []ColumnsAgree
<1>1. SessionInv => ColumnsAgree
  BY DEF SessionInv, RowsSound, RowSound, ColumnsAgree
<1> QED
  BY <1>1, SessionInvariance, PTL

\* No certification survey ever carries a live session.
THEOREM CertificationStaysDisjoint == Spec => []CertificationDisjoint
<1>1. SessionInv => CertificationDisjoint
  BY DEF SessionInv
<1> QED
  BY <1>1, SessionInvariance, PTL

\* No attempt turns done under a submit that is writing its lines.
THEOREM NoLinesLandAfterDone == Spec => []NoLinesAfterDone
<1>1. SessionInv => NoLinesAfterDone
  BY DEF SessionInv, InputHeld, NoLinesAfterDone
<1> QED
  BY <1>1, SessionInvariance, PTL

-----------------------------------------------------------------------------
(* Who writes what *)

\* Among the session verbs, three commits write the session columns.
LEMMA WhichVerbsWriteSurvey ==
    ASSUME [VerbNext]_vars
    PROVE  \/ UNCHANGED <<survey, armed>>
           \/ \E h \in Hosts : ArmCommit(h) \/ AdvanceCommit(h) \/ EndCommit(h)
<1> USE DEF rowVars, hostVars, clientVars, factVars
<1>1. ASSUME NEW h \in Hosts, HostVerb(h)
      PROVE  UNCHANGED <<survey, armed>> \/ ArmCommit(h) \/ AdvanceCommit(h) \/ EndCommit(h)
  BY <1>1 DEF HostVerb, ArmCheck, AdvanceLock, Push, EndLock, EndScan, EndTake, PushEnd, HostAbort
<1>2. ASSUME NEW c \in Clients, ClientVerb(c) PROVE UNCHANGED <<survey, armed>>
  BY <1>2 DEF ClientVerb, JoinRead, JoinCommit, Verify, Begin, SubmitLock, SubmitCommit,
              FinishRead, FinishCommit, ClientAbort
<1>3. ASSUME NEW h \in Hosts, NEW c \in Clients, DeadlockDetected(h, c)
      PROVE  UNCHANGED <<survey, armed>>
  BY <1>3 DEF DeadlockDetected, HostAbort, ClientAbort
<1>4. CASE TtlRunsOut \/ (\E q \in 1..NQ : DeleteQuestion(q)) \/ UNCHANGED vars
  BY <1>4 DEF TtlRunsOut, DeleteQuestion, vars
<1> QED
  BY <1>1, <1>2, <1>3, <1>4 DEF VerbNext

\* The settings update is the fourth.
LEMMA WhoWritesSurvey ==
    ASSUME [Next]_vars
    PROVE  \/ survey' = survey
           \/ \E h \in Hosts : ArmCommit(h) \/ AdvanceCommit(h) \/ EndCommit(h) \/ EditCommit(h)
<1>1. ASSUME NEW h \in Hosts, SettingsEdit(h) PROVE survey' = survey \/ EditCommit(h)
  BY <1>1 DEF SettingsEdit, EditRead, rowVars
<1> QED
  BY <1>1, WhichVerbsWriteSurvey DEF Next

\* The commits that write attempt rows.
LEMMA WhoWritesInput ==
    ASSUME [Next]_vars
    PROVE  \/ input' = input
           \/ \E h \in Hosts : EndCommit(h)
           \/ \E c \in Clients : JoinCommit(c) \/ Begin(c) \/ SubmitCommit(c) \/ FinishCommit(c)
<1> USE DEF rowVars, hostVars, clientVars, factVars
<1>1. ASSUME NEW h \in Hosts, HostVerb(h) \/ SettingsEdit(h) PROVE input' = input \/ EndCommit(h)
  BY <1>1 DEF HostVerb, SettingsEdit, ArmCheck, ArmCommit, AdvanceLock, AdvanceCommit, Push,
              EndLock, EndScan, EndTake, PushEnd, HostAbort, EditRead, EditCommit
<1>2. ASSUME NEW c \in Clients, ClientVerb(c)
      PROVE  input' = input \/ JoinCommit(c) \/ Begin(c) \/ SubmitCommit(c) \/ FinishCommit(c)
  BY <1>2 DEF ClientVerb, JoinRead, Verify, SubmitLock, FinishRead, ClientAbort
<1>3. ASSUME NEW h \in Hosts, NEW c \in Clients, DeadlockDetected(h, c) PROVE input' = input
  BY <1>3 DEF DeadlockDetected, HostAbort, ClientAbort
<1>4. CASE TtlRunsOut \/ (\E q \in 1..NQ : DeleteQuestion(q)) \/ UNCHANGED vars
  BY <1>4 DEF TtlRunsOut, DeleteQuestion, vars
<1> QED
  BY <1>1, <1>2, <1>3, <1>4 DEF Next, VerbNext

\* Only the commit of its own end takes a host out of the sweep to its last push.
LEMMA WhoCloses ==
    ASSUME SessionInv, [Next]_vars, NEW h \in Hosts,
           hostPc[h] = "sweep", hostPc'[h] = "closing"
    PROVE  EndCommit(h)
<1> USE DEF rowVars, hostVars, clientVars, factVars
<1>0. hostPc \in [Hosts -> HostSteps]
  BY DEF SessionInv, TypeOK
<1>1. ASSUME NEW g \in Hosts, HostVerb(g) \/ SettingsEdit(g) PROVE EndCommit(h)
  BY <1>0, <1>1
  DEF HostVerb, SettingsEdit, ArmCheck, ArmCommit, AdvanceLock, AdvanceCommit, Push, EndLock,
      EndScan, EndTake, EndCommit, PushEnd, HostAbort, EditRead, EditCommit, HostIdle
<1>2. ASSUME NEW c \in Clients, ClientVerb(c) PROVE FALSE
  BY <1>2 DEF ClientVerb, JoinRead, JoinCommit, Verify, Begin, SubmitLock, SubmitCommit,
              FinishRead, FinishCommit, ClientAbort
<1>3. ASSUME NEW g \in Hosts, NEW c \in Clients, DeadlockDetected(g, c) PROVE FALSE
  BY <1>0, <1>3 DEF DeadlockDetected, HostAbort, ClientAbort, HostIdle
<1>4. CASE TtlRunsOut \/ (\E q \in 1..NQ : DeleteQuestion(q)) \/ UNCHANGED vars
  BY <1>4 DEF TtlRunsOut, DeleteQuestion, vars
<1> QED
  BY <1>1, <1>2, <1>3, <1>4 DEF Next, VerbNext

-----------------------------------------------------------------------------
(* Action properties *)

\* A settings update included, the session state makes declared moves only.
THEOREM DeclaredMovesHold == Spec => DeclaredMovesOnly
<1>1. SessionInv /\ [Next]_vars => [DeclaredMove(survey.state, survey'.state)]_survey
  <2> SUFFICES ASSUME SessionInv, [Next]_vars PROVE DeclaredMove(survey.state, survey'.state)
    OBVIOUS
  <2>0. survey \in Row
    BY DEF SessionInv, TypeOK
  <2>1. CASE survey' = survey
    BY <2>1 DEF DeclaredMove
  <2>2. ASSUME NEW h \in Hosts, ArmCommit(h) PROVE DeclaredMove(survey.state, survey'.state)
    BY <2>0, <2>2 DEF ArmCommit, ArmedRow, DeclaredMove, Row
  <2>3. ASSUME NEW h \in Hosts, AdvanceCommit(h) PROVE DeclaredMove(survey.state, survey'.state)
    BY <2>0, <2>3 DEF AdvanceCommit, Opened, CanTransition, DeclaredMove, Row
  <2>4. ASSUME NEW h \in Hosts, EndCommit(h) PROVE DeclaredMove(survey.state, survey'.state)
    <3>1. survey' = EndedRow
      BY <2>4 DEF EndCommit
    <3> QED
      BY <2>0, <3>1 DEF EndedRow, DeclaredMove, Row, SessionStates
  <2>5. ASSUME NEW h \in Hosts, EditCommit(h) PROVE DeclaredMove(survey.state, survey'.state)
    BY <2>5 DEF EditCommit, EditAllowed, DeclaredMove
  <2>6. \/ survey' = survey
        \/ \E h \in Hosts : ArmCommit(h) \/ AdvanceCommit(h) \/ EndCommit(h) \/ EditCommit(h)
    BY WhoWritesSurvey
  <2> QED
    BY <2>1, <2>2, <2>3, <2>4, <2>5, <2>6
<1> QED
  BY <1>1, SessionInvariance, PTL DEF Spec, DeclaredMovesOnly

\* No verb takes an attempt back, and a finished one stays finished.
THEOREM AttemptsAlwaysAdvance == Spec => AttemptsOnlyAdvance
<1>1. SessionInv /\ [Next]_vars
        => [\A a \in Attempts : InputRank(input'[a]) >= InputRank(input[a])]_input
  <2> SUFFICES ASSUME SessionInv, [Next]_vars, NEW a \in Attempts
               PROVE  InputRank(input'[a]) >= InputRank(input[a])
    OBVIOUS
  <2>0. input \in [Attempts -> InputStates] /\ input' \in [Attempts -> InputStates]
    BY SessionInvStep DEF SessionInv, TypeOK
  <2>1. \/ input'[a] = input[a]
        \/ input[a] = "absent"
        \/ input'[a] = "done"
        \/ input[a] = "new" /\ input'[a] = "in_progress"
    <3>1. CASE input' = input
      BY <3>1
    <3>2. ASSUME NEW h \in Hosts, EndCommit(h) PROVE input'[a] = input[a] \/ input'[a] = "done"
      BY <3>2 DEF EndCommit
    <3>3. ASSUME NEW c \in Clients, JoinCommit(c)
          PROVE  input'[a] = input[a] \/ input[a] = "absent"
      BY <2>0, <3>3, WorkingOn DEF JoinCommit
    <3>4. ASSUME NEW c \in Clients, Begin(c)
          PROVE  input'[a] = input[a] \/ (input[a] = "new" /\ input'[a] = "in_progress")
      BY <2>0, <3>4 DEF Begin
    <3>5. ASSUME NEW c \in Clients, SubmitCommit(c)
          PROVE  input'[a] = input[a] \/ (input[a] = "new" /\ input'[a] = "in_progress")
      BY <2>0, <3>5, WorkingOn DEF SubmitCommit
    <3>6. ASSUME NEW c \in Clients, FinishCommit(c)
          PROVE  input'[a] = input[a] \/ input'[a] = "done"
      BY <2>0, <3>6 DEF FinishCommit
    <3> QED
      BY <3>1, <3>2, <3>3, <3>4, <3>5, <3>6, WhoWritesInput
  <2> QED
    BY <2>0, <2>1 DEF InputStates, InputRank
<1> QED
  BY <1>1, SessionInvariance, PTL DEF Spec, AttemptsOnlyAdvance

\* The end finishes every attendee who was running when it took the survey row.
THEOREM EndFinishesEveryRunning == Spec => EndFinishesRunning
<1>1. SessionInv /\ [Next]_vars
        => [\A h \in Hosts : hostPc[h] = "sweep" /\ hostPc'[h] = "closing" =>
               \A a \in due : input'[a] = "done"]_vars
  <2> SUFFICES ASSUME SessionInv, [Next]_vars, NEW h \in Hosts,
                      hostPc[h] = "sweep", hostPc'[h] = "closing", NEW a \in due
               PROVE  input'[a] = "done"
    OBVIOUS
  <2>1. EndCommit(h)
    BY WhoCloses
  <2>2. a \in Attempts /\ (inputLock[a] = h \/ input[a] = "done")
    BY <2>1 DEF SessionInv, DueCovered, TypeOK, EndCommit
  <2> QED
    BY <2>1, <2>2 DEF EndCommit
<1> QED
  BY <1>1, SessionInvariance, PTL DEF Spec, EndFinishesRunning

-----------------------------------------------------------------------------
(* Pushes and starts *)

\* The initial state has pushed nothing and owes nothing.
LEMMA VerbInvInit == Init => VerbInv
<1> SUFFICES ASSUME Init PROVE VerbInv
  OBVIOUS
<1> USE DEF Init, BlankRow
<1>1. SessionInv
  BY SessionInvInit
<1>2. CodeStands /\ PushesOwed /\ StartRecorded
  BY DEF CodeStands, PushesOwed, StartRecorded
<1>3. PushedOnce /\ StartPushedFirst
  BY DEF PushedOnce, StartPushedFirst
<1> QED
  BY <1>1, <1>2, <1>3 DEF VerbInv

\* What the types say of the facts and of what hosts keep.
LEMMA FactTypes ==
    ASSUME TypeOK
    PROVE  /\ survey \in Row /\ survey.code \in Nat /\ survey.cursor \in Nat
           /\ armed \in Codes /\ armed \in Nat
           /\ hostPc \in [Hosts -> HostSteps]
           /\ hostRow \in [Hosts -> Row] /\ hostNext \in [Hosts -> Positions]
           /\ advanced \in [Codes \X Positions -> {0, 1, 2}]
           /\ started \in [Codes -> {0, 1, 2}]
           /\ \A f \in Codes \X Positions :
                 f[1] \in Codes /\ f[1] \in Nat /\ f[2] \in Positions /\ f[2] \in Nat
           /\ \A h \in Hosts : Owes(h) \in Codes \X Positions
<1>1. Codes \subseteq Nat /\ Positions \subseteq Nat /\ Counts = {0, 1, 2}
  BY WorkersAssumption DEF Codes, Positions, Counts
<1>2. \A h \in Hosts : hostRow[h].code \in Codes /\ hostNext[h] \in Positions
  BY DEF TypeOK, Row
<1> QED
  BY <1>1, <1>2 DEF TypeOK, Row, Owes

\* A step that writes no session column and records no fact, and takes no host to
\* the far side of an advance.
LEMMA FactFrame ==
    ASSUME VerbInv,
           UNCHANGED <<survey, armed, advanced, started>>,
           \A h \in Hosts :
               hostPc'[h] \in {"advance", "push"} =>
                   /\ hostPc'[h] = hostPc[h]
                   /\ hostNext'[h] = hostNext[h]
                   /\ hostRow'[h] = hostRow[h]
    PROVE  CodeStands' /\ PushesOwed' /\ StartRecorded' /\ PushedOnce' /\ StartPushedFirst'
<1>1. CodeStands'
  BY DEF VerbInv, CodeStands
<1>2. PushesOwed'
  BY DEF VerbInv, PushesOwed, Owes, Reached
<1>3. StartRecorded'
  BY DEF VerbInv, StartRecorded
<1>4. PushedOnce' /\ StartPushedFirst'
  BY DEF VerbInv, PushedOnce, StartPushedFirst
<1> QED
  BY <1>1, <1>2, <1>3, <1>4

\* A new session has no facts yet, and the ones of earlier sessions stay behind.
LEMMA ArmKeepsFacts ==
    ASSUME VerbInv, NEW h \in Hosts, ArmCommit(h)
    PROVE  CodeStands' /\ PushesOwed' /\ StartRecorded' /\ PushedOnce' /\ StartPushedFirst'
<1>t. TypeOK
  BY DEF VerbInv, SessionInv
<1>0. /\ UNCHANGED <<advanced, started>>
      /\ hostPc' = [hostPc EXCEPT ![h] = "idle"]
      /\ hostRow' = [hostRow EXCEPT ![h] = BlankRow]
      /\ hostNext' = [hostNext EXCEPT ![h] = 0]
  BY DEF ArmCommit, HostIdle, factVars
<1>1. \A g \in Hosts : hostPc[g] \notin {"advance", "end", "sweep"}
  BY NoHolder DEF ArmCommit, VerbInv
<1>2. \A g \in Hosts : hostPc'[g] \in {"advance", "push"} =>
          hostPc[g] = "push" /\ hostNext'[g] = hostNext[g] /\ hostRow'[g] = hostRow[g]
  BY <1>t, <1>0, <1>1, FactTypes
<1>3. CASE UNCHANGED <<survey, armed>>
  BY <1>t, <1>0, <1>2, <1>3, FactTypes, FactFrame
<1>4. CASE survey' = ArmedRow /\ armed' = armed + 1
  <2>1. survey'.code = armed + 1 /\ survey'.cursor = 0 /\ survey'.state = "ready"
    BY <1>t, <1>4, FactTypes DEF ArmedRow, Row
  <2>2. \A f \in Codes \X Positions : Reached(f) => Reached(f)'
    BY <1>t, <1>4, FactTypes DEF Reached
  <2>3. CodeStands'
    BY <1>2, <1>4, <2>1, <1>0, <1>t, FactTypes DEF CodeStands, HostSteps
  <2>4. PushesOwed'
    <3>1. \A g \in Hosts : hostPc'[g] = "push" => hostPc[g] = "push" /\ Owes(g)' = Owes(g)
      BY <1>2 DEF Owes
    <3>2. \A g \in Hosts : hostPc'[g] = "push" =>
              /\ Reached(Owes(g)') /\ Owes(g)' \in Codes \X Positions
              /\ advanced'[Owes(g)'] = 0
      BY <1>t, <1>0, <3>1, FactTypes DEF VerbInv, PushesOwed
    <3>3. \A g \in Hosts : hostPc'[g] = "push" => Reached(Owes(g))'
      BY <1>t, <1>4, <2>1, <3>2, FactTypes DEF Reached
    <3>4. \A f \in DOMAIN advanced' : advanced'[f] > 0 => Reached(f)'
      BY <1>t, <1>0, <2>2, FactTypes DEF VerbInv, PushesOwed
    <3>5. \A g, k \in Hosts :
              hostPc'[g] = "push" /\ hostPc'[k] = "push" /\ Owes(g)' = Owes(k)' => g = k
      BY <3>1 DEF VerbInv, PushesOwed
    <3> QED
      BY <3>2, <3>3, <3>4, <3>5 DEF PushesOwed
  <2>5. StartRecorded'
    BY <1>0, <1>2, <2>1 DEF VerbInv, StartRecorded
  <2> QED
    BY <1>0, <2>3, <2>4, <2>5 DEF VerbInv, PushedOnce, StartPushedFirst
<1> QED
  BY <1>3, <1>4 DEF ArmCommit

\* The lock of an advance records the start, if nobody has.
LEMMA LockKeepsFacts ==
    ASSUME VerbInv, NEW h \in Hosts, AdvanceLock(h)
    PROVE  CodeStands' /\ PushesOwed' /\ StartRecorded' /\ PushedOnce' /\ StartPushedFirst'
<1>t. TypeOK
  BY DEF VerbInv, SessionInv
<1>0. /\ UNCHANGED <<survey, armed, advanced>>
      /\ survey.state # "none"
      /\ hostPc' = [hostPc EXCEPT ![h] = "advance"]
      /\ hostRow' = [hostRow EXCEPT ![h].code = survey.code]
      /\ hostNext' = [hostNext EXCEPT ![h] = NextAfter(survey.cursor)]
      /\ started' = IF survey.state = "ready"
                    THEN [started EXCEPT ![survey.code] = Bump(@)] ELSE started
      /\ hostPc[h] = "idle"
  BY DEF AdvanceLock, CanTransition, rowVars
<1>1. survey.code = armed
  BY DEF VerbInv, CodeStands
<1>2. hostRow'[h].code = armed
  BY <1>t, <1>0, <1>1, FactTypes DEF Row
<1>3. \A g \in Hosts \ {h} :
          hostPc'[g] = hostPc[g] /\ hostRow'[g] = hostRow[g] /\ hostNext'[g] = hostNext[g]
  BY <1>t, <1>0, FactTypes
<1>4. hostPc'[h] = "advance"
  BY <1>t, <1>0, FactTypes
<1>5. /\ \A k \in Codes : started[k] > 0 => started'[k] > 0
      /\ started'[armed] > 0
  <2>1. CASE survey.state = "ready"
    BY <1>t, <1>0, <1>1, <2>1, FactTypes DEF Bump
  <2>2. CASE survey.state = "in_progress"
    BY <1>0, <2>2 DEF VerbInv, StartRecorded
  <2> QED
    BY <1>t, <1>0, <2>1, <2>2, FactTypes DEF Row, SessionStates
<1>6. CodeStands'
  BY <1>0, <1>1, <1>2, <1>3 DEF VerbInv, CodeStands
<1>7. PushesOwed'
  <2>1. \A g \in Hosts : hostPc'[g] = "push" => hostPc[g] = "push" /\ Owes(g)' = Owes(g)
    BY <1>3, <1>4 DEF Owes
  <2>2. \A g \in Hosts : hostPc'[g] = "push" => Reached(Owes(g))' /\ advanced'[Owes(g)'] = 0
    BY <1>0, <2>1 DEF VerbInv, PushesOwed, Reached
  <2>3. \A f \in DOMAIN advanced' : advanced'[f] > 0 => Reached(f)'
    BY <1>0 DEF VerbInv, PushesOwed, Reached
  <2> QED
    BY <2>1, <2>2, <2>3 DEF VerbInv, PushesOwed
<1>8. StartRecorded'
  <2>1. \A g \in Hosts : hostRow[g].code \in Codes
    BY <1>t, FactTypes DEF Row
  <2>2. \A g \in Hosts \ {h} : hostPc'[g] \in {"advance", "push"} => started'[hostRow'[g].code] > 0
    BY <1>3, <1>5, <2>1 DEF VerbInv, StartRecorded
  <2> QED
    BY <1>0, <1>2, <1>5, <2>2 DEF StartRecorded
<1>9. PushedOnce' /\ StartPushedFirst'
  <2>1. PushedOnce'
    BY <1>0 DEF VerbInv, PushedOnce
  <2>2. \A f \in DOMAIN advanced : f[1] \in Codes
    BY <1>t, FactTypes
  <2> QED
    BY <1>0, <1>5, <2>1, <2>2 DEF VerbInv, StartPushedFirst
<1> QED
  BY <1>6, <1>7, <1>8, <1>9

\* The commit of an advance takes the cursor to a question nobody pushed or owes.
LEMMA CommitKeepsFacts ==
    ASSUME VerbInv, NEW h \in Hosts, AdvanceCommit(h)
    PROVE  CodeStands' /\ PushesOwed' /\ StartRecorded' /\ PushedOnce' /\ StartPushedFirst'
<1>t. TypeOK
  BY DEF VerbInv, SessionInv
<1>0. /\ UNCHANGED <<armed, hostRow, hostNext, advanced, started>>
      /\ survey' = [Opened(survey) EXCEPT !.cursor = hostNext[h], !.clock = hostNext[h]]
      /\ hostPc[h] = "advance"
      /\ hostPc' = [hostPc EXCEPT ![h] = "push"]
  BY DEF AdvanceCommit, factVars
<1>1. hostNext[h] \in Nat /\ hostNext[h] > survey.cursor
  BY <1>t, <1>0, FactTypes, WorkersAssumption DEF VerbInv, SessionInv, SurveyHeld, Positions
<1>2. survey'.code = armed /\ survey'.cursor = hostNext[h]
  BY <1>t, <1>0, FactTypes DEF Opened, Row, VerbInv, CodeStands
<1>3. hostRow[h].code = armed
  BY <1>0 DEF VerbInv, CodeStands
<1>4. Owes(h) = <<armed, hostNext[h]>> /\ Owes(h) \in Codes \X Positions
  BY <1>t, <1>3, FactTypes DEF Owes
<1>5. ~ Reached(Owes(h))
  BY <1>t, <1>1, <1>4, FactTypes DEF Reached
<1>6. \A f \in Codes \X Positions : Reached(f) => Reached(f)'
  BY <1>t, <1>0, <1>1, <1>2, FactTypes DEF Reached
<1>7. /\ hostPc'[h] = "push"
      /\ \A g \in Hosts \ {h} : hostPc'[g] = hostPc[g]
      /\ \A g \in Hosts : Owes(g)' = Owes(g)
  BY <1>t, <1>0, FactTypes DEF Owes
<1>8. CodeStands'
  BY <1>0, <1>2, <1>7 DEF VerbInv, CodeStands
<1>9. PushesOwed'
  <2>1. advanced[Owes(h)] = 0
    BY <1>t, <1>4, <1>5, FactTypes DEF VerbInv, PushesOwed
  <2>2. Reached(Owes(h))'
    BY <1>t, <1>0, <1>2, <1>4, <1>7, FactTypes DEF Reached
  <2>3. \A g \in Hosts \ {h} : hostPc'[g] = "push" =>
            /\ hostPc[g] = "push" /\ Owes(g) # Owes(h)
            /\ Reached(Owes(g)) /\ Owes(g) \in Codes \X Positions
            /\ advanced[Owes(g)] = 0
    BY <1>t, <1>5, <1>7, FactTypes DEF VerbInv, PushesOwed
  <2>4. \A g \in Hosts \ {h} : hostPc'[g] = "push" => Reached(Owes(g))'
    <3> SUFFICES ASSUME NEW g \in Hosts \ {h}, hostPc'[g] = "push" PROVE Reached(Owes(g))'
      OBVIOUS
    <3>1. Reached(Owes(g)) /\ Owes(g) \in Codes \X Positions /\ Owes(g)' = Owes(g)
      BY <1>7, <2>3
    <3> QED
      BY <1>6, <3>1 DEF Reached
  <2>5. \A f \in DOMAIN advanced' : advanced'[f] > 0 => Reached(f)'
    BY <1>t, <1>0, <1>6, FactTypes DEF VerbInv, PushesOwed
  <2>6. \A g, k \in Hosts :
            hostPc'[g] = "push" /\ hostPc'[k] = "push" /\ Owes(g)' = Owes(k)' => g = k
    BY <1>7, <2>3 DEF VerbInv, PushesOwed
  <2>7. \A g \in Hosts : hostPc'[g] = "push" => Reached(Owes(g))' /\ advanced'[Owes(g)'] = 0
    BY <1>0, <1>7, <2>1, <2>2, <2>3, <2>4
  <2> QED
    BY <2>5, <2>6, <2>7 DEF PushesOwed
<1>10. StartRecorded'
  <2>1. started[armed] > 0
    BY <1>0, <1>3 DEF VerbInv, StartRecorded
  <2> QED
    BY <1>0, <1>7, <2>1 DEF VerbInv, StartRecorded
<1> QED
  BY <1>0, <1>8, <1>9, <1>10 DEF VerbInv, PushedOnce, StartPushedFirst

\* A push records what its host owed, and nobody else owes it.
LEMMA PushKeepsFacts ==
    ASSUME VerbInv, NEW h \in Hosts, Push(h)
    PROVE  CodeStands' /\ PushesOwed' /\ StartRecorded' /\ PushedOnce' /\ StartPushedFirst'
<1>t. TypeOK
  BY DEF VerbInv, SessionInv
<1>0. /\ UNCHANGED <<survey, armed, started>>
      /\ hostPc[h] = "push"
      /\ hostPc' = [hostPc EXCEPT ![h] = "idle"]
      /\ hostRow' = [hostRow EXCEPT ![h] = BlankRow]
      /\ hostNext' = [hostNext EXCEPT ![h] = 0]
      /\ advanced' = [advanced EXCEPT ![Owes(h)] = Bump(@)]
  BY DEF Push, HostIdle, rowVars, Owes
<1>1. Owes(h) \in DOMAIN advanced /\ advanced[Owes(h)] = 0
  BY <1>t, <1>0, FactTypes DEF VerbInv, PushesOwed
<1>2. /\ DOMAIN advanced' = DOMAIN advanced
      /\ advanced'[Owes(h)] = 1
      /\ \A f \in DOMAIN advanced : f # Owes(h) => advanced'[f] = advanced[f]
  BY <1>t, <1>0, <1>1, FactTypes DEF Bump
<1>3. \A g \in Hosts : hostPc'[g] \in {"advance", "push"} =>
          /\ g # h /\ hostPc'[g] = hostPc[g]
          /\ hostRow'[g] = hostRow[g] /\ hostNext'[g] = hostNext[g]
  BY <1>t, <1>0, FactTypes
<1>4. CodeStands'
  BY <1>0, <1>3 DEF VerbInv, CodeStands
<1>5. PushesOwed'
  <2>1. \A g \in Hosts : hostPc'[g] = "push" =>
            hostPc[g] = "push" /\ Owes(g)' = Owes(g) /\ Owes(g) # Owes(h)
    BY <1>0, <1>3 DEF VerbInv, PushesOwed, Owes
  <2>2. \A g \in Hosts : hostPc'[g] = "push" => Reached(Owes(g))' /\ advanced'[Owes(g)'] = 0
    BY <1>t, <1>0, <1>2, <2>1, FactTypes DEF VerbInv, PushesOwed, Reached
  <2>3. \A f \in DOMAIN advanced' : advanced'[f] > 0 => Reached(f)'
    BY <1>0, <1>2 DEF VerbInv, PushesOwed, Reached
  <2> QED
    BY <2>1, <2>2, <2>3 DEF VerbInv, PushesOwed
<1>6. StartRecorded'
  BY <1>0, <1>3 DEF VerbInv, StartRecorded
<1>7. PushedOnce' /\ StartPushedFirst'
  <2>1. started[Owes(h)[1]] > 0
    BY <1>0 DEF VerbInv, StartRecorded, Owes
  <2>2. PushedOnce'
    BY <1>2 DEF VerbInv, PushedOnce
  <2> QED
    BY <1>0, <1>2, <2>1, <2>2 DEF VerbInv, StartPushedFirst
<1> QED
  BY <1>4, <1>5, <1>6, <1>7

\* An end leaves code and cursor on the row, and with them what was reached.
LEMMA EndKeepsFacts ==
    ASSUME VerbInv, NEW h \in Hosts, EndCommit(h)
    PROVE  CodeStands' /\ PushesOwed' /\ StartRecorded' /\ PushedOnce' /\ StartPushedFirst'
<1>t. TypeOK
  BY DEF VerbInv, SessionInv
<1>0. /\ UNCHANGED <<armed, hostRow, hostNext, advanced, started>>
      /\ survey' = EndedRow
      /\ hostPc' = [hostPc EXCEPT ![h] = "closing"]
  BY DEF EndCommit, factVars
<1>1. survey'.code = survey.code /\ survey'.cursor = survey.cursor /\ survey'.state = "none"
  BY <1>t, <1>0, FactTypes DEF EndedRow, Row
<1>2. \A g \in Hosts : hostPc'[g] \in {"advance", "push"} => hostPc[g] = hostPc'[g]
  BY <1>t, <1>0, FactTypes
<1>3. CodeStands'
  BY <1>0, <1>1, <1>2 DEF VerbInv, CodeStands
<1>4. PushesOwed'
  BY <1>0, <1>1, <1>2 DEF VerbInv, PushesOwed, Owes, Reached
<1>5. StartRecorded'
  BY <1>0, <1>1, <1>2 DEF VerbInv, StartRecorded
<1> QED
  BY <1>0, <1>3, <1>4, <1>5 DEF VerbInv, PushedOnce, StartPushedFirst

\* Every step of the session verbs keeps the invariant.
LEMMA VerbInvStep == VerbInv /\ [VerbNext]_vars => VerbInv'
<1> SUFFICES ASSUME VerbInv, [VerbNext]_vars PROVE VerbInv'
  OBVIOUS
<1>0. SessionInv'
  BY SessionInvStep DEF VerbInv, Next
<1>t. hostPc \in [Hosts -> HostSteps] /\ hostRow \in [Hosts -> Row] /\ hostNext \in [Hosts -> Positions]
  BY FactTypes DEF VerbInv, SessionInv
<1> DEFINE Kept == CodeStands' /\ PushesOwed' /\ StartRecorded' /\ PushedOnce' /\ StartPushedFirst'
<1> USE DEF rowVars, hostVars, clientVars, factVars
<1>1. ASSUME NEW h \in Hosts, HostVerb(h) PROVE Kept
  <2>1. CASE ArmCheck(h)
    BY <1>t, <2>1, FactFrame DEF ArmCheck
  <2>2. CASE EndLock(h)
    <3>1. \A g \in Hosts : hostPc'[g] \in {"advance", "push"} =>
              hostPc'[g] = hostPc[g] /\ hostNext'[g] = hostNext[g] /\ hostRow'[g] = hostRow[g]
      BY <1>t, <2>2 DEF EndLock
    <3> QED
      BY <2>2, <3>1, FactFrame DEF EndLock
  <2>3. CASE EndScan(h)
    BY <1>t, <2>3, FactFrame DEF EndScan
  <2>4. ASSUME NEW a \in Attempts, EndTake(h, a) PROVE Kept
    BY <2>4, FactFrame DEF EndTake
  <2>5. CASE PushEnd(h) \/ HostAbort(h)
    BY <1>t, <2>5, FactFrame DEF PushEnd, HostAbort, HostIdle
  <2> QED
    BY <1>1, <2>1, <2>2, <2>3, <2>4, <2>5, ArmKeepsFacts, LockKeepsFacts, CommitKeepsFacts,
       PushKeepsFacts, EndKeepsFacts DEF HostVerb
<1>2. ASSUME NEW c \in Clients, ClientVerb(c) PROVE Kept
  <2>1. UNCHANGED <<survey, armed, advanced, started, hostPc, hostRow, hostNext>>
    BY <1>2 DEF ClientVerb, JoinRead, JoinCommit, Verify, Begin, SubmitLock, SubmitCommit,
                FinishRead, FinishCommit, ClientAbort
  <2> QED
    BY <2>1, FactFrame
<1>3. ASSUME NEW h \in Hosts, NEW c \in Clients, DeadlockDetected(h, c) PROVE Kept
  BY <1>1, <1>2, <1>3 DEF DeadlockDetected, HostVerb, ClientVerb
<1>4. ASSUME TtlRunsOut \/ (\E q \in 1..NQ : DeleteQuestion(q)) \/ UNCHANGED vars PROVE Kept
  <2>1. UNCHANGED <<survey, armed, advanced, started, hostPc, hostRow, hostNext>>
    BY <1>4 DEF TtlRunsOut, DeleteQuestion, vars
  <2> QED
    BY <2>1, FactFrame
<1>5. Kept
  BY <1>1, <1>2, <1>3, <1>4 DEF VerbNext
<1> QED
  BY <1>0, <1>5 DEF VerbInv

\* The invariant of the session verbs holds throughout.
THEOREM VerbInvariance == VerbSpec => []VerbInv
<1>1. VerbInv /\ [VerbNext]_vars => VerbInv'
  BY VerbInvStep
<1> QED
  BY <1>1, VerbInvInit, PTL DEF VerbSpec

\* No question of a session reaches the audience twice, however many hosts advance.
THEOREM EachPushedOnce == VerbSpec => []PushedOnce
<1>1. VerbInv => PushedOnce
  BY DEF VerbInv
<1> QED
  BY <1>1, VerbInvariance, PTL

\* No question reaches the audience before the start of its session did.
THEOREM StartsPushedFirst == VerbSpec => []StartPushedFirst
<1>1. VerbInv => StartPushedFirst
  BY DEF VerbInv
<1> QED
  BY <1>1, VerbInvariance, PTL

-----------------------------------------------------------------------------
(* Refinement *)

\* Under its row locks each verb is one step of the session machine: the machine
\* moves at the commits, and everything in between is invisible to it.
THEOREM SessionImplementsMachine == VerbSpec => SessionRefinement
<1>1. Init => SM!Init
  BY DEF Init, BlankRow, SM!Init
<1>2. SessionInv /\ [VerbNext]_vars => [SM!Next]_SM!vars
  <2> SUFFICES ASSUME SessionInv, [VerbNext]_vars PROVE [SM!Next]_SM!vars
    OBVIOUS
  <2>0. survey \in Row /\ hostPc \in [Hosts -> HostSteps]
    BY DEF SessionInv, TypeOK
  <2>1. CASE UNCHANGED <<survey, armed>>
    BY <2>1 DEF SM!vars
  <2>2. ASSUME NEW h \in Hosts, ArmCommit(h) PROVE [SM!Next]_SM!vars
    <3>1. CASE UNCHANGED <<survey, armed>>
      BY <2>1, <3>1
    <3>2. CASE survey.state = "none" /\ survey' = ArmedRow /\ armed' = armed + 1
      <4>1. survey'.state = "ready" /\ survey'.cursor = 0
        BY <2>0, <3>2 DEF ArmedRow, Row
      <4> QED
        BY <2>2, <3>2, <4>1 DEF ArmCommit, SM!Next, SM!Arm
    <3> QED
      BY <2>2, <3>1, <3>2 DEF ArmCommit
  <2>3. ASSUME NEW h \in Hosts, AdvanceCommit(h) PROVE [SM!Next]_SM!vars
    <3>1. survey.state # "none" /\ hostNext[h] \in (survey.cursor + 1)..NQ
      BY <2>3 DEF SessionInv, SurveyHeld, AdvanceCommit
    <3>2. survey'.state = "in_progress" /\ survey'.cursor = hostNext[h]
      BY <2>0, <2>3, <3>1 DEF AdvanceCommit, Opened, CanTransition, Row, SessionStates
    <3>3. armed' = armed
      BY <2>3 DEF AdvanceCommit
    <3> QED
      BY <3>1, <3>2, <3>3 DEF SM!Next, SM!Advance
  <2>4. ASSUME NEW h \in Hosts, EndCommit(h) PROVE [SM!Next]_SM!vars
    <3>1. survey.state # "none"
      BY <2>4 DEF SessionInv, SurveyHeld, EndCommit
    <3>2. survey' = EndedRow /\ armed' = armed
      BY <2>4 DEF EndCommit
    <3>3. survey'.state = "none" /\ survey'.cursor = survey.cursor
      BY <2>0, <3>2 DEF EndedRow, Row
    <3> QED
      BY <3>1, <3>2, <3>3 DEF SM!Next, SM!End
  <2>5. \/ UNCHANGED <<survey, armed>>
        \/ \E h \in Hosts : ArmCommit(h) \/ AdvanceCommit(h) \/ EndCommit(h)
    BY WhichVerbsWriteSurvey
  <2> QED
    BY <2>1, <2>2, <2>3, <2>4, <2>5
<1>3. VerbSpec => []SessionInv
  BY VerbsAreSteps, SessionInvariance, PTL
<1> QED
  BY <1>1, <1>2, <1>3, PTL DEF VerbSpec, SessionRefinement, SM!Spec
=============================================================================
