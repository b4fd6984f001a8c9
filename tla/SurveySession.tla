--------------------------- MODULE SurveySession ----------------------------
(***************************************************************************)
(* The live session of one survey, as the host verbs (arm, advance, end),  *)
(* the settings update and the attendees' verbs (join, begin, submit,      *)
(* finish) drive it through PostgreSQL rows.                               *)
(*                                                                         *)
(* A transaction is a worker: a host worker or a client worker.  Under     *)
(* READ COMMITTED a worker's statements are separate steps, a row it wrote *)
(* stays locked and invisible until it commits, and a rollback leaves no   *)
(* trace; so a worker's writes are one step, the commit, and what other    *)
(* workers may do before it is decided by the row locks it already holds.  *)
(* A transaction that takes no lock before its last statement is one step  *)
(* from that statement on.                                                 *)
(*                                                                         *)
(* Timestamps are abstracted to what was going on when they were taken: a  *)
(* question clock is the position it was stamped for, a session stamp is   *)
(* the number of the session, 0 is NULL.  A code is the number of the arm  *)
(* that minted it (the mint never hands out a code twice while it stands). *)
(***************************************************************************)
EXTENDS Naturals, FiniteSets

CONSTANTS Hosts,         \* workers running host and officer verbs
          Clients,       \* workers running attendee verbs
          Attempts,      \* the attempt rows attendees may create
          NQ,            \* question positions 1..NQ, in sequence order
          MaxSessions,   \* bound on the number of arms
          NoOne          \* no worker

ASSUME WorkersAssumption ==
    /\ Hosts \cap Clients = {}
    /\ NoOne \notin Hosts \cup Clients \cup Attempts
    /\ NQ \in Nat
    /\ MaxSessions \in Nat

VARIABLES
    survey,       \* the survey row's session columns
    armed,        \* metadata.session_armed_at: number of the last arm
    ttlOver,      \* the code's hard TTL has run out since that arm
    questions,    \* positions of the live, non-page questions
    surveyLock,   \* worker holding the survey row FOR UPDATE
    input,        \* state of each attempt row, "absent" before the join
    inputLock,    \* worker holding the attempt row
    hostPc, hostRow, hostNext,        \* a host worker's step, what it kept of the row, target
    sweep,        \* attempt rows the end in progress still has to update
    due,          \* history: attempts running when that end took the survey row
    clientPc, clientOn, clientSaw,    \* a client worker's step, attempt, state read
    advanced,     \* how often SessionAdvanced was recorded, per code and question
    started,      \* how often SessionStarted was recorded, per code
    screen        \* the last session fact the audience was pushed

rowVars    == <<survey, armed, ttlOver, questions>>
hostVars   == <<hostPc, hostRow, hostNext, sweep, due>>
clientVars == <<clientPc, clientOn, clientSaw>>
factVars   == <<advanced, started, screen>>
vars == <<rowVars, surveyLock, input, inputLock, hostVars, clientVars, factVars>>

-----------------------------------------------------------------------------
(* Types *)

Workers       == Hosts \cup Clients
SessionStates == {"none", "ready", "in_progress"}
InputStates   == {"absent", "new", "in_progress", "done"}
Positions     == 0..NQ
Codes         == 0..MaxSessions
Counts        == 0..2       \* a count of facts, saturating at 2

Row == [state : SessionStates, cursor : Positions, clock : Positions,
        opened : Codes, code : Codes, certification : BOOLEAN]

HostSteps   == {"idle", "arm", "advance", "end", "sweep", "edit", "push", "closing"}
ClientSteps == {"idle", "join", "begin", "submit", "finish",
                "insert", "settle", "mark_done"}

BlankRow == [state |-> "none", cursor |-> 0, clock |-> 0,
             opened |-> 0, code |-> 0, certification |-> FALSE]

TypeOK ==
    /\ survey \in Row
    /\ armed \in Codes
    /\ ttlOver \in BOOLEAN
    /\ questions \in SUBSET (1..NQ)
    /\ surveyLock \in Hosts \cup {NoOne}
    /\ input \in [Attempts -> InputStates]
    /\ inputLock \in [Attempts -> Workers \cup {NoOne}]
    /\ hostPc \in [Hosts -> HostSteps]
    /\ hostRow \in [Hosts -> Row]
    /\ hostNext \in [Hosts -> Positions]
    /\ sweep \in SUBSET Attempts
    /\ due \in SUBSET Attempts
    /\ clientPc \in [Clients -> ClientSteps]
    /\ clientOn \in [Clients -> Attempts \cup {NoOne}]
    /\ clientSaw \in [Clients -> SessionStates \cup InputStates]
    /\ advanced \in [Codes \X Positions -> Counts]
    /\ started \in [Codes -> Counts]
    /\ screen \in Codes \X (0..NQ + 1)

Init ==
    /\ survey = BlankRow
    /\ armed = 0
    /\ ttlOver = FALSE
    /\ questions = 1..NQ
    /\ surveyLock = NoOne
    /\ input = [a \in Attempts |-> "absent"]
    /\ inputLock = [a \in Attempts |-> NoOne]
    /\ hostPc = [h \in Hosts |-> "idle"]
    /\ hostRow = [h \in Hosts |-> BlankRow]
    /\ hostNext = [h \in Hosts |-> 0]
    /\ sweep = {}
    /\ due = {}
    /\ clientPc = [c \in Clients |-> "idle"]
    /\ clientOn = [c \in Clients |-> NoOne]
    /\ clientSaw = [c \in Clients |-> "none"]
    /\ advanced = [f \in Codes \X Positions |-> 0]
    /\ started = [k \in Codes |-> 0]
    /\ screen = <<0, 0>>

-----------------------------------------------------------------------------
(* Helpers *)

\* One more recorded fact, saturating.
Bump(n) == IF n < 2 THEN n + 1 ELSE 2

\* (slip: the start verb taken for legal from a session that already runs)
CanTransitionStartSwapped(s, verb) ==
    \/ verb = "arm"   /\ s = "none"
    \/ verb = "start" /\ s = "in_progress"
    \/ verb = "end"   /\ s # "none"

\* The machine file's verdict: which verb is legal from a session state.
CanTransition(s, verb) ==
    \/ verb = "arm"   /\ s = "none"
    \/ verb = "start" /\ s = "ready"
    \/ verb = "end"   /\ s # "none"

\* The trigger on UPDATE OF session_state: undeclared moves are refused.
DeclaredMove(old, new) ==
    \/ old = new
    \/ <<old, new>> \in {<<"none", "ready">>, <<"in_progress", "none">>,
                         <<"ready", "none">>, <<"ready", "in_progress">>}

\* The CHECK that keeps certification and live sessions apart.
SessionCertificationDisjoint(row) == ~(row.certification /\ row.state # "none")

\* session_code_live: the state and the hard TTL decide, for the code on the row.
CodeLive == survey.state # "none" /\ ~ttlOver

\* The question the cursor walk lands on: the one after the cursor, if the
\* cursor is still among the live questions.
Following(cursor) == {q \in questions : q > cursor}
HasNext(cursor)   == (cursor = 0 \/ cursor \in questions) /\ Following(cursor) # {}
NextAfter(cursor) == CHOOSE q \in Following(cursor) : \A r \in Following(cursor) : q <= r

FreeSurvey    == surveyLock = NoOne
FreeInput(a)  == inputLock[a] = NoOne
Unlocked(w)   == [a \in Attempts |-> IF inputLock[a] = w THEN NoOne ELSE inputLock[a]]

\* A worker whose transaction is over.
HostIdle(h) ==
    /\ hostPc' = [hostPc EXCEPT ![h] = "idle"]
    /\ hostRow' = [hostRow EXCEPT ![h] = BlankRow]
    /\ hostNext' = [hostNext EXCEPT ![h] = 0]

ClientIdle(c) ==
    /\ clientPc' = [clientPc EXCEPT ![c] = "idle"]
    /\ clientOn' = [clientOn EXCEPT ![c] = NoOne]
    /\ clientSaw' = [clientSaw EXCEPT ![c] = "none"]

-----------------------------------------------------------------------------
(* arm_session: a pre-check in a transaction of its own, then the           *)
(* conditional UPDATE that decides.                                         *)

ArmCheck(h) ==
    /\ hostPc[h] = "idle"
    /\ ~survey.certification
    /\ CanTransition(survey.state, "arm")
    /\ hostPc' = [hostPc EXCEPT ![h] = "arm"]
    /\ UNCHANGED <<rowVars, surveyLock, input, inputLock, hostRow, hostNext, sweep, due,
                   clientVars, factVars>>

\* (slip: the cursor of the last session is left on the row)
ArmedRowKeepsCursor == [survey EXCEPT !.state = "ready", !.code = armed + 1, !.clock = 0]

ArmedRow == [survey EXCEPT !.state = "ready", !.code = armed + 1,
                           !.cursor = 0, !.clock = 0]

\* The UPDATE, conditional on no session running; the CHECK may refuse it.
ArmCommit(h) ==
    /\ hostPc[h] = "arm"
    /\ FreeSurvey
    /\ armed < MaxSessions
    /\ \/ /\ survey.state = "none"
          /\ SessionCertificationDisjoint(ArmedRow)
          /\ survey' = ArmedRow
          /\ armed' = armed + 1
          /\ ttlOver' = FALSE
       \/ /\ survey.state # "none" \/ ~SessionCertificationDisjoint(ArmedRow)
          /\ UNCHANGED <<survey, armed, ttlOver>>
    /\ HostIdle(h)
    /\ UNCHANGED <<questions, surveyLock, input, inputLock, sweep, due, clientVars, factVars>>

\* Twenty-four hours after the arm the code is dead whatever the state says.
TtlRunsOut ==
    /\ survey.state # "none"
    /\ ~ttlOver
    /\ ttlOver' = TRUE
    /\ UNCHANGED <<survey, armed, questions, surveyLock, input, inputLock,
                   hostVars, clientVars, factVars>>

-----------------------------------------------------------------------------
(* advance_session: one transaction under the survey row's lock, then the   *)
(* push.  SessionStarted is recorded before the commit.                     *)

\* (slip: the survey read without FOR UPDATE)
AdvanceLockPlainRead(h) ==
    /\ hostPc[h] = "idle"
    /\ survey.state # "none"
    /\ HasNext(survey.cursor)
    /\ hostPc' = [hostPc EXCEPT ![h] = "advance"]
    /\ hostRow' = [hostRow EXCEPT ![h].code = survey.code]
    /\ hostNext' = [hostNext EXCEPT ![h] = NextAfter(survey.cursor)]
    /\ started' = IF CanTransition(survey.state, "start")
                  THEN [started EXCEPT ![survey.code] = Bump(@)]
                  ELSE started
    /\ UNCHANGED <<rowVars, surveyLock, input, inputLock, sweep, due, clientVars, advanced, screen>>

AdvanceLock(h) ==
    /\ hostPc[h] = "idle"
    /\ FreeSurvey
    /\ survey.state # "none"
    /\ HasNext(survey.cursor)
    /\ surveyLock' = h
    /\ hostPc' = [hostPc EXCEPT ![h] = "advance"]
    /\ hostRow' = [hostRow EXCEPT ![h].code = survey.code]
    /\ hostNext' = [hostNext EXCEPT ![h] = NextAfter(survey.cursor)]
    /\ started' = IF CanTransition(survey.state, "start")
                  THEN [started EXCEPT ![survey.code] = Bump(@)]
                  ELSE started
    /\ UNCHANGED <<rowVars, input, inputLock, sweep, due, clientVars, advanced, screen>>

\* open_session: COALESCE keeps the stamp of an earlier session.
Opened(row) ==
    IF CanTransition(row.state, "start")
    THEN [row EXCEPT !.state = "in_progress",
                     !.opened = IF row.opened = 0 THEN armed ELSE row.opened]
    ELSE row

\* (slip: the clock stamped for the question after the one it opens)
AdvanceCommitClockAhead(h) ==
    /\ hostPc[h] = "advance"
    /\ survey' = [Opened(survey) EXCEPT !.cursor = hostNext[h], !.clock = hostNext[h] + 1]
    /\ surveyLock' = NoOne
    /\ hostPc' = [hostPc EXCEPT ![h] = "push"]
    /\ UNCHANGED <<armed, ttlOver, questions, input, inputLock, hostRow, hostNext, sweep, due,
                   clientVars, factVars>>

\* (slip: the connection goes back to the pool with the row still locked)
AdvanceCommitKeepsLock(h) ==
    /\ hostPc[h] = "advance"
    /\ survey' = [Opened(survey) EXCEPT !.cursor = hostNext[h], !.clock = hostNext[h]]
    /\ hostPc' = [hostPc EXCEPT ![h] = "push"]
    /\ UNCHANGED <<armed, ttlOver, questions, surveyLock, input, inputLock, hostRow, hostNext,
                   sweep, due, clientVars, factVars>>

\* advance_cursor on the opened row; the push follows the commit.
AdvanceCommit(h) ==
    /\ hostPc[h] = "advance"
    /\ survey' = [Opened(survey) EXCEPT !.cursor = hostNext[h], !.clock = hostNext[h]]
    /\ surveyLock' = NoOne
    /\ hostPc' = [hostPc EXCEPT ![h] = "push"]
    /\ UNCHANGED <<armed, ttlOver, questions, input, inputLock, hostRow, hostNext, sweep, due,
                   clientVars, factVars>>

\* The SessionAdvanced fact, recorded after the commit.
Push(h) ==
    /\ hostPc[h] = "push"
    /\ advanced' = [advanced EXCEPT ![<<hostRow[h].code, hostNext[h]>>] = Bump(@)]
    /\ screen' = <<hostRow[h].code, hostNext[h]>>
    /\ HostIdle(h)
    /\ UNCHANGED <<rowVars, surveyLock, input, inputLock, sweep, due, clientVars, started>>

-----------------------------------------------------------------------------
(* end_session: lock the survey row, update every running attendee's row    *)
(* (waiting for the ones other transactions hold), NULL the state, commit,  *)
(* then record SessionEnded.                                                *)

\* (slip: the survey read without FOR UPDATE)
EndLockPlainRead(h) ==
    /\ hostPc[h] = "idle"
    /\ CanTransition(survey.state, "end")
    /\ hostPc' = [hostPc EXCEPT ![h] = "end"]
    /\ hostRow' = [hostRow EXCEPT ![h].code = survey.code]
    /\ due' = {a \in Attempts : input[a] = "in_progress"}
    /\ UNCHANGED <<rowVars, surveyLock, input, inputLock, hostNext, sweep, clientVars, factVars>>

EndLock(h) ==
    /\ hostPc[h] = "idle"
    /\ FreeSurvey
    /\ CanTransition(survey.state, "end")
    /\ surveyLock' = h
    /\ hostPc' = [hostPc EXCEPT ![h] = "end"]
    /\ hostRow' = [hostRow EXCEPT ![h].code = survey.code]
    /\ due' = {a \in Attempts : input[a] = "in_progress"}
    /\ UNCHANGED <<rowVars, input, inputLock, hostNext, sweep, clientVars, factVars>>

\* bulk_done_attendees: one UPDATE over the rows its snapshot shows running.
EndScan(h) ==
    /\ hostPc[h] = "end"
    /\ hostPc' = [hostPc EXCEPT ![h] = "sweep"]
    /\ sweep' = {a \in Attempts : input[a] = "in_progress"}
    /\ UNCHANGED <<rowVars, surveyLock, input, inputLock, hostRow, hostNext, due,
                   clientVars, factVars>>

\* (slip: rows other transactions hold are skipped)
EndTakeSkipsLocked(h, a) ==
    /\ hostPc[h] = "sweep"
    /\ a \in sweep
    /\ sweep' = sweep \ {a}
    /\ inputLock' = IF input[a] = "in_progress" /\ FreeInput(a)
                    THEN [inputLock EXCEPT ![a] = h] ELSE inputLock
    /\ UNCHANGED <<rowVars, surveyLock, input, hostPc, hostRow, hostNext, due,
                   clientVars, factVars>>

\* (slip: a row that is no longer running is waited for)
EndTakeInsists(h, a) ==
    /\ hostPc[h] = "sweep"
    /\ a \in sweep
    /\ FreeInput(a)
    /\ input[a] = "in_progress"
    /\ sweep' = sweep \ {a}
    /\ inputLock' = [inputLock EXCEPT ![a] = h]
    /\ UNCHANGED <<rowVars, surveyLock, input, hostPc, hostRow, hostNext, due,
                   clientVars, factVars>>

\* The UPDATE reaches one row, and re-reads it once it has its lock.
EndTake(h, a) ==
    /\ hostPc[h] = "sweep"
    /\ a \in sweep
    /\ FreeInput(a)
    /\ sweep' = sweep \ {a}
    /\ inputLock' = IF input[a] = "in_progress" THEN [inputLock EXCEPT ![a] = h] ELSE inputLock
    /\ UNCHANGED <<rowVars, surveyLock, input, hostPc, hostRow, hostNext, due,
                   clientVars, factVars>>

\* (slip: the question clock is left on the row)
EndedRowKeepsClock == [survey EXCEPT !.state = "none"]

EndedRow == [survey EXCEPT !.state = "none", !.clock = 0]

EndCommit(h) ==
    /\ hostPc[h] = "sweep"
    /\ sweep = {}
    /\ input' = [a \in Attempts |-> IF inputLock[a] = h THEN "done" ELSE input[a]]
    /\ inputLock' = Unlocked(h)
    /\ survey' = EndedRow
    /\ surveyLock' = NoOne
    /\ hostPc' = [hostPc EXCEPT ![h] = "closing"]
    /\ due' = {}
    /\ UNCHANGED <<armed, ttlOver, questions, hostRow, hostNext, sweep, clientVars, factVars>>

\* The SessionEnded fact: it takes the attendee screens past the last question.
PushEnd(h) ==
    /\ hostPc[h] = "closing"
    /\ screen' = <<hostRow[h].code, NQ + 1>>
    /\ HostIdle(h)
    /\ UNCHANGED <<rowVars, surveyLock, input, inputLock, sweep, due, clientVars, advanced, started>>

-----------------------------------------------------------------------------
(* update_survey: reads the row without a lock, applies the patch and the   *)
(* clamps, and writes EVERY column back, the session columns included.      *)

EditRead(h) ==
    /\ hostPc[h] = "idle"
    /\ \E cert \in BOOLEAN :
          hostRow' = [hostRow EXCEPT ![h] = [survey EXCEPT !.certification = cert]]
    /\ hostPc' = [hostPc EXCEPT ![h] = "edit"]
    /\ UNCHANGED <<rowVars, surveyLock, input, inputLock, hostNext, sweep, due, clientVars, factVars>>

\* (slips: without the CHECK; without the trigger)
EditAllowedNoCheck(row)   == DeclaredMove(survey.state, row.state)
EditAllowedNoTrigger(row) == SessionCertificationDisjoint(row)

\* The full-column upsert; the trigger and the CHECK may refuse it.
EditAllowed(row) ==
    DeclaredMove(survey.state, row.state) /\ SessionCertificationDisjoint(row)

EditCommit(h) ==
    /\ hostPc[h] = "edit"
    /\ FreeSurvey
    /\ survey' = IF EditAllowed(hostRow[h]) THEN hostRow[h] ELSE survey
    /\ HostIdle(h)
    /\ UNCHANGED <<armed, ttlOver, questions, surveyLock, input, inputLock, sweep, due,
                   clientVars, factVars>>

\* A question is soft-deleted (the hard DELETE is refused mid-session only).
DeleteQuestion(q) ==
    /\ q \in questions
    /\ questions' = questions \ {q}
    /\ UNCHANGED <<survey, armed, ttlOver, surveyLock, input, inputLock, hostVars,
                   clientVars, factVars>>

-----------------------------------------------------------------------------
(* join_by_code: the code is checked on an unlocked read; the attempt row   *)
(* is inserted later, its foreign key waiting for a holder of the survey.   *)

JoinRead(c, a) ==
    /\ clientPc[c] = "idle"
    /\ input[a] = "absent"
    /\ \A d \in Clients : clientOn[d] # a
    /\ CodeLive
    /\ clientPc' = [clientPc EXCEPT ![c] = "join"]
    /\ clientOn' = [clientOn EXCEPT ![c] = a]
    /\ clientSaw' = [clientSaw EXCEPT ![c] = survey.state]
    /\ UNCHANGED <<rowVars, surveyLock, input, inputLock, hostVars, factVars>>

JoinCommit(c) ==
    /\ clientPc[c] = "join"
    /\ FreeSurvey
    /\ input' = [input EXCEPT ![clientOn[c]] =
                   IF clientSaw[c] = "in_progress" THEN "in_progress" ELSE "new"]
    /\ ClientIdle(c)
    /\ UNCHANGED <<rowVars, surveyLock, inputLock, hostVars, factVars>>

-----------------------------------------------------------------------------
(* The attempt verbs: the capability is verified in a transaction of its    *)
(* own, the verb runs in another.                                           *)

Verify(c, a, verb) ==
    /\ clientPc[c] = "idle"
    /\ input[a] \in {"new", "in_progress"}
    /\ clientPc' = [clientPc EXCEPT ![c] = verb]
    /\ clientOn' = [clientOn EXCEPT ![c] = a]
    /\ UNCHANGED <<rowVars, surveyLock, input, inputLock, hostVars, clientSaw, factVars>>

\* (slip: the UPDATE without its state condition)
BeginAnyState(c) ==
    LET a == clientOn[c] IN
    /\ clientPc[c] = "begin"
    /\ FreeInput(a)
    /\ input' = [input EXCEPT ![a] = "in_progress"]
    /\ ClientIdle(c)
    /\ UNCHANGED <<rowVars, surveyLock, inputLock, hostVars, factVars>>

\* begin: the conditional UPDATE new -> in_progress; zero rows changes nothing.
Begin(c) ==
    LET a == clientOn[c] IN
    /\ clientPc[c] = "begin"
    /\ FreeInput(a)
    /\ input' = IF input[a] = "new" THEN [input EXCEPT ![a] = "in_progress"] ELSE input
    /\ ClientIdle(c)
    /\ UNCHANGED <<rowVars, surveyLock, inputLock, hostVars, factVars>>

\* (slip: the attempt read without FOR UPDATE)
SubmitPlainRead(c) ==
    LET a == clientOn[c] IN
    /\ clientPc[c] = "submit"
    /\ \/ /\ input[a] = "done"
          /\ ClientIdle(c)
       \/ /\ input[a] # "done"
          /\ \E step \in {"insert", "settle"} : clientPc' = [clientPc EXCEPT ![c] = step]
          /\ UNCHANGED <<clientOn, clientSaw>>
    /\ UNCHANGED <<rowVars, surveyLock, input, inputLock, hostVars, factVars>>

\* submit_answer: SELECT ... FOR UPDATE on the attempt; a finished one refuses.
\* An open one will either insert lines or settle without (an overwrite in
\* place, or a refusal that commits).
SubmitLock(c) ==
    LET a == clientOn[c] IN
    /\ clientPc[c] = "submit"
    /\ FreeInput(a)
    /\ \/ /\ input[a] = "done"
          /\ ClientIdle(c)
          /\ UNCHANGED inputLock
       \/ /\ input[a] # "done"
          /\ \E step \in {"insert", "settle"} : clientPc' = [clientPc EXCEPT ![c] = step]
          /\ inputLock' = [inputLock EXCEPT ![a] = c]
          /\ UNCHANGED <<clientOn, clientSaw>>
    /\ UNCHANGED <<rowVars, surveyLock, input, hostVars, factVars>>

\* The commit of a submit: the lazy begin and the lines land together.  A line
\* insert takes the survey row's KEY SHARE, which waits for a FOR UPDATE holder.
SubmitCommit(c) ==
    /\ \/ clientPc[c] = "insert" /\ FreeSurvey
       \/ clientPc[c] = "settle"
    /\ input' = [input EXCEPT ![clientOn[c]] = "in_progress"]
    /\ inputLock' = Unlocked(c)
    /\ ClientIdle(c)
    /\ UNCHANGED <<rowVars, surveyLock, hostVars, factVars>>

\* finish: an unlocked read of the state it will act on ...
FinishRead(c) ==
    /\ clientPc[c] = "finish"
    /\ clientPc' = [clientPc EXCEPT ![c] = "mark_done"]
    /\ clientSaw' = [clientSaw EXCEPT ![c] = input[clientOn[c]]]
    /\ UNCHANGED <<rowVars, surveyLock, input, inputLock, hostVars, clientOn, factVars>>

\* ... then the conditional UPDATEs.  A begin that lost its race refuses and
\* rolls back; a done transition of zero rows refuses.
FinishCommit(c) ==
    LET a == clientOn[c]
        finishes == (clientSaw[c] = "new" /\ input[a] = "new")
                    \/ (clientSaw[c] # "new" /\ input[a] = "in_progress")
    IN
    /\ clientPc[c] = "mark_done"
    /\ FreeInput(a)
    /\ input' = IF finishes THEN [input EXCEPT ![a] = "done"] ELSE input
    /\ ClientIdle(c)
    /\ UNCHANGED <<rowVars, surveyLock, inputLock, hostVars, factVars>>

-----------------------------------------------------------------------------
(* Rollbacks: a worker dies or loses its connection, or PostgreSQL breaks a *)
(* wait cycle by aborting one of its transactions.                          *)

HostAbort(h) ==
    /\ hostPc[h] # "idle"
    /\ HostIdle(h)
    /\ surveyLock' = IF surveyLock = h THEN NoOne ELSE surveyLock
    /\ inputLock' = Unlocked(h)
    /\ sweep' = IF hostPc[h] = "sweep" THEN {} ELSE sweep
    /\ due' = IF hostPc[h] \in {"end", "sweep"} THEN {} ELSE due
    /\ UNCHANGED <<rowVars, input, clientVars, factVars>>

ClientAbort(c) ==
    /\ clientPc[c] # "idle"
    /\ ClientIdle(c)
    /\ inputLock' = Unlocked(c)
    /\ UNCHANGED <<rowVars, surveyLock, input, hostVars, factVars>>

\* The end waits for an attempt row whose submit waits for the survey row.
WaitCycle(h, c) ==
    /\ hostPc[h] = "sweep"
    /\ clientPc[c] = "insert"
    /\ clientOn[c] \in sweep

DeadlockDetected(h, c) ==
    /\ WaitCycle(h, c)
    /\ HostAbort(h) \/ ClientAbort(c)

-----------------------------------------------------------------------------
HostVerb(h) ==
    \/ ArmCheck(h) \/ ArmCommit(h)
    \/ AdvanceLock(h) \/ AdvanceCommit(h) \/ Push(h)
    \/ EndLock(h) \/ EndScan(h) \/ (\E a \in Attempts : EndTake(h, a)) \/ EndCommit(h) \/ PushEnd(h)
    \/ HostAbort(h)

ClientVerb(c) ==
    \/ \E a \in Attempts : JoinRead(c, a)
    \/ JoinCommit(c)
    \/ \E a \in Attempts, verb \in {"begin", "submit", "finish"} : Verify(c, a, verb)
    \/ Begin(c) \/ SubmitLock(c) \/ SubmitCommit(c) \/ FinishRead(c) \/ FinishCommit(c)
    \/ ClientAbort(c)

SettingsEdit(h) == EditRead(h) \/ EditCommit(h)

VerbNext ==
    \/ \E h \in Hosts : HostVerb(h)
    \/ \E c \in Clients : ClientVerb(c)
    \/ \E h \in Hosts, c \in Clients : DeadlockDetected(h, c)
    \/ TtlRunsOut
    \/ \E q \in 1..NQ : DeleteQuestion(q)

Next == VerbNext \/ \E h \in Hosts : SettingsEdit(h)

\* The session verbs alone, and together with the settings update.
VerbSpec == Init /\ [][VerbNext]_vars
Spec     == Init /\ [][Next]_vars

\* A transaction in flight is carried on; a row wait is served in queue order;
\* a wait cycle is detected.  Nobody is obliged to start a verb.
Fairness ==
    /\ \A h \in Hosts :
          /\ WF_vars(AdvanceCommit(h)) /\ WF_vars(EndScan(h)) /\ WF_vars(EndCommit(h))
          /\ \A a \in Attempts : SF_vars(EndTake(h, a))
    /\ \A c \in Clients :
          /\ SF_vars(SubmitCommit(c)) /\ SF_vars(JoinCommit(c))
          /\ SF_vars(Begin(c)) /\ SF_vars(SubmitLock(c))
          /\ WF_vars(FinishRead(c)) /\ SF_vars(FinishCommit(c))
    /\ \A h \in Hosts, c \in Clients : WF_vars(DeadlockDetected(h, c))

FairSpec == VerbSpec /\ Fairness

-----------------------------------------------------------------------------
(* Properties *)

\* The clock on the row is the live question's own, an armed session starts
\* before the first question, and a running one has a question and a start
\* stamp: the four session columns never come from different moments.
SessionColumnsAgree(row) ==
    /\ row.state = "ready" => row.cursor = 0 /\ row.clock = 0 /\ row.code # 0
    /\ row.state = "in_progress" =>
          row.cursor # 0 /\ row.clock = row.cursor /\ row.opened # 0 /\ row.code # 0
    /\ row.state = "none" => row.clock = 0

ColumnsAgree == SessionColumnsAgree(survey)

\* A survey that awards a certification never carries a live session, whatever
\* settings updates and arms were in flight together (arm_session's refusal and
\* the survey_session_certification_disjoint CHECK).
CertificationDisjoint == SessionCertificationDisjoint(survey)

\* While a submit is writing lines, its attempt cannot turn done under it: the
\* finish and the session-end sweep wait for the row submit_answer locked.
NoLinesAfterDone ==
    \A c \in Clients :
        clientPc[c] \in {"insert", "settle"} => input[clientOn[c]] \in {"new", "in_progress"}

\* Each question of a session is pushed to the audience at most once, however
\* many hosts advance at the same time (advance_session's row lock).
PushedOnce == \A f \in DOMAIN advanced : advanced[f] <= 1

\* No question reaches the audience before the session's start did.
StartPushedFirst == \A f \in DOMAIN advanced : advanced[f] > 0 => started[f[1]] > 0

InputRank(s) == CASE s = "absent" -> 0 [] s = "new" -> 1 [] s = "in_progress" -> 2 [] s = "done" -> 3

\* An attempt only moves forward, and a finished one stays finished, whichever of
\* begin, submit, finish and the session-end sweep reaches its row last.
AttemptsOnlyAdvance ==
    [][\A a \in Attempts : InputRank(input'[a]) >= InputRank(input[a])]_input

\* The session state only makes the moves the machine file declares, even when
\* a settings update writes a row it read long ago (the transition trigger).
DeclaredMovesOnly == [][DeclaredMove(survey.state, survey'.state)]_survey

\* Every attendee who was running when the end took the survey row is finished
\* when the end commits: none is skipped because a submit held its row.
EndFinishesRunning ==
    [][\A h \in Hosts : hostPc[h] = "sweep" /\ hostPc'[h] = "closing" =>
           \A a \in due : input'[a] = "done"]_vars

\* Only an arm brings a session to life: once ended, a session and its code stay
\* dead (survey_session_repository.rs: every mutation of the session columns is a
\* row-locked conditional write; a NULL session_state invalidates the code).
EndedStaysEnded ==
    [][survey.state = "none" /\ survey'.state # "none" => armed' = armed + 1]_survey

\* The facts reach the audience in the order the session produced them: the
\* screen never goes back to an earlier question or an earlier session
\* (event_sink.rs: facts are ordered hints).
PushesInOrder ==
    [][\/ screen'[1] > screen[1]
       \/ screen'[1] = screen[1] /\ screen'[2] >= screen[2]]_screen

\* What makes these inductive.  A host past its lock holds the survey row, which
\* then still carries the session it found and its target is ahead of the cursor:
SurveyHeld ==
    \A h \in Hosts :
        /\ hostPc[h] \in {"advance", "end", "sweep"} => surveyLock = h /\ survey.state # "none"
        /\ hostPc[h] = "advance" => hostNext[h] \in (survey.cursor + 1)..NQ

\* the row, and every copy of it an update_survey is about to write back, agrees
\* with itself and, if it carries a session, follows an arm;
RowSound(row) == SessionColumnsAgree(row) /\ (row.state # "none" => armed # 0)
RowsSound == RowSound(survey) /\ \A h \in Hosts : hostPc[h] = "edit" => RowSound(hostRow[h])

\* a client at work is at work on a row that is there, a joining one on a row of its
\* own that is not there yet;
ClientsPlaced ==
    /\ \A c \in Clients : clientPc[c] # "idle" => clientOn[c] \in Attempts
    /\ \A c \in Clients : clientPc[c] \notin {"idle", "join"} => input[clientOn[c]] # "absent"
    /\ \A c, d \in Clients :
          clientPc[c] = "join" =>
              input[clientOn[c]] = "absent" /\ (clientOn[d] = clientOn[c] => d = c)

\* a submit past its lock holds an open row, a sweep holds running ones;
InputHeld ==
    /\ \A c \in Clients :
          clientPc[c] \in {"insert", "settle"} =>
              inputLock[clientOn[c]] = c /\ input[clientOn[c]] \in {"new", "in_progress"}
    /\ \A h \in Hosts, a \in Attempts : inputLock[a] = h => input[a] = "in_progress"

\* and an attendee the end is due to finish is running or finished already, and
\* in the sweep, still to come or held.
DueCovered ==
    \A h \in Hosts : hostPc[h] \in {"end", "sweep"} =>
        \A a \in due :
            /\ input[a] \in {"in_progress", "done"}
            /\ hostPc[h] = "sweep" => a \in sweep \/ inputLock[a] = h \/ input[a] = "done"

\* Together: whoever is past a lock still finds under it what it took it for, however
\* the host verbs, the settings update and the attendees' verbs interleave.
SessionInv ==
    /\ TypeOK
    /\ SurveyHeld
    /\ RowsSound
    /\ CertificationDisjoint
    /\ ClientsPlaced
    /\ InputHeld
    /\ DueCovered

\* Under the session verbs alone the row keeps the code of the last arm, and
\* whoever advances it advances that session.
CodeStands ==
    /\ survey.code = armed
    /\ \A h \in Hosts : hostPc[h] = "advance" => hostRow[h].code = armed

\* A question the row has come to: not of a later arm, not past the cursor of the last.
Reached(f) == f[1] <= armed /\ (f[1] = armed => f[2] <= survey.cursor)

\* What a host still has to push after its commit.
Owes(h) == <<hostRow[h].code, hostNext[h]>>

\* A question is pushed or owed only once the cursor came to it; nobody owes what was
\* pushed, and no two hosts owe the same.
PushesOwed ==
    /\ \A f \in DOMAIN advanced : advanced[f] > 0 => Reached(f)
    /\ \A h \in Hosts : hostPc[h] = "push" => Reached(Owes(h)) /\ advanced[Owes(h)] = 0
    /\ \A g, h \in Hosts :
          hostPc[g] = "push" /\ hostPc[h] = "push" /\ Owes(g) = Owes(h) => g = h

\* The start of a session is recorded before it runs, and before anyone is past the
\* lock that takes it to its first question.
StartRecorded ==
    /\ survey.state = "in_progress" => started[armed] > 0
    /\ \A h \in Hosts : hostPc[h] \in {"advance", "push"} => started[hostRow[h].code] > 0

\* Together: however many hosts advance at once and wherever one of them dies between
\* its commit and its push, an arm, a question and a push never meet twice (the
\* session verbs alone: a settings update may put an older row back).
VerbInv ==
    /\ SessionInv
    /\ CodeStands
    /\ PushesOwed
    /\ StartRecorded
    /\ PushedOnce
    /\ StartPushedFirst

SM == INSTANCE SessionMachine
        WITH state <- survey.state, cursor <- survey.cursor, session <- armed

\* The locks make each session verb one step of the abstract session: however the
\* transactions interleave, the survey row goes through armings, advances to a later
\* question and ends, one at a time.
SessionRefinement == SM!Spec

\* An end that took the survey row gives it back, although the rows it sweeps can be
\* held by submits that are waiting for the survey row.
EndReturns ==
    \A h \in Hosts : hostPc[h] \in {"end", "sweep"} ~> hostPc[h] \notin {"end", "sweep"}

\* A submit that is inserting lines returns, although the survey row its foreign key
\* waits for can be held by an end that waits for its attempt.
SubmitReturns ==
    \A c \in Clients : clientPc[c] = "insert" ~> clientPc[c] # "insert"
=============================================================================
