---------------------------- MODULE AttemptPool -----------------------------
(***************************************************************************)
(* The attempt pool of one signed-in taker on one attempts-limited public  *)
(* survey: public_start under the advisory lock, the taker's verbs under a *)
(* capability link, the link's expiry, and the officer verbs that act on   *)
(* the same rows (rotate_token, resend).                                   *)
(*                                                                         *)
(* Under READ COMMITTED each statement of public_start reads what has been *)
(* committed by then, so each is a step; a link is verified in one         *)
(* transaction and acted on in the next.  A link is abstracted to whether  *)
(* token_expires_at lies ahead, and rotation to pushing it ahead again.    *)
(***************************************************************************)
EXTENDS Naturals, FiniteSets

CONSTANTS Attempts,    \* the attempt rows the pool may come to hold
          Starters,    \* concurrent start requests of the taker
          Clients,     \* concurrent requests under the taker's links
          Limit,       \* attempts_limit
          NoOne        \* no request, no row

ASSUME PoolAssumption ==
    /\ IsFiniteSet(Attempts)
    /\ Limit \in Nat
    /\ NoOne \notin Attempts \cup Starters

VARIABLES
    input,       \* state of each attempt row, "absent" before the mint
    live,        \* rows whose token_expires_at lies ahead
    emailed,     \* rows that carry the taker's email
    gate,        \* the start holding pg_advisory_xact_lock
    startPc,     \* each start's next statement
    clientOn,    \* the row each verified request is about to act on
    resending,   \* the row a resend passed its own gate for
    standing     \* history: rows a start minted whose link never ran out

startVars == <<gate, startPc>>
vars == <<input, live, emailed, startVars, clientOn, resending, standing>>

-----------------------------------------------------------------------------
OpenStates  == {"new", "in_progress"}
InputStates == {"absent", "done"} \cup OpenStates
StartSteps  == {"idle", "look", "count", "mint"}

TypeOK ==
    /\ input \in [Attempts -> InputStates]
    /\ live \in SUBSET Attempts
    /\ emailed \in SUBSET Attempts
    /\ gate \in Starters \cup {NoOne}
    /\ startPc \in [Starters -> StartSteps]
    /\ clientOn \in [Clients -> Attempts \cup {NoOne}]
    /\ resending \in Attempts \cup {NoOne}
    /\ standing \in SUBSET Attempts

Init ==
    /\ input = [a \in Attempts |-> "absent"]
    /\ live = {}
    /\ emailed = {}
    /\ gate = NoOne
    /\ startPc = [s \in Starters |-> "idle"]
    /\ clientOn = [c \in Clients |-> NoOne]
    /\ resending = NoOne
    /\ standing = {}

\* open_public_attempt: not finished, and the link still valid.
OpenPublic == {a \in Attempts : input[a] \in OpenStates /\ a \in live}

\* user_done_count.
Done == {a \in Attempts : input[a] = "done"}

\* pool_count as the resend asks it: the finished rows that share the prior row's
\* email; a row without an email and a partner has an empty pool.
EmailPool(prior) == IF prior \in emailed THEN Done \cap emailed ELSE {}

-----------------------------------------------------------------------------
(* public_start *)

\* (slip: the advisory lock is not taken)
StartLockNoGate(s) ==
    /\ startPc[s] = "idle"
    /\ startPc' = [startPc EXCEPT ![s] = "look"]
    /\ UNCHANGED <<input, live, emailed, gate, clientOn, resending, standing>>

StartLock(s) ==
    /\ startPc[s] = "idle"
    /\ gate = NoOne
    /\ gate' = s
    /\ startPc' = [startPc EXCEPT ![s] = "look"]
    /\ UNCHANGED <<input, live, emailed, clientOn, resending, standing>>

\* The transaction ends, and the advisory lock with it.
Leave(s) ==
    /\ startPc' = [startPc EXCEPT ![s] = "idle"]
    /\ gate' = NoOne

\* (slip: only a begun attempt is resumed)
StartLookBegunOnly(s) ==
    /\ startPc[s] = "look"
    /\ \/ /\ \E a \in OpenPublic : input[a] = "in_progress"
          /\ Leave(s)
       \/ /\ \A a \in OpenPublic : input[a] # "in_progress"
          /\ startPc' = [startPc EXCEPT ![s] = "count"]
          /\ UNCHANGED gate
    /\ UNCHANGED <<input, live, emailed, clientOn, resending, standing>>

\* An open attempt is resumed: its link is handed out again, nothing is minted.
\* The SQL now() is the transaction's start, so a row whose link ran out while the
\* start waited for the lock may be resumed too.
StartLook(s) ==
    /\ startPc[s] = "look"
    /\ \/ /\ \E a \in Attempts : input[a] \in OpenStates
          /\ Leave(s)
       \/ /\ OpenPublic = {}
          /\ startPc' = [startPc EXCEPT ![s] = "count"]
          /\ UNCHANGED gate
    /\ UNCHANGED <<input, live, emailed, clientOn, resending, standing>>

\* (slip: the comparison lets one start too many through)
StartCountOffByOne(s) ==
    /\ startPc[s] = "count"
    /\ \/ /\ Cardinality(Done) > Limit
          /\ Leave(s)
       \/ /\ Cardinality(Done) <= Limit
          /\ startPc' = [startPc EXCEPT ![s] = "mint"]
          /\ UNCHANGED gate
    /\ UNCHANGED <<input, live, emailed, clientOn, resending, standing>>

StartCount(s) ==
    /\ startPc[s] = "count"
    /\ \/ /\ Cardinality(Done) >= Limit
          /\ Leave(s)
       \/ /\ Cardinality(Done) < Limit
          /\ startPc' = [startPc EXCEPT ![s] = "mint"]
          /\ UNCHANGED gate
    /\ UNCHANGED <<input, live, emailed, clientOn, resending, standing>>

\* The new row: the caller may or may not have typed an email.
StartMint(s) ==
    /\ startPc[s] = "mint"
    /\ \E a \in Attempts :
          /\ input[a] = "absent"
          /\ input' = [input EXCEPT ![a] = "new"]
          /\ live' = live \cup {a}
          /\ standing' = standing \cup {a}
          /\ \E typed \in {{}, {a}} : emailed' = emailed \cup typed
    /\ Leave(s)
    /\ UNCHANGED <<clientOn, resending>>

\* The request dies between two statements; the lock goes with its session.
StartAbort(s) ==
    /\ startPc[s] # "idle"
    /\ Leave(s)
    /\ UNCHANGED <<input, live, emailed, clientOn, resending, standing>>

-----------------------------------------------------------------------------
(* The taker's requests under a link *)

\* verify_capability: the link has not run out and the row is not finished.
Verify(c, a) ==
    /\ clientOn[c] = NoOne
    /\ a \in OpenPublic
    /\ clientOn' = [clientOn EXCEPT ![c] = a]
    /\ UNCHANGED <<input, live, emailed, startVars, resending, standing>>

\* begin, and the lazy begin of a submit: new -> in_progress.
Begin(c) ==
    /\ clientOn[c] # NoOne
    /\ input' = IF input[clientOn[c]] = "new"
                THEN [input EXCEPT ![clientOn[c]] = "in_progress"] ELSE input
    /\ clientOn' = [clientOn EXCEPT ![c] = NoOne]
    /\ UNCHANGED <<live, emailed, startVars, resending, standing>>

\* finish: an open row is done, whatever became of its link since; a finished one
\* refuses, and so does one that began under the finish (input unchanged).
Finish(c) ==
    /\ clientOn[c] # NoOne
    /\ input' \in {input, [input EXCEPT ![clientOn[c]] = "done"]}
    /\ clientOn' = [clientOn EXCEPT ![c] = NoOne]
    /\ UNCHANGED <<live, emailed, startVars, resending, standing>>

-----------------------------------------------------------------------------
(* Time and the officer *)

\* token_expires_at passes before the attempt is finished.
LinkRunsOut(a) ==
    /\ a \in OpenPublic
    /\ live' = live \ {a}
    /\ standing' = standing \ {a}
    /\ UNCHANGED <<input, emailed, startVars, clientOn, resending>>

\* rotate_token: any unfinished row, lapsed ones included.
RotateToken(a) ==
    /\ input[a] \in OpenStates
    /\ live' = live \cup {a}
    /\ UNCHANGED <<input, emailed, startVars, clientOn, resending, standing>>

\* resend: has_attempts_left asks the email pool, never the taker's own.
ResendCheck(prior) ==
    /\ resending = NoOne
    /\ input[prior] # "absent"
    /\ Cardinality(EmailPool(prior)) < Limit
    /\ resending' = prior
    /\ UNCHANGED <<input, live, emailed, startVars, clientOn, standing>>

\* The copy carries the prior row's user and email, and takes no advisory lock.
ResendMint ==
    /\ resending # NoOne
    /\ \E a \in Attempts :
          /\ input[a] = "absent"
          /\ input' = [input EXCEPT ![a] = "new"]
          /\ live' = live \cup {a}
          /\ emailed' = IF resending \in emailed THEN emailed \cup {a} ELSE emailed
    /\ resending' = NoOne
    /\ UNCHANGED <<startVars, clientOn, standing>>

-----------------------------------------------------------------------------
Start(s) == StartLock(s) \/ StartLook(s) \/ StartCount(s) \/ StartMint(s) \/ StartAbort(s)

Next ==
    \/ \E s \in Starters : Start(s)
    \/ \E c \in Clients : (\E a \in Attempts : Verify(c, a)) \/ Begin(c) \/ Finish(c)
    \/ \E a \in Attempts : LinkRunsOut(a) \/ RotateToken(a) \/ ResendCheck(a)
    \/ ResendMint

Spec == Init /\ [][Next]_vars

-----------------------------------------------------------------------------
(* Properties *)

DoneStanding == Done \cap standing
OpenStanding == {a \in standing : input[a] \in OpenStates}

\* However many starts race, the taker has at most one open attempt that a start
\* minted and whose link has held since: the others resume it (the advisory lock
\* of public_start).
OneOpenAttempt == \A a, b \in OpenStanding : a = b

\* At most attempts_limit of the attempts the start gate minted can finish, as
\* long as their links held until then, whatever lapses, rotations and resends
\* happen to the others.
StandingWithinLimit == Cardinality(DoneStanding) <= Limit

\* At most attempts_limit attempts can finish (SPEC.md 2.6).
FinishedWithinLimit == Cardinality(Done) <= Limit

\* What makes it inductive: a start past its lock is alone, one past its look saw
\* no open attempt that still counts, and an open attempt or a start about to mint
\* leaves room for one more to finish.
GateHeld == \A s \in Starters : startPc[s] # "idle" => gate = s

StandingRows ==
    \A a \in standing : input[a] # "absent" /\ (input[a] \in OpenStates => a \in live)

LookedAlone == \A s \in Starters : startPc[s] \in {"count", "mint"} => OpenStanding = {}

RoomLeft ==
    (OpenStanding # {} \/ \E s \in Starters : startPc[s] = "mint")
        => Cardinality(DoneStanding) < Limit

\* Together: the advisory lock keeps what public_start read true until it mints,
\* whatever the taker's requests and the officer verbs do meanwhile.
PoolInv ==
    /\ TypeOK
    /\ GateHeld
    /\ StandingRows
    /\ LookedAlone
    /\ OneOpenAttempt
    /\ RoomLeft
    /\ StandingWithinLimit
=============================================================================
