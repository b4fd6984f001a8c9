---------------------------- MODULE CodeLockout -----------------------------
(***************************************************************************)
(* The book of failed session-code guesses, shared by the join and the     *)
(* preview of a code.  The book is a table behind a mutex; a request takes *)
(* the mutex once per key to check, looks the code up in the database with *)
(* the mutex released, and takes it once per key again to count a miss or, *)
(* on a join that got in, to strike the entry.  Other requests run in      *)
(* between, and a join judges and stamps by the clock it read on arrival.  *)
(*                                                                         *)
(* Time is a whole number of units; a request is given up by its client    *)
(* after MaxAge of them.                                                   *)
(***************************************************************************)
EXTENDS Integers

CONSTANTS Guessers,       \* requests that may be under way at once
          Identities,     \* keys "id:..." of the book
          Addresses,      \* keys "ip:..." of the book
          Nobody,         \* stands for no key
          MaxFailures,    \* CODE_MAX_FAILURES
          LockBase,       \* CODE_LOCK_BASE_SECONDS
          LockCap,        \* CODE_LOCK_CAP_SECONDS
          Spacing,        \* CODE_ATTEMPT_SPACING
          MaxAge,         \* bound: how long a request may be under way
          MaxClock        \* bound: when the clock stops

ASSUME LockoutAssumption ==
    /\ Identities \cap Addresses = {}
    /\ Nobody \notin Identities \cup Addresses
    /\ MaxFailures \in Nat \ {0}
    /\ LockBase \in Nat \ {0}
    /\ LockCap \in Nat \ {0}
    /\ Spacing \in Nat
    /\ MaxAge \in Nat
    /\ MaxClock \in Nat

VARIABLES
    clock,       \* the time
    book,        \* the table: failures, end of the lock, last attempt, per key
    guessPc,     \* a request's step
    guessWho,    \* the identity a join is judged by; a preview has none
    guessFrom,   \* the address a request is judged by
    guessKey,    \* the one of the two the current step visits next
    guessAt,     \* the time it arrived
    owed         \* history: latest end of a lock any counted miss has called for

bookVars    == <<book, owed>>
guessVars   == <<guessPc, guessWho, guessFrom, guessKey, guessAt>>
lockoutVars == <<clock, bookVars, guessVars>>

-----------------------------------------------------------------------------
(* Types *)

Keys       == Identities \cup Addresses
GuessSteps == {"idle", "checking", "looking", "missed", "proved"}

\* A key without an entry has no failures.
Entry   == [failures : Nat, until : Nat, last : Nat]
NoEntry == [failures |-> 0, until |-> 0, last |-> 0]

IsJoin(w) == guessWho[w] # Nobody

LockoutTypeOK ==
    /\ clock \in Nat
    /\ book \in [Keys -> Entry]
    /\ guessPc \in [Guessers -> GuessSteps]
    /\ guessWho \in [Guessers -> Identities \cup {Nobody}]
    /\ guessFrom \in [Guessers -> Addresses \cup {Nobody}]
    /\ guessKey \in [Guessers -> Keys \cup {Nobody}]
    /\ guessAt \in [Guessers -> Nat]
    /\ owed \in [Keys -> Nat]

LockoutInit ==
    /\ clock = 0
    /\ book = [k \in Keys |-> NoEntry]
    /\ guessPc = [w \in Guessers |-> "idle"]
    /\ guessWho = [w \in Guessers |-> Nobody]
    /\ guessFrom = [w \in Guessers |-> Nobody]
    /\ guessKey = [w \in Guessers |-> Nobody]
    /\ guessAt = [w \in Guessers |-> 0]
    /\ owed = [k \in Keys |-> 0]

-----------------------------------------------------------------------------
(* Helpers *)

\* 1 << n, for the shifts the code allows.
Shifted == <<1, 2, 4, 8, 16, 32, 64, 128, 256, 512, 1024, 2048, 4096, 8192,
             16384, 32768, 65536>>

Least(m, n) == IF m < n THEN m ELSE n

\* lockout_until, as a duration: none before MaxFailures, then doubling to the cap.
LockTime(f) ==
    IF f < MaxFailures THEN 0
    ELSE Least(LockCap, LockBase * Shifted[1 + Least(f - MaxFailures, 16)])

\* The time a request goes by: a join's arrival, a preview's present.
TimeOf(w) == IF IsJoin(w) THEN guessAt[w] ELSE clock

\* (slip: only the spacing is asked for)
ClearedSpacingOnly(entry, now) == entry.failures > 0 => now - entry.last >= Spacing

\* CodeFailureBook::check lets a request with this time pass.
Cleared(entry, now) ==
    entry.failures > 0 => now >= entry.until /\ now - entry.last >= Spacing

\* (slip: the miss is counted, the lock in force is left as it was)
MissedOnceUnlocked(entry, now) ==
    [entry EXCEPT !.failures = @ + 1, !.last = now,
                  !.until = IF @ > 0 THEN @ ELSE now + LockTime(entry.failures + 1)]

\* CodeFailureBook::register_failure.
MissedOnce(entry, now) ==
    LET f == entry.failures + 1
    IN  [failures |-> f, last |-> now,
         until |-> IF f < MaxFailures THEN 0 ELSE now + LockTime(f)]

Later(m, n) == IF m < n THEN n ELSE m

GuessOver(w) ==
    /\ guessPc' = [guessPc EXCEPT ![w] = "idle"]
    /\ guessWho' = [guessWho EXCEPT ![w] = Nobody]
    /\ guessFrom' = [guessFrom EXCEPT ![w] = Nobody]
    /\ guessKey' = [guessKey EXCEPT ![w] = Nobody]
    /\ guessAt' = [guessAt EXCEPT ![w] = 0]

\* A join visits its identity and then its address, a preview only its address.
FirstKey(w) == IF IsJoin(w) THEN guessWho[w] ELSE guessFrom[w]
AtLastKey(w) == guessKey[w] = guessFrom[w]

VisitAddress(w) ==
    /\ ~AtLastKey(w)
    /\ guessKey' = [guessKey EXCEPT ![w] = guessFrom[w]]
    /\ UNCHANGED <<guessPc, guessWho, guessFrom, guessAt>>

\* Enter the step `pc`, which visits every key of the request again.
VisitKeys(w, pc) ==
    /\ guessPc' = [guessPc EXCEPT ![w] = pc]
    /\ guessKey' = [guessKey EXCEPT ![w] = FirstKey(w)]
    /\ UNCHANGED <<guessWho, guessFrom, guessAt>>

-----------------------------------------------------------------------------
(* Actions *)

\* join_by_code and session_preview read the clock and start on their keys.
Arrive(w) ==
    /\ guessPc[w] = "idle"
    /\ guessPc' = [guessPc EXCEPT ![w] = "checking"]
    /\ \E who \in Identities \cup {Nobody}, from \in Addresses :
          /\ guessWho' = [guessWho EXCEPT ![w] = who]
          /\ guessFrom' = [guessFrom EXCEPT ![w] = from]
          /\ guessKey' = [guessKey EXCEPT ![w] = IF who # Nobody THEN who ELSE from]
    /\ guessAt' = [guessAt EXCEPT ![w] = clock]
    /\ UNCHANGED <<clock, bookVars>>

\* One check of one key lets the request go on to its next key or its lookup.
PassCheck(w) ==
    /\ guessPc[w] = "checking"
    /\ Cleared(book[guessKey[w]], TimeOf(w))
    /\ \/ VisitAddress(w)
       \/ /\ AtLastKey(w)
          /\ guessPc' = [guessPc EXCEPT ![w] = "looking"]
          /\ guessKey' = [guessKey EXCEPT ![w] = Nobody]
          /\ UNCHANGED <<guessWho, guessFrom, guessAt>>
    /\ UNCHANGED <<clock, bookVars>>

\* One check of one key ends the request; that is not counted.
FailCheck(w) ==
    /\ guessPc[w] = "checking"
    /\ ~Cleared(book[guessKey[w]], TimeOf(w))
    /\ GuessOver(w)
    /\ UNCHANGED <<clock, bookVars>>

\* The lookup in the database: no such code, or one that is no longer live.
LookAndMiss(w) ==
    /\ guessPc[w] = "looking"
    /\ VisitKeys(w, "missed")
    /\ UNCHANGED <<clock, bookVars>>

\* The code is live and the join's attempt row is committed.
LookAndJoin(w) ==
    /\ guessPc[w] = "looking"
    /\ IsJoin(w)
    /\ VisitKeys(w, "proved")
    /\ UNCHANGED <<clock, bookVars>>

\* A preview of a live code, a database error, a client that went away: the
\* book is left alone.
LookAndLeave(w) ==
    /\ guessPc[w] = "looking"
    /\ GuessOver(w)
    /\ UNCHANGED <<clock, bookVars>>

\* register_failure for one key.
CountMiss(w) ==
    /\ guessPc[w] = "missed"
    /\ LET k == guessKey[w]
       IN  /\ book' = [book EXCEPT ![k] = MissedOnce(@, TimeOf(w))]
           /\ owed' = [owed EXCEPT ![k] =
                          Later(@, TimeOf(w) + LockTime(book[k].failures + 1))]
    /\ VisitAddress(w) \/ (AtLastKey(w) /\ GuessOver(w))
    /\ UNCHANGED clock

\* reset for one key.
Strike(w) ==
    /\ guessPc[w] = "proved"
    /\ book' = [book EXCEPT ![guessKey[w]] = NoEntry]
    /\ owed' = [owed EXCEPT ![guessKey[w]] = 0]
    /\ VisitAddress(w) \/ (AtLastKey(w) /\ GuessOver(w))
    /\ UNCHANGED clock

\* The book lives in memory: a restart forgets it and ends every request.
Restart ==
    /\ book' = [k \in Keys |-> NoEntry]
    /\ owed' = [k \in Keys |-> 0]
    /\ guessPc' = [w \in Guessers |-> "idle"]
    /\ guessWho' = [w \in Guessers |-> Nobody]
    /\ guessFrom' = [w \in Guessers |-> Nobody]
    /\ guessKey' = [w \in Guessers |-> Nobody]
    /\ guessAt' = [w \in Guessers |-> 0]
    /\ UNCHANGED clock

Tick ==
    /\ clock < MaxClock
    /\ \A w \in Guessers : guessPc[w] # "idle" => clock < guessAt[w] + MaxAge
    /\ clock' = clock + 1
    /\ UNCHANGED <<bookVars, guessVars>>

LockoutNext ==
    \/ \E w \in Guessers : \/ Arrive(w) \/ PassCheck(w) \/ FailCheck(w)
                           \/ LookAndMiss(w) \/ LookAndJoin(w) \/ LookAndLeave(w)
                           \/ CountMiss(w) \/ Strike(w)
    \/ Restart
    \/ Tick

LockoutSpec == LockoutInit /\ [][LockoutNext]_lockoutVars

-----------------------------------------------------------------------------
(* Properties *)

\* A request has a key to visit exactly while it visits keys, and is no older
\* than MaxAge.
GuessesSound == \A w \in Guessers :
    /\ guessPc[w] \in {"checking", "missed", "proved"} => guessKey[w] \in Keys
    /\ guessPc[w] # "idle" =>
          /\ guessFrom[w] \in Addresses
          /\ guessAt[w] <= clock
          /\ clock <= guessAt[w] + MaxAge

\* No counted miss has called for a lock that ends later than a miss now would
\* bring about, and a key without failures is owed nothing.
OwedBounded == \A k \in Keys :
    /\ owed[k] <= clock + LockTime(book[k].failures)
    /\ book[k].failures < MaxFailures => book[k].until = 0

\* Misses are counted with the clock of requests that arrived at different
\* times, each overwriting the lock the one before it set.  Whatever their order,
\* the lock in force never ends earlier than the latest end any of them called
\* for, less the age a request may reach (CodeFailureBook::register_failure under
\* join_by_code's early clock).
LockKept == \A k \in Keys :
    book[k].failures >= MaxFailures => book[k].until + MaxAge >= owed[k]

LockoutInv == LockoutTypeOK /\ GuessesSound /\ OwedBounded /\ LockKept

\* A request passes the check of a key only when every lock that the misses
\* counted so far have called for is over, give or take the age of a request:
\* parallel guesses cannot wear the lockout down (CodeFailureBook::check).
GuessWaitsOutLocks == [][\A w \in Guessers :
    (guessPc[w] = "checking" /\ guessPc'[w] # "idle" /\ guessKey'[w] # guessKey[w])
        => TimeOf(w) + MaxAge >= owed[guessKey[w]]]_lockoutVars
=============================================================================
