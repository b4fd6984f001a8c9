---------------------------- MODULE EntryProofs -----------------------------
(***************************************************************************)
(* What opens an attempt to somebody from outside: the codes, whose        *)
(* failed-guess book holds for any number of requests, keys and units of   *)
(* time, and the links and invites, for any number of rows, requests,      *)
(* recipients and deadlines.                                               *)
(***************************************************************************)
EXTENDS CodeLockout, AttemptLink, TLAPS

-----------------------------------------------------------------------------
(* The failed-guess book: lemmas about the escalation *)

\* The shifts double from one to the next, and are at least one.
LEMMA ShiftedGrows ==
    /\ \A n \in 1..17 : Shifted[n] \in Nat \ {0}
    /\ \A m, n \in 1..17 : m <= n => Shifted[m] <= Shifted[n]
BY DEF Shifted

\* A further failure never calls for a shorter lock (lockout_until): the shift
\* stops at its widest and the product at the cap.
LEMMA LockTimeGrows ==
    ASSUME NEW f \in Nat
    PROVE  /\ LockTime(f) \in Nat
           /\ LockTime(f) <= LockTime(f + 1)
           /\ f < MaxFailures => LockTime(f) = 0
<1> DEFINE s(n) == 1 + Least(n - MaxFailures, 16)
<1>1. ASSUME NEW n \in Nat, n >= MaxFailures
      PROVE  s(n) \in 1..17
  BY <1>1, LockoutAssumption DEF Least
<1>2. ASSUME NEW n \in Nat
      PROVE  LockTime(n) \in Nat
  <2>1. CASE n < MaxFailures
    BY <2>1 DEF LockTime
  <2>2. CASE n >= MaxFailures
    <3>1. Shifted[s(n)] \in Nat
      BY <1>1, <2>2, ShiftedGrows
    <3>2. LockBase * Shifted[s(n)] \in Nat
      BY <3>1, LockoutAssumption
    <3> QED
      BY <2>2, <3>2, LockoutAssumption DEF LockTime, Least
  <2> QED
    BY <2>1, <2>2, LockoutAssumption
<1>3. LockTime(f) <= LockTime(f + 1)
  <2>1. CASE f < MaxFailures
    BY <2>1, <1>2 DEF LockTime
  <2>2. CASE f >= MaxFailures
    <3>1. /\ s(f) \in 1..17
          /\ s(f + 1) \in 1..17
          /\ s(f) <= s(f + 1)
      BY <1>1, <2>2, LockoutAssumption DEF Least
    <3>2. Shifted[s(f)] \in Nat /\ Shifted[s(f + 1)] \in Nat
          /\ Shifted[s(f)] <= Shifted[s(f + 1)]
      BY <3>1, ShiftedGrows
    <3>3. LockBase * Shifted[s(f)] <= LockBase * Shifted[s(f + 1)]
          /\ LockBase * Shifted[s(f)] \in Nat /\ LockBase * Shifted[s(f + 1)] \in Nat
      BY <3>2, LockoutAssumption
    <3>4. /\ LockTime(f) = Least(LockCap, LockBase * Shifted[s(f)])
          /\ LockTime(f + 1) = Least(LockCap, LockBase * Shifted[s(f + 1)])
      BY <2>2, LockoutAssumption DEF LockTime
    <3> HIDE DEF s
    <3> QED
      BY <3>3, <3>4, LockoutAssumption DEF Least
  <2> QED
    BY <2>1, <2>2, LockoutAssumption
<1> QED
  BY <1>2, <1>3 DEF LockTime

-----------------------------------------------------------------------------
(* Types and the shape of a request *)

\* Moving on to the address, or ending, keeps the variables of a request typed.
LEMMA RequestTypes ==
    ASSUME LockoutTypeOK, GuessesSound, NEW w \in Guessers,
           guessPc[w] # "idle", VisitAddress(w) \/ GuessOver(w)
    PROVE  /\ guessPc' \in [Guessers -> GuessSteps]
           /\ guessWho' \in [Guessers -> Identities \cup {Nobody}]
           /\ guessFrom' \in [Guessers -> Addresses \cup {Nobody}]
           /\ guessKey' \in [Guessers -> Keys \cup {Nobody}]
           /\ guessAt' \in [Guessers -> Nat]
<1> USE DEF LockoutTypeOK, GuessSteps
<1>1. CASE VisitAddress(w)
  <2>1. guessFrom[w] \in Keys
    BY DEF GuessesSound, Keys
  <2> QED
    BY <1>1, <2>1 DEF VisitAddress
<1>2. CASE GuessOver(w)
  BY <1>2 DEF GuessOver
<1> QED
  BY <1>1, <1>2

\* Every step keeps the variables in their types.
LEMMA LockoutTypeStep == LockoutTypeOK /\ GuessesSound /\ [LockoutNext]_lockoutVars => LockoutTypeOK'
<1> SUFFICES ASSUME LockoutTypeOK, GuessesSound, [LockoutNext]_lockoutVars
             PROVE  LockoutTypeOK'
  OBVIOUS
<1> USE DEF LockoutTypeOK, GuessSteps
<1>1. ASSUME NEW w \in Guessers, Arrive(w) PROVE LockoutTypeOK'
  BY <1>1 DEF Arrive, bookVars, Keys
<1>2. ASSUME NEW w \in Guessers, PassCheck(w) PROVE LockoutTypeOK'
  <2>1. CASE VisitAddress(w)
    BY <1>2, <2>1, RequestTypes DEF PassCheck, bookVars
  <2>2. CASE ~VisitAddress(w)
    BY <1>2, <2>2 DEF PassCheck, bookVars
  <2> QED
    BY <2>1, <2>2
<1>3. ASSUME NEW w \in Guessers, FailCheck(w) \/ LookAndLeave(w) PROVE LockoutTypeOK'
  BY <1>3, RequestTypes DEF FailCheck, LookAndLeave, bookVars
<1>4. ASSUME NEW w \in Guessers, LookAndMiss(w) \/ LookAndJoin(w) PROVE LockoutTypeOK'
  BY <1>4 DEF LookAndMiss, LookAndJoin, VisitKeys, FirstKey, IsJoin, GuessesSound, Keys, bookVars
<1>5. ASSUME NEW w \in Guessers, CountMiss(w) PROVE LockoutTypeOK'
  <2> DEFINE k == guessKey[w]
  <2>1. k \in Keys
    BY <1>5 DEF CountMiss, GuessesSound
  <2>2. TimeOf(w) \in Nat
    BY DEF TimeOf
  <2>3. book[k] \in Entry /\ book[k].failures \in Nat /\ owed[k] \in Nat
    BY <2>1 DEF Entry
  <2>4. LockTime(book[k].failures + 1) \in Nat
    <3>1. book[k].failures + 1 \in Nat
      BY <2>3
    <3> QED
      BY <3>1, LockTimeGrows
  <2>5. MissedOnce(book[k], TimeOf(w)) \in Entry
    BY <2>2, <2>3, <2>4 DEF MissedOnce, Entry
  <2>6. Later(owed[k], TimeOf(w) + LockTime(book[k].failures + 1)) \in Nat
    BY <2>2, <2>3, <2>4 DEF Later
  <2>7. /\ book' = [book EXCEPT ![k] = MissedOnce(book[k], TimeOf(w))]
        /\ owed' = [owed EXCEPT ![k] =
                        Later(owed[k], TimeOf(w) + LockTime(book[k].failures + 1))]
        /\ clock' = clock
    BY <1>5 DEF CountMiss
  <2>8. book' \in [Keys -> Entry] /\ owed' \in [Keys -> Nat]
    BY <2>1, <2>5, <2>6, <2>7
  <2> QED
    BY <1>5, <2>7, <2>8, RequestTypes DEF CountMiss
<1>6. ASSUME NEW w \in Guessers, Strike(w) PROVE LockoutTypeOK'
  <2>1. book' \in [Keys -> Entry] /\ owed' \in [Keys -> Nat]
    BY <1>6 DEF Strike, NoEntry, Entry
  <2> QED
    BY <1>6, <2>1, RequestTypes DEF Strike
<1>7. CASE Restart
  BY <1>7 DEF Restart, NoEntry, Entry
<1>8. CASE Tick
  BY <1>8 DEF Tick, bookVars, guessVars
<1>9. CASE UNCHANGED lockoutVars
  BY <1>9 DEF lockoutVars, bookVars, guessVars
<1> QED
  BY <1>1, <1>2, <1>3, <1>4, <1>5, <1>6, <1>7, <1>8, <1>9 DEF LockoutNext

\* A request under way keeps its shape and its age.
LEMMA GuessesStep ==
    LockoutTypeOK /\ GuessesSound /\ [LockoutNext]_lockoutVars => GuessesSound'
<1> SUFFICES ASSUME LockoutTypeOK, GuessesSound, [LockoutNext]_lockoutVars
             PROVE  GuessesSound'
  OBVIOUS
<1> USE LockoutAssumption DEF LockoutTypeOK, GuessSteps
<1>1. ASSUME NEW w \in Guessers, Arrive(w) PROVE GuessesSound'
  BY <1>1 DEF Arrive, GuessesSound, bookVars, Keys
<1>2. ASSUME NEW w \in Guessers, VisitAddress(w) \/ GuessOver(w), guessPc[w] # "idle",
             clock' = clock
      PROVE  GuessesSound'
  BY <1>2 DEF VisitAddress, GuessOver, GuessesSound, Keys
<1>3. ASSUME NEW w \in Guessers, PassCheck(w) PROVE GuessesSound'
  <2>1. CASE VisitAddress(w)
    BY <1>2, <1>3, <2>1 DEF PassCheck
  <2>2. CASE ~VisitAddress(w)
    BY <1>3, <2>2 DEF PassCheck, GuessesSound
  <2> QED
    BY <2>1, <2>2
<1>4. ASSUME NEW w \in Guessers, LookAndMiss(w) \/ LookAndJoin(w) PROVE GuessesSound'
  BY <1>4 DEF LookAndMiss, LookAndJoin, VisitKeys, FirstKey, IsJoin, GuessesSound, Keys
<1>5. ASSUME NEW w \in Guessers, FailCheck(w) \/ LookAndLeave(w) \/ CountMiss(w) \/ Strike(w)
      PROVE  GuessesSound'
  BY <1>2, <1>5 DEF FailCheck, LookAndLeave, CountMiss, Strike
<1>6. CASE Restart
  BY <1>6 DEF Restart, GuessesSound
<1>7. CASE Tick
  BY <1>7 DEF Tick, GuessesSound, guessVars
<1>8. CASE UNCHANGED lockoutVars
  BY <1>8 DEF lockoutVars, bookVars, guessVars, GuessesSound
<1> QED
  BY <1>1, <1>3, <1>4, <1>5, <1>6, <1>7, <1>8 DEF LockoutNext

-----------------------------------------------------------------------------
(* The lock that misses have called for, and the lock in force *)

\* What one counted miss does to its key.
LEMMA MissKeepsLock ==
    ASSUME LockoutInv, NEW w \in Guessers, CountMiss(w)
    PROVE  (OwedBounded /\ LockKept)'
<1> DEFINE k == guessKey[w]
           f == book[k].failures
           t == TimeOf(w)
<1>1. k \in Keys /\ f \in Nat /\ owed[k] \in Nat /\ book[k] \in Entry
  <2>1. k \in Keys
    BY DEF CountMiss, LockoutInv, GuessesSound
  <2> QED
    BY <2>1 DEF LockoutInv, LockoutTypeOK, Entry
<1>2. t \in Nat /\ t <= clock /\ clock <= t + MaxAge /\ clock \in Nat
  BY LockoutAssumption DEF CountMiss, LockoutInv, LockoutTypeOK, GuessesSound, TimeOf
<1>3. /\ LockTime(f) \in Nat
      /\ LockTime(f + 1) \in Nat
      /\ LockTime(f) <= LockTime(f + 1)
      /\ f + 1 < MaxFailures => LockTime(f + 1) = 0
  BY <1>1, LockTimeGrows
<1>4. owed[k] <= clock + LockTime(f)
  BY <1>1 DEF LockoutInv, OwedBounded
<1>5. /\ book' = [book EXCEPT ![k] = MissedOnce(book[k], t)]
      /\ owed' = [owed EXCEPT ![k] = Later(owed[k], t + LockTime(f + 1))]
      /\ clock' = clock
  BY DEF CountMiss
<1>6. /\ book'[k].failures = f + 1
      /\ book'[k].until = IF f + 1 < MaxFailures THEN 0 ELSE t + LockTime(f + 1)
      /\ owed'[k] = Later(owed[k], t + LockTime(f + 1))
  BY <1>1, <1>5 DEF MissedOnce, LockoutInv, LockoutTypeOK
<1>7. \A j \in Keys : j # k => book'[j] = book[j] /\ owed'[j] = owed[j]
  BY <1>1, <1>5 DEF LockoutInv, LockoutTypeOK
<1> HIDE DEF k, f, t
<1>8. /\ owed'[k] <= clock' + LockTime(book'[k].failures)
      /\ book'[k].failures < MaxFailures => book'[k].until = 0
      /\ book'[k].failures >= MaxFailures => book'[k].until + MaxAge >= owed'[k]
  BY <1>1, <1>2, <1>3, <1>4, <1>5, <1>6, LockoutAssumption DEF Later
<1>9. \A j \in Keys : j # k =>
          /\ owed'[j] <= clock' + LockTime(book'[j].failures)
          /\ book'[j].failures < MaxFailures => book'[j].until = 0
          /\ book'[j].failures >= MaxFailures => book'[j].until + MaxAge >= owed'[j]
  BY <1>5, <1>7 DEF LockoutInv, OwedBounded, LockKept
<1>10. /\ LockKept' = \A j \in Keys : book'[j].failures >= MaxFailures =>
                                          book'[j].until + MaxAge >= owed'[j]
       /\ OwedBounded' = \A j \in Keys :
              /\ owed'[j] <= clock' + LockTime(book'[j].failures)
              /\ book'[j].failures < MaxFailures => book'[j].until = 0
  BY DEF LockKept, OwedBounded, LockTime
<1> QED
  BY <1>8, <1>9, <1>10

\* Every step keeps the bounds between the locks called for and the lock in force.
LEMMA LockStep == LockoutInv /\ [LockoutNext]_lockoutVars => (OwedBounded /\ LockKept)'
<1> SUFFICES ASSUME LockoutInv, [LockoutNext]_lockoutVars
             PROVE  (OwedBounded /\ LockKept)'
  OBVIOUS
<1> DEFINE Fresh(j) == /\ owed'[j] = 0
                       /\ book'[j].failures = 0
                       /\ book'[j].until = 0
           Same(j) == book'[j] = book[j] /\ owed'[j] = owed[j]
<1>1. SUFFICES ASSUME clock' \in Nat, clock' >= clock, \A j \in Keys : Fresh(j) \/ Same(j)
               PROVE  (OwedBounded /\ LockKept)'
  <2>1. ASSUME NEW w \in Guessers, CountMiss(w) PROVE (OwedBounded /\ LockKept)'
    BY <2>1, MissKeepsLock
  <2>2. ASSUME NEW w \in Guessers, Strike(w)
        PROVE  clock' = clock /\ \A j \in Keys : Fresh(j) \/ Same(j)
    BY <2>2 DEF Strike, NoEntry, LockoutInv, LockoutTypeOK
  <2>3. ASSUME NEW w \in Guessers,
               \/ Arrive(w) \/ PassCheck(w) \/ FailCheck(w) \/ LookAndMiss(w) \/ LookAndJoin(w) \/ LookAndLeave(w)
        PROVE  clock' = clock /\ \A j \in Keys : Same(j)
    BY <2>3 DEF Arrive, PassCheck, FailCheck, LookAndMiss, LookAndJoin, LookAndLeave, bookVars
  <2>4. CASE Restart
    BY <2>4, <1>1 DEF Restart, NoEntry, LockoutInv, LockoutTypeOK
  <2>5. CASE Tick
    BY <2>5, <1>1 DEF Tick, bookVars, LockoutInv, LockoutTypeOK
  <2>6. CASE UNCHANGED lockoutVars
    BY <2>6, <1>1 DEF lockoutVars, bookVars, LockoutInv, LockoutTypeOK
  <2>7. clock \in Nat
    BY DEF LockoutInv, LockoutTypeOK
  <2> QED
    BY <2>1, <2>2, <2>3, <2>4, <2>5, <2>6, <2>7, <1>1 DEF LockoutNext
<1>2. ASSUME NEW j \in Keys
      PROVE  /\ owed'[j] <= clock' + LockTime(book'[j].failures)
             /\ book'[j].failures < MaxFailures => book'[j].until = 0
             /\ book'[j].failures >= MaxFailures => book'[j].until + MaxAge >= owed'[j]
  <2>1. /\ owed[j] \in Nat /\ book[j].failures \in Nat /\ clock \in Nat
        /\ LockTime(book[j].failures) \in Nat /\ LockTime(0) \in Nat
    BY LockTimeGrows DEF LockoutInv, LockoutTypeOK, Entry
  <2>2. CASE Fresh(j)
    BY <1>1, <2>1, <2>2, LockoutAssumption
  <2>3. CASE Same(j)
    <3>1. /\ owed[j] <= clock + LockTime(book[j].failures)
          /\ book[j].failures < MaxFailures => book[j].until = 0
          /\ book[j].failures >= MaxFailures => book[j].until + MaxAge >= owed[j]
      BY DEF LockoutInv, OwedBounded, LockKept
    <3> QED
      BY <1>1, <2>1, <2>3, <3>1
  <2> QED
    BY <1>1, <2>2, <2>3
<1>3. /\ LockKept' = \A j \in Keys : book'[j].failures >= MaxFailures =>
                                         book'[j].until + MaxAge >= owed'[j]
      /\ OwedBounded' = \A j \in Keys :
             /\ owed'[j] <= clock' + LockTime(book'[j].failures)
             /\ book'[j].failures < MaxFailures => book'[j].until = 0
  BY DEF LockKept, OwedBounded, LockTime
<1> QED
  BY <1>2, <1>3

-----------------------------------------------------------------------------
(* Theorems *)

\* The book starts empty and nobody is under way.
LEMMA LockoutStarts == LockoutInit => LockoutInv
<1> SUFFICES ASSUME LockoutInit PROVE LockoutInv
  OBVIOUS
<1>1. LockoutTypeOK /\ GuessesSound
  BY DEF LockoutInit, LockoutTypeOK, GuessesSound, GuessSteps, NoEntry, Entry
<1>2. LockTime(0) \in Nat
  BY LockTimeGrows
<1>3. OwedBounded /\ LockKept
  BY <1>2, LockoutAssumption DEF LockoutInit, OwedBounded, LockKept, NoEntry
<1> QED
  BY <1>1, <1>3 DEF LockoutInv

\* The inductive invariant of the failed-guess book.
THEOREM LockoutInvariance == LockoutSpec => []LockoutInv
<1>1. LockoutInv /\ [LockoutNext]_lockoutVars => LockoutInv'
  BY LockoutTypeStep, GuessesStep, LockStep DEF LockoutInv
<1> QED
  BY LockoutStarts, <1>1, PTL DEF LockoutSpec

\* Whatever the order in which parallel misses are counted, the lock in force
\* never ends earlier than the latest any of them called for, less the age a
\* request may reach (register_failure with the clock join_by_code read first).
THEOREM LocksKept == LockoutSpec => []LockKept
<1>1. LockoutInv => LockKept
  BY DEF LockoutInv
<1> QED
  BY LockoutInvariance, <1>1, PTL

\* A request passes the check of a key only once the locks its counted misses
\* called for are over, up to the age a request may reach (CodeFailureBook::check).
THEOREM GuessesWaitOutLocks == LockoutSpec => GuessWaitsOutLocks
<1> DEFINE Waits == \A w \in Guessers :
        (guessPc[w] = "checking" /\ guessPc'[w] # "idle" /\ guessKey'[w] # guessKey[w])
            => TimeOf(w) + MaxAge >= owed[guessKey[w]]
<1>1. LockoutInv /\ [LockoutNext]_lockoutVars => Waits
  <2> SUFFICES ASSUME LockoutInv, [LockoutNext]_lockoutVars, NEW w \in Guessers,
                      guessPc[w] = "checking", guessPc'[w] # "idle",
                      guessKey'[w] # guessKey[w]
               PROVE  TimeOf(w) + MaxAge >= owed[guessKey[w]]
    OBVIOUS
  <2> DEFINE k == guessKey[w]
  <2>1. PassCheck(w)
    <3>1. ASSUME NEW v \in Guessers, v # w,
                 \/ Arrive(v) \/ PassCheck(v) \/ FailCheck(v) \/ LookAndMiss(v) \/ LookAndJoin(v)
                 \/ LookAndLeave(v) \/ CountMiss(v) \/ Strike(v)
          PROVE  guessKey'[w] = guessKey[w]
      BY <3>1 DEF Arrive, PassCheck, FailCheck, LookAndMiss, LookAndJoin, LookAndLeave,
                  CountMiss, Strike, VisitAddress, VisitKeys, GuessOver, LockoutInv, LockoutTypeOK
    <3>2. ~Restart /\ ~FailCheck(w)
      BY DEF Restart, FailCheck, GuessOver, LockoutInv, LockoutTypeOK
    <3>3. ~Tick /\ ~UNCHANGED lockoutVars
      BY DEF Tick, lockoutVars, guessVars
    <3>4. ~(Arrive(w) \/ LookAndMiss(w) \/ LookAndJoin(w) \/ LookAndLeave(w) \/ CountMiss(w)
            \/ Strike(w))
      BY DEF Arrive, LookAndMiss, LookAndJoin, LookAndLeave, CountMiss, Strike
    <3> QED
      BY <3>1, <3>2, <3>3, <3>4 DEF LockoutNext
  <2>2. Cleared(book[k], TimeOf(w))
    BY <2>1 DEF PassCheck
  <2>3. /\ k \in Keys /\ book[k].failures \in Nat /\ owed[k] \in Nat
        /\ book[k].until \in Nat
    <3>1. k \in Keys
      BY DEF LockoutInv, GuessesSound
    <3> QED
      BY <3>1 DEF LockoutInv, LockoutTypeOK, Entry
  <2>4. TimeOf(w) \in Nat /\ clock <= TimeOf(w) + MaxAge /\ clock \in Nat
    BY LockoutAssumption DEF LockoutInv, LockoutTypeOK, GuessesSound, TimeOf
  <2>5. CASE book[k].failures >= MaxFailures
    <3>1. book[k].until + MaxAge >= owed[k] /\ TimeOf(w) >= book[k].until
      BY <2>2, <2>3, <2>5, LockoutAssumption DEF LockoutInv, LockKept, Cleared
    <3> QED
      BY <3>1, <2>3, <2>4, LockoutAssumption
  <2>6. CASE book[k].failures < MaxFailures
    <3>1. owed[k] <= clock + LockTime(book[k].failures) /\ LockTime(book[k].failures) = 0
      BY <2>3, <2>6, LockTimeGrows DEF LockoutInv, OwedBounded
    <3> QED
      BY <3>1, <2>3, <2>4, LockoutAssumption
  <2> QED
    BY <2>3, <2>5, <2>6, LockoutAssumption
<1>2. GuessWaitsOutLocks <=> [][Waits]_lockoutVars
  BY DEF GuessWaitsOutLocks
<1> QED
  BY LockoutInvariance, <1>1, <1>2, PTL DEF LockoutSpec

-----------------------------------------------------------------------------
(* Links and invites: lemmas about rows *)

\* What a renewal changes on a row.
LEMMA RenewedFacts ==
    ASSUME NEW row \in LinkRecord, NEW n \in Nat
    PROVE  /\ Renewed(row, n) \in LinkRecord
           /\ Renewed(row, n).nonce = n
           /\ Renewed(row, n).state = row.state
           /\ Renewed(row, n).deadline = row.deadline
BY DEF Renewed, LinkRecord, LinkStates

\* What a begin changes on a row.
LEMMA BegunFacts ==
    ASSUME NEW row \in LinkRecord, NEW limit \in Limits \cup {NoLimit}
    PROVE  /\ Begun(row, limit) \in LinkRecord
           /\ Begun(row, limit).nonce = row.nonce
           /\ Begun(row, limit).state = "in_progress"
           /\ row.deadline # NoLimit => Begun(row, limit).deadline = row.deadline
BY DEF Begun, LinkRecord, LinkStates

\* What the terminal edge changes on a row.
LEMMA FinishedFacts ==
    ASSUME NEW row \in LinkRecord
    PROVE  /\ Finished(row) \in LinkRecord
           /\ Finished(row).nonce = row.nonce
           /\ Finished(row).state = "done"
           /\ Finished(row).deadline = row.deadline
BY DEF Finished, LinkRecord, LinkStates

\* What a minted row is.
LEMMA MintFacts ==
    ASSUME NEW who \in SUBSET Invited, NEW state \in {"new", "in_progress"},
           NEW limit \in Limits \cup {NoLimit}
    PROVE  /\ Minted(who, state, limit) \in LinkRecord
           /\ Minted(who, state, limit).nonce = 1
           /\ IsOpen(Minted(who, state, limit))
BY DEF Minted, LinkRecord, LinkStates, IsOpen

\* A row that does not exist.
LEMMA NoRecordFacts ==
    /\ NoRecord \in LinkRecord /\ NoLink \in Link /\ NoOne \in Serving
    /\ NoRecord.state = "absent" /\ NoRecord.nonce = 0
BY DEF NoRecord, LinkRecord, LinkStates, NoLink, Link, NoOne, Serving

\* A row is open or absent or finished.
LEMMA OpenStates ==
    ASSUME NEW row \in LinkRecord
    PROVE  /\ IsOpen(row) <=> row.state \notin {"absent", "done"}
           /\ row.state \in LinkStates
           /\ row.nonce \in Nat
BY DEF LinkRecord, LinkStates, IsOpen

\* A row as the invite sees it is a row; one it has written is open.
LEMMA InBatchFacts ==
    ASSUME LinkTypeOK, NEW a \in LinkRows
    PROVE  /\ InBatch(a) \in LinkRecord
           /\ a \in batchHeld => InBatch(a) = batchRow[a]
           /\ a \notin batchHeld => InBatch(a) = linkRow[a]
           /\ issued[a] \in Nat /\ issued[a] + 1 \in Nat
BY DEF InBatch, LinkTypeOK

\* A row as the invite sees it after a step.
LEMMA InBatchNext ==
    ASSUME NEW a
    PROVE  InBatch(a)' = IF a \in batchHeld' THEN batchRow'[a] ELSE linkRow'[a]
BY DEF InBatch

\* The end of a request keeps the requests typed.
LEMMA RequestOverTypes ==
    ASSUME LinkTypeOK, NEW t \in LinkRequests, RequestOver(t)
    PROVE  /\ reqPc' \in [LinkRequests -> {"idle", "asked", "verified", "finishing"}]
           /\ reqLink' \in [LinkRequests -> Link]
           /\ reqSaw' \in [LinkRequests -> LinkStates]
           /\ reqDead' \in [LinkRequests -> BOOLEAN]
BY NoRecordFacts DEF LinkTypeOK, RequestOver, LinkStates

\* The end of an invite keeps its state typed.
LEMMA BatchEmptyTypes ==
    ASSUME NEW pc \in {"idle", "answered"}, BatchEmpty(pc)
    PROVE  /\ batchPc' \in {"idle", "open", "serving", "answered"}
           /\ batchMode' \in {"new", "resend"}
           /\ batchLeft' \in SUBSET Invited
           /\ batchAt' \in Serving
           /\ batchRow' \in [LinkRows -> LinkRecord]
           /\ batchHeld' \in SUBSET LinkRows
           /\ batchTold' \in [Invited -> Link]
           /\ batchFailed' \in SUBSET Invited
BY NoRecordFacts DEF BatchEmpty

-----------------------------------------------------------------------------
(* Types *)

\* Every step keeps the variables in their types.
LEMMA LinkTypeStep == LinkTypeOK /\ RequestsSound /\ TellsSound /\ [LinkNext]_linkVars => LinkTypeOK'
<1> SUFFICES ASSUME LinkTypeOK, RequestsSound, TellsSound, [LinkNext]_linkVars
             PROVE  LinkTypeOK'
  OBVIOUS
<1> USE DEF rowVars, reqVars, batchVars
<1>1. ASSUME NEW a \in LinkRows, Mint(a) PROVE LinkTypeOK'
  <2>1. PICK who \in SUBSET Invited, state \in {"new", "in_progress"}, limit \in Limits \cup {NoLimit} :
            linkRow' = [linkRow EXCEPT ![a] = Minted(who, state, limit)]
    BY <1>1 DEF Mint
  <2>2. Minted(who, state, limit) \in LinkRecord
    BY MintFacts
  <2> QED
    BY <1>1, <2>1, <2>2 DEF Mint, LinkTypeOK
<1>2. ASSUME NEW a \in LinkRows, Rotate(a) PROVE LinkTypeOK'
  <2>1. issued[a] + 1 \in Nat /\ linkRow[a] \in LinkRecord
    BY DEF LinkTypeOK
  <2>2. Renewed(linkRow[a], issued[a] + 1) \in LinkRecord
    BY <2>1, RenewedFacts
  <2> QED
    BY <1>2, <2>1, <2>2 DEF Rotate, LinkTypeOK
<1>3. ASSUME NEW a \in LinkRows, Sweep(a) PROVE LinkTypeOK'
  <2>1. Finished(linkRow[a]) \in LinkRecord
    <3>1. linkRow[a] \in LinkRecord
      BY DEF LinkTypeOK
    <3> QED
      BY <3>1, FinishedFacts
  <2> QED
    BY <1>3, <2>1 DEF Sweep, LinkTypeOK
<1>4. ASSUME NEW t \in LinkRequests, Ask(t) PROVE LinkTypeOK'
  BY <1>4, LinkAssumption DEF Ask, LinkTypeOK, Link, Dead
<1>5. ASSUME NEW t \in LinkRequests, VerifyLink(t) \/ FinishLook(t) PROVE LinkTypeOK'
  <2>1. CASE VerifyLink(t)
    BY <2>1 DEF VerifyLink, LinkTypeOK
  <2>2. CASE FinishLook(t)
    <3>1. linkRow[reqLink[t].row].state \in LinkStates
      BY <2>2 DEF FinishLook, RequestsSound, LinkTypeOK, LinkRecord
    <3> QED
      BY <2>2, <3>1 DEF FinishLook, LinkTypeOK
  <2> QED
    BY <1>5, <2>1, <2>2
<1>6. ASSUME NEW t \in LinkRequests, BeginUnder(t) PROVE LinkTypeOK'
  <2> DEFINE a == reqLink[t].row
  <2>1. a \in LinkRows /\ linkRow[a] \in LinkRecord
    BY <1>6 DEF BeginUnder, RequestsSound, LinkTypeOK
  <2>2. linkRow' \in [LinkRows -> LinkRecord]
    <3>1. CASE UNCHANGED linkRow
      BY <3>1 DEF LinkTypeOK
    <3>2. ASSUME NEW limit \in Limits \cup {NoLimit},
                 linkRow' = [linkRow EXCEPT ![a] = Begun(@, limit)]
          PROVE  linkRow' \in [LinkRows -> LinkRecord]
      <4>1. Begun(linkRow[a], limit) \in LinkRecord
        BY <2>1, BegunFacts
      <4> QED
        BY <2>1, <3>2, <4>1 DEF LinkTypeOK
    <3> QED
      BY <1>6, <3>1, <3>2 DEF BeginUnder
  <2> QED
    BY <1>6, <2>2, RequestOverTypes DEF BeginUnder, LinkTypeOK
<1>7. ASSUME NEW t \in LinkRequests, FinishWrite(t) PROVE LinkTypeOK'
  <2> DEFINE a == reqLink[t].row
             row == IF linkRow[a].state = "new" THEN Begun(linkRow[a], NoLimit) ELSE linkRow[a]
  <2>1. a \in LinkRows /\ linkRow[a] \in LinkRecord
    BY <1>7 DEF FinishWrite, RequestsSound, LinkTypeOK
  <2>2. row \in LinkRecord
    BY <2>1, BegunFacts
  <2>3. Finished(row) \in LinkRecord
    BY <2>2, FinishedFacts
  <2>4. linkRow' = linkRow \/ linkRow' = [linkRow EXCEPT ![a] = Finished(row)]
    BY <1>7, <2>1 DEF FinishWrite, LinkTypeOK
  <2>5. linkRow' \in [LinkRows -> LinkRecord]
    BY <2>1, <2>3, <2>4 DEF LinkTypeOK
  <2> QED
    BY <1>7, <2>5, RequestOverTypes DEF FinishWrite, LinkTypeOK
<1>8. ASSUME NEW t \in LinkRequests, LeaveRequest(t) PROVE LinkTypeOK'
  BY <1>8, RequestOverTypes DEF LeaveRequest, LinkTypeOK
<1>9. CASE OpenBatch
  BY <1>9 DEF OpenBatch, LinkTypeOK
<1>10. ASSUME NEW r \in Invited, TakeRecipient(r) PROVE LinkTypeOK'
  BY <1>10 DEF TakeRecipient, LinkTypeOK, Serving
<1>11. CASE RenewPrior
  <2> DEFINE p == batchAt.prior
  <2>1. p \in LinkRows /\ batchAt.who \in Invited
    BY <1>11 DEF RenewPrior, TellsSound, LinkTypeOK, Serving
  <2>2. /\ InBatch(p) \in LinkRecord /\ InBatch(p).nonce \in Nat
        /\ issued[p] + 1 \in Nat
    BY <2>1, InBatchFacts, OpenStates
  <2>3. /\ Renewed(InBatch(p), issued[p] + 1) \in LinkRecord
        /\ [row |-> p, nonce |-> issued[p] + 1] \in Link
        /\ [row |-> p, nonce |-> InBatch(p).nonce] \in Link
    BY <2>1, <2>2, RenewedFacts DEF Link
  <2> QED
    BY <1>11, <2>1, <2>2, <2>3, NoRecordFacts DEF RenewPrior, Serve, LinkTypeOK
<1>12. ASSUME NEW a \in LinkRows, MintInvited(a) PROVE LinkTypeOK'
  <2>1. batchAt.who \in Invited
    BY <1>12 DEF MintInvited, TellsSound
  <2>2. \A who \in Carried(batchAt.who), limit \in Limits \cup {NoLimit} :
            Minted(who, "new", limit) \in LinkRecord
    BY MintFacts DEF Carried
  <2>3. [row |-> a, nonce |-> 1] \in Link
    BY DEF Link
  <2> QED
    BY <1>12, <2>1, <2>2, <2>3, NoRecordFacts DEF MintInvited, Serve, LinkTypeOK
<1>13. CASE MintFails
  BY <1>13, NoRecordFacts DEF MintFails, LinkTypeOK, TellsSound
<1>14. CASE CommitBatch
  <2>1. linkRow' \in [LinkRows -> LinkRecord]
    BY <1>14 DEF CommitBatch, InBatch, LinkTypeOK
  <2> QED
    BY <1>14, <2>1, BatchEmptyTypes DEF CommitBatch, LinkTypeOK
<1>15. CASE LoseBatch
  BY <1>15, BatchEmptyTypes DEF LoseBatch, LinkTypeOK
<1>16. CASE UNCHANGED linkVars
  BY <1>16 DEF linkVars, LinkTypeOK
<1> QED
  BY <1>1, <1>2, <1>3, <1>4, <1>5, <1>6, <1>7, <1>8, <1>9, <1>10, <1>11, <1>12, <1>13, <1>14,
     <1>15, <1>16 DEF LinkNext
-----------------------------------------------------------------------------
(* What a step does to the rows *)

RowsSame == linkRow' = linkRow /\ issued' = issued
HeldSame == batchRow' = batchRow /\ batchHeld' = batchHeld

\* A new row is committed.
RowMinted(a) ==
    /\ issued[a] = 0
    /\ \E who \in SUBSET Invited, state \in {"new", "in_progress"}, limit \in Limits \cup {NoLimit} :
          linkRow' = [linkRow EXCEPT ![a] = Minted(who, state, limit)]
    /\ issued' = [issued EXCEPT ![a] = 1]
    /\ HeldSame

\* The link of an open row is replaced.
RowRotated(a) ==
    /\ IsOpen(linkRow[a])
    /\ a \notin batchHeld
    /\ linkRow' = [linkRow EXCEPT ![a] = Renewed(@, issued[a] + 1)]
    /\ issued' = [issued EXCEPT ![a] = @ + 1]
    /\ HeldSame

\* An open row is begun or finished.
RowMoved(a) ==
    /\ IsOpen(linkRow[a])
    /\ a \notin batchHeld
    /\ \E row \in LinkRecord :
          /\ linkRow' = [linkRow EXCEPT ![a] = row]
          /\ row.nonce = linkRow[a].nonce
          /\ row.state # "absent"
          /\ linkRow[a].deadline # NoLimit => row.deadline = linkRow[a].deadline
    /\ issued' = issued
    /\ HeldSame

\* The invite writes a row.
RowHeld(a) ==
    /\ linkRow' = linkRow
    /\ issued' = [issued EXCEPT ![a] = @ + 1]
    /\ batchHeld' = batchHeld \cup {a}
    /\ \E row \in LinkRecord :
          /\ batchRow' = [batchRow EXCEPT ![a] = row]
          /\ row.nonce = issued[a] + 1
          /\ IsOpen(row)
          /\ \/ issued[a] = 0
             \/ IsOpen(InBatch(a)) /\ row.deadline = InBatch(a).deadline

\* The invite ends: its rows become visible, or none does.
RowsEnd ==
    /\ issued' = issued
    /\ batchHeld' = {}
    /\ linkRow' = linkRow \/ linkRow' = [a \in LinkRows |-> InBatch(a)]

\* Every step is one of these for the rows.
LEMMA RowSteps ==
    ASSUME LinkTypeOK, RequestsSound, TellsSound, [LinkNext]_linkVars
    PROVE  \/ RowsSame /\ HeldSame
           \/ \E a \in LinkRows : RowMinted(a) \/ RowRotated(a) \/ RowMoved(a) \/ RowHeld(a)
           \/ RowsEnd
<1> DEFINE Goal == \/ RowsSame /\ HeldSame
                   \/ \E a \in LinkRows :
                         RowMinted(a) \/ RowRotated(a) \/ RowMoved(a) \/ RowHeld(a)
                   \/ RowsEnd
<1> USE DEF rowVars, reqVars, batchVars
<1>1. ASSUME NEW a \in LinkRows, Mint(a) PROVE Goal
  BY <1>1 DEF Mint, RowMinted, HeldSame
<1>2. ASSUME NEW a \in LinkRows, Rotate(a) PROVE Goal
  BY <1>2 DEF Rotate, RowRotated, HeldSame
<1>3. ASSUME NEW a \in LinkRows, Sweep(a) PROVE Goal
  <2>1. linkRow[a] \in LinkRecord
    BY DEF LinkTypeOK
  <2>2. /\ Finished(linkRow[a]) \in LinkRecord
        /\ Finished(linkRow[a]).nonce = linkRow[a].nonce
        /\ Finished(linkRow[a]).state = "done"
        /\ Finished(linkRow[a]).deadline = linkRow[a].deadline
    BY <2>1, FinishedFacts
  <2>3. RowMoved(a)
    BY <1>3, <2>2 DEF Sweep, RowMoved, HeldSame, IsOpen
  <2> QED
    BY <2>3
<1>4. ASSUME NEW t \in LinkRequests, BeginUnder(t) PROVE Goal
  <2> DEFINE a == reqLink[t].row
  <2>1. a \in LinkRows /\ linkRow[a] \in LinkRecord
    BY <1>4 DEF BeginUnder, RequestsSound, LinkTypeOK
  <2>2. CASE UNCHANGED linkRow
    BY <1>4, <2>2 DEF BeginUnder, RowsSame, HeldSame
  <2>3. ASSUME NEW limit \in Limits \cup {NoLimit}, linkRow[a].state = "new",
               linkRow' = [linkRow EXCEPT ![a] = Begun(@, limit)]
        PROVE  RowMoved(a)
    <3>1. /\ Begun(linkRow[a], limit) \in LinkRecord
          /\ Begun(linkRow[a], limit).nonce = linkRow[a].nonce
          /\ Begun(linkRow[a], limit).state = "in_progress"
          /\ linkRow[a].deadline # NoLimit =>
                Begun(linkRow[a], limit).deadline = linkRow[a].deadline
      BY <2>1, BegunFacts
    <3> QED
      BY <1>4, <2>3, <3>1 DEF BeginUnder, RowMoved, HeldSame, IsOpen
  <2> QED
    BY <1>4, <2>1, <2>2, <2>3 DEF BeginUnder
<1>5. ASSUME NEW t \in LinkRequests, FinishWrite(t) PROVE Goal
  <2> DEFINE a == reqLink[t].row
             row == IF linkRow[a].state = "new" THEN Begun(linkRow[a], NoLimit) ELSE linkRow[a]
  <2>1. a \in LinkRows /\ linkRow[a] \in LinkRecord
    BY <1>5 DEF FinishWrite, RequestsSound, LinkTypeOK
  <2>2. CASE UNCHANGED linkRow
    BY <1>5, <2>2 DEF FinishWrite, RowsSame, HeldSame
  <2>3. CASE IsOpen(linkRow[a]) /\ linkRow' = [linkRow EXCEPT ![a] = Finished(row)]
    <3>1. /\ row \in LinkRecord
          /\ row.nonce = linkRow[a].nonce
          /\ linkRow[a].deadline # NoLimit => row.deadline = linkRow[a].deadline
      BY <2>1, BegunFacts
    <3>2. /\ Finished(row) \in LinkRecord
          /\ Finished(row).nonce = row.nonce
          /\ Finished(row).state = "done"
          /\ Finished(row).deadline = row.deadline
      BY <3>1, FinishedFacts
    <3> HIDE DEF row
    <3>3. RowMoved(a)
      BY <1>5, <2>3, <3>1, <3>2 DEF FinishWrite, RowMoved, HeldSame
    <3> QED
      BY <2>1, <3>3
  <2>4. linkRow' = linkRow \/ (IsOpen(linkRow[a]) /\ linkRow' = [linkRow EXCEPT ![a] = Finished(row)])
    BY <1>5, <2>1 DEF FinishWrite, IsOpen, LinkTypeOK
  <2> QED
    BY <2>2, <2>3, <2>4
<1>6. CASE RenewPrior
  <2> DEFINE p == batchAt.prior
  <2>1. p \in LinkRows
    BY <1>6 DEF RenewPrior, LinkTypeOK, Serving
  <2>2. /\ Renewed(InBatch(p), issued[p] + 1) \in LinkRecord
        /\ Renewed(InBatch(p), issued[p] + 1).nonce = issued[p] + 1
        /\ Renewed(InBatch(p), issued[p] + 1).state = InBatch(p).state
        /\ Renewed(InBatch(p), issued[p] + 1).deadline = InBatch(p).deadline
    BY <2>1, InBatchFacts, RenewedFacts
  <2>3. CASE IsOpen(InBatch(p))
    <3>1. RowHeld(p)
      BY <1>6, <2>2, <2>3 DEF RenewPrior, RowHeld, IsOpen
    <3> QED
      BY <2>1, <3>1
  <2>4. CASE ~IsOpen(InBatch(p))
    BY <1>6, <2>4 DEF RenewPrior, RowsSame, HeldSame
  <2> QED
    BY <2>3, <2>4
<1>7. ASSUME NEW a \in LinkRows, MintInvited(a) PROVE Goal
  <2>1. \A who \in Carried(batchAt.who), limit \in Limits \cup {NoLimit} :
            /\ Minted(who, "new", limit) \in LinkRecord
            /\ Minted(who, "new", limit).nonce = 1
            /\ IsOpen(Minted(who, "new", limit))
    BY MintFacts DEF Carried
  <2>2. issued[a] = 0 /\ issued[a] + 1 = 1
    BY <1>7 DEF MintInvited
  <2>3. RowHeld(a)
    BY <1>7, <2>1, <2>2 DEF MintInvited, RowHeld
  <2> QED
    BY <2>3
<1>8. CASE CommitBatch
  BY <1>8 DEF CommitBatch, BatchEmpty, RowsEnd
<1>9. CASE LoseBatch
  BY <1>9 DEF LoseBatch, BatchEmpty, RowsEnd
<1>10. ASSUME NEW t \in LinkRequests,
              Ask(t) \/ VerifyLink(t) \/ FinishLook(t) \/ LeaveRequest(t)
       PROVE  Goal
  BY <1>10 DEF Ask, VerifyLink, FinishLook, LeaveRequest, RowsSame, HeldSame
<1>11. CASE OpenBatch
  BY <1>11 DEF OpenBatch, RowsSame, HeldSame
<1>12. ASSUME NEW r \in Invited, TakeRecipient(r) PROVE Goal
  BY <1>12 DEF TakeRecipient, RowsSame, HeldSame
<1>13. CASE MintFails
  BY <1>13 DEF MintFails, RowsEnd
<1>14. CASE UNCHANGED linkVars
  BY <1>14 DEF linkVars, RowsSame, HeldSame
<1> QED
  BY <1>1, <1>2, <1>3, <1>4, <1>5, <1>6, <1>7, <1>8, <1>9, <1>10, <1>11, <1>12, <1>13, <1>14
  DEF LinkNext

\* Every step keeps the nonces in order and the deadlines of renewed rows.
LEMMA NoncesStep ==
    ASSUME LinkTypeOK, NoncesDrawn, RenewalsAgree, RequestsSound, TellsSound, [LinkNext]_linkVars
    PROVE  NoncesDrawn' /\ RenewalsAgree'
<1>1. \A a \in LinkRows : /\ linkRow[a] \in LinkRecord /\ batchRow[a] \in LinkRecord
                           /\ issued[a] \in Nat
                           /\ linkRow[a].nonce \in Nat /\ batchRow[a].nonce \in Nat
  BY DEF LinkTypeOK, LinkRecord
<1>2. batchHeld \subseteq LinkRows
  BY DEF LinkTypeOK
<1>3. CASE RowsSame /\ HeldSame
  BY <1>3 DEF RowsSame, HeldSame, NoncesDrawn, RenewalsAgree, IsOpen
<1>4. ASSUME NEW a \in LinkRows, RowMinted(a) PROVE NoncesDrawn' /\ RenewalsAgree'
  <2>1. a \notin batchHeld
    BY <1>1, <1>4 DEF RowMinted, NoncesDrawn
  <2>2. /\ linkRow'[a].nonce = 1 /\ linkRow'[a].state # "absent" /\ issued'[a] = 1
        /\ \A b \in LinkRows \ {a} : linkRow'[b] = linkRow[b] /\ issued'[b] = issued[b]
    <3>1. PICK who \in SUBSET Invited, state \in {"new", "in_progress"}, limit \in Limits \cup {NoLimit} :
              linkRow' = [linkRow EXCEPT ![a] = Minted(who, state, limit)]
      BY <1>4 DEF RowMinted
    <3>2. Minted(who, state, limit).nonce = 1 /\ Minted(who, state, limit).state # "absent"
      BY MintFacts DEF IsOpen
    <3> QED
      BY <1>4, <3>1, <3>2 DEF RowMinted, LinkTypeOK
  <2> QED
    BY <1>1, <1>2, <1>4, <2>1, <2>2 DEF RowMinted, HeldSame, NoncesDrawn, RenewalsAgree, IsOpen
<1>5. ASSUME NEW a \in LinkRows, RowRotated(a) PROVE NoncesDrawn' /\ RenewalsAgree'
  <2>1. /\ Renewed(linkRow[a], issued[a] + 1).nonce = issued[a] + 1
        /\ Renewed(linkRow[a], issued[a] + 1).state = linkRow[a].state
    <3>1. issued[a] + 1 \in Nat
      BY <1>1
    <3> QED
      BY <1>1, <3>1, RenewedFacts
  <2>2. /\ linkRow'[a].nonce = issued[a] + 1 /\ linkRow'[a].state # "absent"
        /\ issued'[a] = issued[a] + 1
        /\ \A b \in LinkRows \ {a} : linkRow'[b] = linkRow[b] /\ issued'[b] = issued[b]
    BY <1>5, <2>1 DEF RowRotated, IsOpen, LinkTypeOK
  <2> QED
    BY <1>1, <1>2, <1>5, <2>2 DEF RowRotated, HeldSame, NoncesDrawn, RenewalsAgree, IsOpen
<1>6. ASSUME NEW a \in LinkRows, RowMoved(a) PROVE NoncesDrawn' /\ RenewalsAgree'
  <2>1. /\ linkRow'[a].nonce = linkRow[a].nonce /\ linkRow'[a].state # "absent"
        /\ linkRow[a].state # "absent"
        /\ \A b \in LinkRows \ {a} : linkRow'[b] = linkRow[b]
    BY <1>6 DEF RowMoved, IsOpen, LinkTypeOK
  <2> QED
    BY <1>1, <1>2, <1>6, <2>1 DEF RowMoved, HeldSame, NoncesDrawn, RenewalsAgree, IsOpen
<1>7. ASSUME NEW a \in LinkRows, RowHeld(a) PROVE NoncesDrawn' /\ RenewalsAgree'
  <2>1. PICK row \in LinkRecord :
            /\ batchRow' = [batchRow EXCEPT ![a] = row]
            /\ row.nonce = issued[a] + 1
            /\ IsOpen(row)
            /\ \/ issued[a] = 0
               \/ IsOpen(InBatch(a)) /\ row.deadline = InBatch(a).deadline
    BY <1>7 DEF RowHeld
  <2>2. /\ batchRow'[a] = row
        /\ \A b \in LinkRows \ {a} : batchRow'[b] = batchRow[b] /\ issued'[b] = issued[b]
        /\ issued'[a] = issued[a] + 1 /\ linkRow' = linkRow
        /\ batchHeld' = batchHeld \cup {a}
    BY <1>7, <2>1 DEF RowHeld, LinkTypeOK
  <2>3. issued[a] = 0 => linkRow[a].state = "absent"
    BY <1>1 DEF NoncesDrawn
  <2>4. NoncesDrawn'
    <3> SUFFICES ASSUME NEW b \in LinkRows
                 PROVE  /\ linkRow'[b].nonce <= issued'[b]
                        /\ linkRow'[b].state # "absent" => linkRow'[b].nonce > 0
                        /\ linkRow'[b].state = "absent" => linkRow'[b] = NoRecord
                        /\ b \in batchHeld' => /\ IsOpen(batchRow'[b])
                                               /\ linkRow'[b].nonce < batchRow'[b].nonce
                                               /\ batchRow'[b].nonce <= issued'[b]
      BY DEF NoncesDrawn, IsOpen
    <3>1. CASE b = a
      BY <1>1, <2>1, <2>2, <3>1 DEF NoncesDrawn
    <3>2. CASE b # a
      BY <1>1, <2>2, <3>2 DEF NoncesDrawn
    <3> QED
      BY <3>1, <3>2
  <2>5. RenewalsAgree'
    <3> SUFFICES ASSUME NEW b \in batchHeld', linkRow'[b].state # "absent"
                 PROVE  batchRow'[b].deadline = linkRow'[b].deadline /\ IsOpen(linkRow'[b])
      BY DEF RenewalsAgree, IsOpen
    <3>1. CASE b = a
      BY <2>1, <2>2, <2>3, <3>1 DEF RenewalsAgree, InBatch
    <3>2. CASE b # a
      BY <1>2, <2>2, <3>2 DEF RenewalsAgree
    <3> QED
      BY <3>1, <3>2
  <2> QED
    BY <2>4, <2>5
<1>8. CASE RowsEnd
  <2>1. CASE linkRow' = linkRow
    BY <1>8, <2>1 DEF RowsEnd, NoncesDrawn, RenewalsAgree
  <2>2. CASE linkRow' = [a \in LinkRows |-> InBatch(a)]
    <3>1. \A a \in LinkRows : linkRow'[a] = IF a \in batchHeld THEN batchRow[a] ELSE linkRow[a]
      BY <2>2 DEF InBatch
    <3> QED
      BY <1>1, <1>8, <3>1 DEF RowsEnd, NoncesDrawn, RenewalsAgree, IsOpen
  <2> QED
    BY <1>8, <2>1, <2>2 DEF RowsEnd
<1> QED
  BY <1>3, <1>4, <1>5, <1>6, <1>7, <1>8, RowSteps
-----------------------------------------------------------------------------
(* Requests *)

\* A link that is dead stays dead, and a row that exists stays one.
LEMMA DeadStays ==
    ASSUME LinkTypeOK, NoncesDrawn, RenewalsAgree, RequestsSound, TellsSound,
           [LinkNext]_linkVars,
           NEW link, link.row \in LinkRows, link.nonce \in 1..issued[link.row]
    PROVE  /\ link.nonce \in 1..issued'[link.row]
           /\ Dead(link) => Dead(link)'
           /\ linkRow[link.row].state # "absent" => linkRow'[link.row].state # "absent"
<1> DEFINE b == link.row
           n == link.nonce
<1>1. \A a \in LinkRows : /\ linkRow[a] \in LinkRecord /\ batchRow[a] \in LinkRecord
                           /\ issued[a] \in Nat
                           /\ linkRow[a].nonce \in Nat /\ batchRow[a].nonce \in Nat
  BY DEF LinkTypeOK, LinkRecord
<1>a. Dead(link) <=> (linkRow[b].nonce # n /\ (b \in batchHeld => batchRow[b].nonce # n))
  BY DEF Dead
<1>b. Dead(link)' <=> (linkRow'[b].nonce # n /\ (b \in batchHeld' => batchRow'[b].nonce # n))
  BY DEF Dead
<1> DEFINE Goal == /\ n \in 1..issued'[b]
                   /\ Dead(link) => Dead(link)'
                   /\ linkRow[b].state # "absent" => linkRow'[b].state # "absent"
<1> SUFFICES Goal
  OBVIOUS
<1>3. CASE RowsSame /\ HeldSame
  BY <1>a, <1>b, <1>3 DEF RowsSame, HeldSame
<1>4. ASSUME NEW a \in LinkRows, RowMinted(a) PROVE Goal
  <2>1. a # b
    BY <1>1, <1>4 DEF RowMinted
  <2>2. linkRow'[b] = linkRow[b] /\ issued'[b] = issued[b]
    BY <1>4, <2>1 DEF RowMinted, LinkTypeOK
  <2> QED
    BY <1>a, <1>b, <1>4, <2>2 DEF RowMinted, HeldSame
<1>5. ASSUME NEW a \in LinkRows, RowRotated(a) PROVE Goal
  <2>1. /\ Renewed(linkRow[a], issued[a] + 1).nonce = issued[a] + 1
        /\ Renewed(linkRow[a], issued[a] + 1).state = linkRow[a].state
    <3>1. issued[a] + 1 \in Nat
      BY <1>1
    <3> QED
      BY <1>1, <3>1, RenewedFacts
  <2>2. CASE a = b
    <3>1. /\ linkRow'[b].nonce = issued[b] + 1 /\ linkRow'[b].state = linkRow[b].state
          /\ issued'[b] = issued[b] + 1
      BY <1>5, <2>1, <2>2 DEF RowRotated, LinkTypeOK
    <3> QED
      BY <1>1, <1>a, <1>b, <1>5, <3>1 DEF RowRotated, HeldSame
  <2>3. CASE a # b
    <3>1. linkRow'[b] = linkRow[b] /\ issued'[b] = issued[b]
      BY <1>5, <2>3 DEF RowRotated, LinkTypeOK
    <3> QED
      BY <1>a, <1>b, <1>5, <3>1 DEF RowRotated, HeldSame
  <2> QED
    BY <2>2, <2>3
<1>6. ASSUME NEW a \in LinkRows, RowMoved(a) PROVE Goal
  <2>1. linkRow'[b].nonce = linkRow[b].nonce
        /\ (linkRow[b].state # "absent" => linkRow'[b].state # "absent")
    BY <1>6 DEF RowMoved, LinkTypeOK
  <2> QED
    BY <1>a, <1>b, <1>6, <2>1 DEF RowMoved, HeldSame
<1>7. ASSUME NEW a \in LinkRows, RowHeld(a) PROVE Goal
  <2>1. CASE a = b
    <3>1. /\ batchRow'[b].nonce = issued[b] + 1
          /\ issued'[b] = issued[b] + 1 /\ linkRow' = linkRow
      BY <1>7, <2>1 DEF RowHeld, LinkTypeOK
    <3> QED
      BY <1>1, <1>a, <1>b, <3>1
  <2>2. CASE a # b
    <3>1. /\ batchRow'[b] = batchRow[b] /\ linkRow' = linkRow
          /\ issued'[b] = issued[b] /\ (b \in batchHeld' => b \in batchHeld)
      BY <1>7, <2>2 DEF RowHeld, LinkTypeOK
    <3> QED
      BY <1>a, <1>b, <3>1
  <2> QED
    BY <2>1, <2>2
<1>8. CASE RowsEnd
  <2>1. CASE linkRow' = linkRow
    BY <1>a, <1>b, <1>8, <2>1 DEF RowsEnd
  <2>2. CASE linkRow' = [a \in LinkRows |-> InBatch(a)]
    <3>1. linkRow'[b] = IF b \in batchHeld THEN batchRow[b] ELSE linkRow[b]
      BY <2>2 DEF InBatch
    <3> QED
      BY <1>a, <1>b, <1>8, <3>1 DEF RowsEnd, NoncesDrawn, IsOpen
  <2> QED
    BY <1>8, <2>1, <2>2 DEF RowsEnd
<1> QED
  BY <1>3, <1>4, <1>5, <1>6, <1>7, <1>8, RowSteps

\* Every step keeps what is known of the requests under way.
LEMMA RequestsStep ==
    ASSUME LinkTypeOK, NoncesDrawn, RenewalsAgree, RequestsSound, TellsSound,
           DeadLinksOpenNothing, [LinkNext]_linkVars
    PROVE  RequestsSound' /\ DeadLinksOpenNothing'
<1> DEFINE Sound(t) ==
        /\ reqPc'[t] # "idle" =>
              /\ reqLink'[t].row \in LinkRows
              /\ reqLink'[t].nonce \in 1..issued'[reqLink'[t].row]
              /\ reqDead'[t] => Dead(reqLink[t])'
              /\ reqPc'[t] # "asked" => linkRow'[reqLink'[t].row].state # "absent"
        /\ reqPc'[t] \in {"verified", "finishing"} => ~reqDead'[t]
<1>1. SUFFICES ASSUME NEW t \in LinkRequests PROVE Sound(t)
  BY DEF RequestsSound, DeadLinksOpenNothing, Dead
<1>2. ASSUME reqPc'[t] = "idle" PROVE Sound(t)
  BY <1>2
<1>3. ASSUME reqPc[t] # "idle", reqPc'[t] # "idle", reqLink'[t] = reqLink[t], reqDead'[t] = reqDead[t],
             reqPc'[t] \in {"verified", "finishing"} => ~reqDead[t],
             reqPc'[t] # "asked" => linkRow[reqLink[t].row].state # "absent"
      PROVE  Sound(t)
  <2>1. /\ reqLink[t].row \in LinkRows
        /\ reqLink[t].nonce \in 1..issued[reqLink[t].row]
        /\ reqDead[t] => Dead(reqLink[t])
    BY <1>3 DEF RequestsSound
  <2>2. /\ reqLink[t].nonce \in 1..issued'[reqLink[t].row]
        /\ Dead(reqLink[t]) => /\ linkRow'[reqLink[t].row].nonce # reqLink[t].nonce
                               /\ reqLink[t].row \in batchHeld' =>
                                     batchRow'[reqLink[t].row].nonce # reqLink[t].nonce
        /\ linkRow[reqLink[t].row].state # "absent" => linkRow'[reqLink[t].row].state # "absent"
    <3> DEFINE link == reqLink[t]
    <3>1. ASSUME NEW l, l = link
          PROVE  /\ l.nonce \in 1..issued'[l.row]
                 /\ Dead(l) => /\ linkRow'[l.row].nonce # l.nonce
                               /\ l.row \in batchHeld' => batchRow'[l.row].nonce # l.nonce
                 /\ linkRow[l.row].state # "absent" => linkRow'[l.row].state # "absent"
      BY <2>1, <3>1, DeadStays DEF Dead
    <3> QED
      BY <3>1
  <2> QED
    BY <1>3, <2>1, <2>2 DEF Dead
<1>4. ASSUME UNCHANGED reqVars PROVE Sound(t)
  <2>1. CASE reqPc[t] = "idle"
    BY <1>4, <2>1 DEF reqVars
  <2>2. CASE reqPc[t] # "idle"
    BY <1>3, <1>4, <2>2 DEF reqVars, RequestsSound, DeadLinksOpenNothing
  <2> QED
    BY <2>1, <2>2
<1>5. ASSUME NEW u \in LinkRequests, Ask(u) PROVE Sound(t)
  <2>1. CASE u = t
    BY <1>5, <2>1 DEF Ask, rowVars, batchVars, LinkTypeOK, Dead
  <2>2. CASE u # t
    BY <1>2, <1>3, <1>5, <2>2 DEF Ask, LinkTypeOK, RequestsSound, DeadLinksOpenNothing
  <2> QED
    BY <2>1, <2>2
<1>6. ASSUME NEW u \in LinkRequests, VerifyLink(u) PROVE Sound(t)
  <2>1. CASE u = t
    <3>1. /\ reqPc[t] = "asked" /\ reqPc'[t] = "verified"
          /\ reqLink'[t] = reqLink[t] /\ reqDead'[t] = reqDead[t]
          /\ linkRow[reqLink[t].row].nonce = reqLink[t].nonce
          /\ linkRow[reqLink[t].row].state # "absent"
      BY <1>6, <2>1 DEF VerifyLink, Opens, IsOpen, LinkTypeOK
    <3>2. ~reqDead[t]
      BY <3>1 DEF RequestsSound, Dead
    <3> QED
      BY <1>3, <3>1, <3>2
  <2>2. CASE u # t
    BY <1>2, <1>3, <1>6, <2>2 DEF VerifyLink, LinkTypeOK, RequestsSound, DeadLinksOpenNothing
  <2> QED
    BY <2>1, <2>2
<1>7. ASSUME NEW u \in LinkRequests, FinishLook(u) PROVE Sound(t)
  BY <1>2, <1>3, <1>7 DEF FinishLook, LinkTypeOK, RequestsSound, DeadLinksOpenNothing
<1>8. ASSUME NEW u \in LinkRequests, RequestOver(u) PROVE Sound(t)
  BY <1>2, <1>3, <1>8 DEF RequestOver, LinkTypeOK, RequestsSound, DeadLinksOpenNothing
<1>9. ASSUME NEW a \in LinkRows, Mint(a) \/ Rotate(a) \/ Sweep(a) \/ MintInvited(a) PROVE Sound(t)
  <2>1. UNCHANGED reqVars
    BY <1>9 DEF Mint, Rotate, Sweep, MintInvited, Serve, reqVars
  <2> QED
    BY <1>4, <2>1
<1>10. ASSUME NEW r \in Invited, TakeRecipient(r) PROVE Sound(t)
  BY <1>4, <1>10 DEF TakeRecipient
<1>11. CASE OpenBatch \/ RenewPrior \/ MintFails \/ CommitBatch \/ LoseBatch
  <2>1. UNCHANGED reqVars
    BY <1>11 DEF OpenBatch, RenewPrior, MintFails, CommitBatch, LoseBatch, Serve, reqVars
  <2> QED
    BY <1>4, <2>1
<1>12. CASE UNCHANGED linkVars
  BY <1>4, <1>12 DEF linkVars
<1>13. ASSUME NEW u \in LinkRequests, BeginUnder(u) \/ FinishWrite(u) \/ LeaveRequest(u)
       PROVE  Sound(t)
  BY <1>8, <1>13 DEF BeginUnder, FinishWrite, LeaveRequest
<1> QED
  BY <1>5, <1>6, <1>7, <1>9, <1>10, <1>11, <1>12, <1>13 DEF LinkNext

-----------------------------------------------------------------------------
(* The invite *)

\* The parts of TellsSound.
ServingSound == batchPc = "serving" =>
    /\ batchAt.who \in Invited \ batchLeft
    /\ batchTold[batchAt.who] = NoLink
    /\ batchAt.prior # Nowhere => ~Aborted /\ InBatch(batchAt.prior).state # "absent"
LeftUntold == \A r \in batchLeft : batchTold[r] = NoLink
IdleEmpty == batchPc \in {"idle", "answered"} =>
    batchHeld = {} /\ ~Aborted /\ batchTold = [r \in Invited |-> NoLink]
AbortedEmpty == Aborted => batchHeld = {}
Empties == IdleEmpty /\ AbortedEmpty

\* The told link is stored with the row, or superseded on it by this invite.
Carries(a, n) == IF a \in batchHeld
                 THEN linkRow[a].nonce < n /\ n <= batchRow[a].nonce
                 ELSE linkRow[a].state = "done" /\ n = linkRow[a].nonce

\* Somebody is told the row's own link.
OwnTold(a) == \E q \in Invited : batchTold[q] = [row |-> a, nonce |-> InBatch(a).nonce]

ToldLive(r) == batchTold[r].row # Nowhere =>
    Carries(batchTold[r].row, batchTold[r].nonce) /\ OwnTold(batchTold[r].row)
ToldDead(r) == batchTold[r].row # Nowhere =>
    /\ batchTold[r].nonce \in 1..issued[batchTold[r].row]
    /\ \/ linkRow[batchTold[r].row].nonce # batchTold[r].nonce
       \/ linkRow[batchTold[r].row].state = "done"
Told(r) == (Aborted => ToldDead(r)) /\ (~Aborted => ToldLive(r))

\* TellsSound is the conjunction of its parts.
LEMMA TellsParts ==
    /\ TellsSound <=> ServingSound /\ LeftUntold /\ Empties /\ \A r \in Invited : Told(r)
    /\ TellsSound' <=> ServingSound' /\ LeftUntold' /\ Empties' /\ \A r \in Invited : Told(r)'
<1> USE DEF ServingSound, LeftUntold, Empties, IdleEmpty, AbortedEmpty, Told, ToldLive, ToldDead,
            Carries, OwnTold, ToldSound
<1>1. TellsSound <=> ServingSound /\ LeftUntold /\ Empties /\ \A r \in Invited : Told(r)
  BY DEF TellsSound
<1>2. TellsSound' <=> ServingSound' /\ LeftUntold' /\ Empties' /\ \A r \in Invited : Told(r)'
  BY DEF TellsSound, InBatch, Aborted
<1> QED
  BY <1>1, <1>2

\* A row that exists stays one, and a finished one, or one the invite has locked,
\* stays as it is, under every step that is not the invite's end.
LEMMA RowsKept ==
    ASSUME LinkTypeOK, NoncesDrawn, RequestsSound, TellsSound, [LinkNext]_linkVars, ~RowsEnd,
           NEW b \in LinkRows
    PROVE  /\ linkRow[b].state # "absent" => linkRow'[b].state # "absent"
           /\ linkRow[b].state = "done" \/ b \in batchHeld => linkRow'[b] = linkRow[b]
<1> DEFINE Kept == /\ linkRow[b].state # "absent" => linkRow'[b].state # "absent"
                   /\ linkRow[b].state = "done" \/ b \in batchHeld => linkRow'[b] = linkRow[b]
<1>1. /\ linkRow[b] \in LinkRecord /\ issued[b] \in Nat
      /\ linkRow[b].nonce \in Nat /\ batchRow[b].nonce \in Nat
      /\ linkRow[b].state # "absent" \/ b \in batchHeld => issued[b] # 0
  BY DEF LinkTypeOK, LinkRecord, NoncesDrawn
<1>2. CASE RowsSame
  BY <1>2 DEF RowsSame
<1>3. ASSUME NEW a \in LinkRows, RowMinted(a) PROVE Kept
  BY <1>1, <1>3 DEF RowMinted, LinkTypeOK
<1>4. ASSUME NEW a \in LinkRows, RowRotated(a) PROVE Kept
  <2>1. CASE a = b
    <3>1. issued[b] + 1 \in Nat
      BY <1>1
    <3>2. Renewed(linkRow[b], issued[b] + 1).state = linkRow[b].state
      BY <1>1, <3>1, RenewedFacts
    <3> QED
      BY <1>4, <2>1, <3>2 DEF RowRotated, LinkTypeOK, IsOpen
  <2>2. CASE a # b
    BY <1>4, <2>2 DEF RowRotated, LinkTypeOK
  <2> QED
    BY <2>1, <2>2
<1>5. ASSUME NEW a \in LinkRows, RowMoved(a) PROVE Kept
  BY <1>5 DEF RowMoved, LinkTypeOK, IsOpen
<1>6. ASSUME NEW a \in LinkRows, RowHeld(a) PROVE Kept
  BY <1>6 DEF RowHeld
<1> QED
  BY <1>2, <1>3, <1>4, <1>5, <1>6, RowSteps

\* A step outside the invite leaves it sound.
LEMMA OutsideTells ==
    ASSUME LinkTypeOK, NoncesDrawn, RenewalsAgree, RequestsSound, TellsSound,
           [LinkNext]_linkVars, UNCHANGED batchVars
    PROVE  TellsSound'
<1> USE DEF batchVars
<1>1. ASSUME NEW b \in LinkRows
      PROVE  /\ linkRow[b].state # "absent" => linkRow'[b].state # "absent"
             /\ linkRow[b].state = "done" \/ b \in batchHeld => linkRow'[b] = linkRow[b]
  <2>1. CASE RowsEnd
    <3>1. batchHeld = {}
      BY <2>1 DEF RowsEnd
    <3>2. linkRow'[b] = linkRow[b]
      BY <2>1, <3>1 DEF RowsEnd, InBatch
    <3> QED
      BY <3>2
  <2>2. CASE ~RowsEnd
    BY <2>2, RowsKept
  <2> QED
    BY <2>1, <2>2
<1>2. ASSUME NEW b \in LinkRows
      PROVE  /\ InBatch(b).state # "absent" => InBatch(b)'.state # "absent"
             /\ linkRow[b].state = "done" \/ b \in batchHeld => InBatch(b)' = InBatch(b)
  BY <1>1 DEF InBatch
<1>3. ServingSound'
  BY <1>2, TellsParts DEF ServingSound, Aborted, LinkTypeOK, Serving
<1>4. LeftUntold' /\ Empties'
  BY TellsParts DEF LeftUntold, Empties, IdleEmpty, AbortedEmpty, Aborted
<1>5. ASSUME NEW r \in Invited PROVE Told(r)'
  <2>1. Told(r) /\ batchTold[r].row \in LinkRows \cup {Nowhere}
    BY TellsParts DEF LinkTypeOK, Link
  <2>2. CASE Aborted /\ batchTold[r].row # Nowhere
    <3>1. /\ batchTold[r].row \in LinkRows /\ batchHeld = {}
          /\ batchTold[r].nonce \in 1..issued[batchTold[r].row]
          /\ \/ linkRow[batchTold[r].row].nonce # batchTold[r].nonce
             \/ linkRow[batchTold[r].row].state = "done"
      BY <2>1, <2>2, TellsParts DEF Told, ToldDead, Empties, AbortedEmpty
    <3>2. /\ batchTold[r].nonce \in 1..issued'[batchTold[r].row]
          /\ Dead(batchTold[r]) => linkRow'[batchTold[r].row].nonce # batchTold[r].nonce
      <4>1. ASSUME NEW l, l = batchTold[r]
            PROVE  /\ l.nonce \in 1..issued'[l.row]
                   /\ Dead(l) => linkRow'[l.row].nonce # l.nonce
        BY <3>1, <4>1, DeadStays DEF Dead
      <4> QED
        BY <4>1
    <3>3. linkRow[batchTold[r].row].state = "done" => linkRow'[batchTold[r].row].state = "done"
      BY <1>1, <3>1
    <3>4. linkRow[batchTold[r].row].nonce # batchTold[r].nonce => Dead(batchTold[r])
      BY <3>1 DEF Dead
    <3> QED
      BY <2>2, <3>1, <3>2, <3>3, <3>4 DEF Told, ToldDead, Aborted
  <2>3. CASE ~Aborted /\ batchTold[r].row # Nowhere
    <3> DEFINE b == batchTold[r].row
    <3>1. b \in LinkRows /\ Carries(b, batchTold[r].nonce) /\ OwnTold(b)
      BY <2>1, <2>3 DEF Told, ToldLive
    <3>2. linkRow'[b] = linkRow[b] /\ InBatch(b)' = InBatch(b)
      BY <1>1, <1>2, <3>1 DEF Carries
    <3>3. Carries(b, batchTold[r].nonce)' /\ OwnTold(b)'
      BY <3>1, <3>2 DEF Carries, OwnTold
    <3> QED
      BY <2>3, <3>3 DEF Told, ToldLive, Aborted
  <2>4. CASE batchTold[r].row = Nowhere
    BY <2>4 DEF Told, ToldLive, ToldDead
  <2> QED
    BY <2>2, <2>3, <2>4
<1> QED
  BY <1>3, <1>4, <1>5, TellsParts

\* Taking a recipient keeps the invite sound.
LEMMA TakeTells ==
    ASSUME LinkTypeOK, NoncesDrawn, TellsSound, NEW r \in Invited, TakeRecipient(r)
    PROVE  TellsSound'
<1> USE DEF rowVars
<1>1. /\ batchAt'.who = r /\ r \in batchLeft /\ batchLeft' = batchLeft \ {r}
      /\ UNCHANGED <<linkRow, issued, batchRow, batchHeld, batchTold, batchFailed>>
      /\ batchPc' = "serving"
  BY DEF TakeRecipient
<1>2. batchAt'.prior # Nowhere => ~Aborted /\ InBatch(batchAt'.prior).state # "absent"
  <2>1. ASSUME batchAt'.prior # Nowhere
        PROVE  ~Aborted /\ \E a \in LinkRows : IsOpen(InBatch(a)) /\ batchAt'.prior = a
    BY <2>1 DEF TakeRecipient
  <2> QED
    BY <2>1 DEF IsOpen
<1>3. ServingSound'
  BY <1>1, <1>2, TellsParts DEF ServingSound, LeftUntold, Aborted, InBatch
<1>4. LeftUntold' /\ Empties'
  BY <1>1, TellsParts DEF LeftUntold, Empties, IdleEmpty, AbortedEmpty, Aborted
<1>5. \A s \in Invited : Told(s)'
  BY <1>1, TellsParts DEF Told, ToldLive, ToldDead, Carries, OwnTold, Aborted, InBatch
<1> QED
  BY <1>3, <1>4, <1>5, TellsParts

\* Telling one more recipient the link a row has come to have keeps the told links
\* sound, when the row carries still what it carried before.
LEMMA OthersTold ==
    ASSUME LinkTypeOK, TellsSound, ~Aborted, ~Aborted',
           NEW w \in Invited, batchTold[w] = NoLink, NEW p \in LinkRows, NEW n,
           batchTold' = [batchTold EXCEPT ![w] = [row |-> p, nonce |-> n]],
           linkRow' = linkRow, InBatch(p)'.nonce = n, Carries(p, n)',
           \A m \in Nat : Carries(p, m) => Carries(p, m)',
           \A a \in LinkRows \ {p} : batchRow'[a] = batchRow[a],
           batchHeld' \ {p} = batchHeld \ {p}
    PROVE  \A s \in Invited : Told(s)'
<1> SUFFICES ASSUME NEW s \in Invited PROVE Told(s)'
  OBVIOUS
<1>1. batchTold'[w] = [row |-> p, nonce |-> n] /\ \A q \in Invited \ {w} : batchTold'[q] = batchTold[q]
  BY DEF LinkTypeOK
<1>2. OwnTold(p)'
  BY <1>1 DEF OwnTold
<1>3. CASE batchTold'[s].row = Nowhere
  BY <1>3 DEF Told, ToldLive
<1>4. CASE s = w
  BY <1>1, <1>2, <1>4 DEF Told, ToldLive
<1>5. CASE s # w /\ batchTold'[s].row # Nowhere
  <2>1. PICK b, m : b = batchTold[s].row /\ m = batchTold[s].nonce
    OBVIOUS
  <2>2. batchTold'[s] = batchTold[s] /\ b # Nowhere
    BY <1>1, <1>5, <2>1
  <2>3. b \in LinkRows /\ m \in Nat /\ Carries(b, m) /\ OwnTold(b)
    BY <2>1, <2>2, TellsParts DEF Told, ToldLive, LinkTypeOK, Link
  <2>4. CASE b = p
    BY <1>2, <2>1, <2>2, <2>3, <2>4 DEF Told, ToldLive
  <2>5. CASE b # p
    <3>1. InBatch(b)' = InBatch(b) /\ Carries(b, m)'
      BY <2>3, <2>5, InBatchNext DEF InBatch, Carries
    <3>2. PICK q \in Invited : batchTold[q] = [row |-> b, nonce |-> InBatch(b).nonce]
      BY <2>3 DEF OwnTold
    <3>3. q # w
      BY <2>2, <3>2 DEF NoLink
    <3>4. OwnTold(b)'
      BY <1>1, <3>1, <3>2, <3>3 DEF OwnTold
    <3> QED
      BY <2>1, <2>2, <3>1, <3>4 DEF Told, ToldLive
  <2> QED
    BY <2>4, <2>5
<1> QED
  BY <1>3, <1>4, <1>5

\* Renewing a row keeps the invite sound.
LEMMA RenewTells ==
    ASSUME LinkTypeOK, NoncesDrawn, TellsSound, RenewPrior
    PROVE  TellsSound'
<1>1. PICK p \in LinkRows, w \in Invited : p = batchAt.prior /\ w = batchAt.who
  BY TellsParts DEF RenewPrior, ServingSound, LinkTypeOK, Serving
<1>2. w \notin batchLeft /\ batchTold[w] = NoLink /\ ~Aborted
  BY <1>1, LinkAssumption, TellsParts DEF RenewPrior, ServingSound
<1>3. /\ batchPc' = "open" /\ batchLeft' = batchLeft /\ linkRow' = linkRow /\ ~Aborted'
      /\ \E link : batchTold' = [batchTold EXCEPT ![w] = link]
  BY <1>1, <1>2 DEF RenewPrior, Serve, Aborted
<1>4. /\ InBatch(p) \in LinkRecord /\ linkRow[p].nonce \in Nat /\ batchRow[p].nonce \in Nat
      /\ issued[p] \in Nat /\ linkRow[p].nonce <= issued[p]
      /\ p \in batchHeld => IsOpen(batchRow[p]) /\ batchRow[p].nonce <= issued[p]
  BY InBatchFacts DEF LinkTypeOK, LinkRecord, NoncesDrawn
<1>5. ServingSound' /\ LeftUntold' /\ Empties'
  <2>1. \A r \in batchLeft : r # w /\ r \in Invited
    BY <1>2 DEF LinkTypeOK
  <2> QED
    BY <1>2, <1>3, <2>1, TellsParts
    DEF ServingSound, LeftUntold, Empties, IdleEmpty, AbortedEmpty, LinkTypeOK
<1>6. CASE IsOpen(InBatch(p))
  <2>1. PICK n \in Nat : n = issued[p] + 1
    BY <1>4
  <2>2. Renewed(InBatch(p), n).nonce = n
    BY <1>4, RenewedFacts
  <2>3. /\ batchRow' = [batchRow EXCEPT ![p] = Renewed(InBatch(p), n)]
        /\ batchHeld' = batchHeld \cup {p}
        /\ batchTold' = [batchTold EXCEPT ![w] = [row |-> p, nonce |-> n]]
    BY <1>1, <1>6, <2>1 DEF RenewPrior, Serve, IsOpen
  <2>4. /\ batchRow'[p].nonce = n /\ InBatch(p)'.nonce = n
        /\ \A a \in LinkRows \ {p} : batchRow'[a] = batchRow[a]
        /\ batchHeld' \ {p} = batchHeld \ {p}
    BY <2>2, <2>3, InBatchNext DEF LinkTypeOK
  <2>5. Carries(p, n)'
    BY <1>3, <1>4, <2>1, <2>3, <2>4 DEF Carries
  <2>6. ASSUME NEW m \in Nat, Carries(p, m) PROVE Carries(p, m)'
    <3>1. p \in batchHeld
      BY <1>6, <2>6 DEF Carries, InBatch, IsOpen
    <3>2. linkRow[p].nonce < m /\ m <= batchRow[p].nonce
      BY <2>6, <3>1 DEF Carries
    <3>3. m <= n
      BY <1>4, <2>1, <3>1, <3>2
    <3> QED
      BY <1>3, <2>3, <2>4, <3>2, <3>3 DEF Carries
  <2>7. \A s \in Invited : Told(s)'
    BY <1>2, <1>3, <2>3, <2>4, <2>5, <2>6, OthersTold
  <2> QED
    BY <1>5, <2>7, TellsParts
<1>7. CASE ~IsOpen(InBatch(p))
  <2>1. PICK n : n = InBatch(p).nonce
    OBVIOUS
  <2>2. /\ batchRow' = batchRow /\ batchHeld' = batchHeld
        /\ InBatch(p).state = "done"
        /\ batchTold' = [batchTold EXCEPT ![w] = [row |-> p, nonce |-> n]]
    BY <1>1, <1>7, <2>1 DEF RenewPrior, Serve
  <2>3. p \notin batchHeld /\ InBatch(p) = linkRow[p] /\ InBatch(p)' = InBatch(p)
    BY <1>3, <1>4, <1>7, <2>2, InBatchFacts, InBatchNext
  <2>4. Carries(p, n)' /\ \A m \in Nat : Carries(p, m) => Carries(p, m)'
    BY <1>3, <2>1, <2>2, <2>3 DEF Carries
  <2>5. \A s \in Invited : Told(s)'
    BY <1>2, <1>3, <2>1, <2>2, <2>3, <2>4, OthersTold
  <2> QED
    BY <1>5, <2>5, TellsParts
<1> QED
  BY <1>6, <1>7

\* Minting for a recipient keeps the invite sound.
LEMMA MintTells ==
    ASSUME LinkTypeOK, NoncesDrawn, TellsSound, NEW a \in LinkRows, MintInvited(a)
    PROVE  TellsSound'
<1> DEFINE w == batchAt.who
<1>1. w \in Invited /\ w \notin batchLeft /\ batchTold[w] = NoLink
  BY TellsParts DEF MintInvited, ServingSound
<1>2. PICK who \in Carried(w), limit \in Limits \cup {NoLimit} :
          batchRow' = [batchRow EXCEPT ![a] = Minted(who, "new", limit)]
  BY DEF MintInvited
<1>3. /\ batchPc' = "open" /\ batchLeft' = batchLeft /\ linkRow' = linkRow
      /\ batchHeld' = batchHeld \cup {a} /\ issued[a] = 0
      /\ ~Aborted /\ ~Aborted'
      /\ batchTold' = [batchTold EXCEPT ![w] = [row |-> a, nonce |-> 1]]
  BY DEF MintInvited, Serve, Aborted
<1>4. Minted(who, "new", limit).nonce = 1
  BY MintFacts DEF Carried
<1>5. /\ batchRow'[a].nonce = 1 /\ InBatch(a)'.nonce = 1
      /\ \A b \in LinkRows \ {a} : batchRow'[b] = batchRow[b]
      /\ batchHeld' \ {a} = batchHeld \ {a}
  BY <1>2, <1>3, <1>4, InBatchNext DEF LinkTypeOK
<1>6. linkRow[a].nonce = 0 /\ linkRow[a].state # "done" /\ a \notin batchHeld
  BY <1>3 DEF NoncesDrawn, LinkTypeOK, LinkRecord
<1>7. ServingSound' /\ LeftUntold' /\ Empties'
  <2>1. \A r \in batchLeft : r # w /\ r \in Invited
    BY <1>1 DEF LinkTypeOK
  <2> QED
    BY <1>3, <2>1, TellsParts DEF ServingSound, LeftUntold, Empties, IdleEmpty, AbortedEmpty,
       LinkTypeOK
<1>8. \A m \in Nat : ~Carries(a, m)
  BY <1>6 DEF Carries
<1>9. Carries(a, 1)'
  BY <1>3, <1>5, <1>6 DEF Carries
<1>10. \A s \in Invited : Told(s)'
  BY <1>1, <1>3, <1>5, <1>8, <1>9, OthersTold
<1> QED
  BY <1>7, <1>10, TellsParts

\* Every step keeps the invite sound.
LEMMA TellsStep ==
    ASSUME LinkTypeOK, NoncesDrawn, RenewalsAgree, RequestsSound, TellsSound,
           [LinkNext]_linkVars
    PROVE  TellsSound'
<1>1. CASE UNCHANGED batchVars
  BY <1>1, OutsideTells
<1>2. CASE OpenBatch
  <2>1. /\ batchPc' = "open" /\ batchHeld' = {} /\ batchLeft' \subseteq Invited
        /\ batchTold' = [r \in Invited |-> NoLink]
    BY <1>2, TellsParts DEF OpenBatch, Empties, IdleEmpty
  <2>2. \A r \in Invited : Told(r)'
    BY <2>1 DEF Told, ToldLive, ToldDead, NoLink
  <2> QED
    BY <2>1, <2>2, TellsParts DEF ServingSound, LeftUntold, Empties, IdleEmpty, AbortedEmpty
<1>3. CASE MintFails
  <2>1. /\ batchPc' = "open" /\ batchHeld' = {} /\ batchTold' = batchTold
        /\ batchLeft' = batchLeft /\ linkRow' = linkRow /\ issued' = issued /\ Aborted'
    BY <1>3 DEF MintFails, Aborted, rowVars
  <2>2. ASSUME NEW r \in Invited, batchTold[r].row # Nowhere
        PROVE  /\ batchTold[r].nonce \in 1..issued[batchTold[r].row]
               /\ \/ linkRow[batchTold[r].row].nonce # batchTold[r].nonce
                  \/ linkRow[batchTold[r].row].state = "done"
    <3> DEFINE b == batchTold[r].row
               n == batchTold[r].nonce
    <3>1. CASE Aborted
      BY <2>2, <3>1, TellsParts DEF Told, ToldDead
    <3>2. CASE ~Aborted
      <4>1. b \in LinkRows /\ n \in Nat /\ Carries(b, n)
        BY <2>2, <3>2, TellsParts DEF Told, ToldLive, LinkTypeOK, Link
      <4>2. /\ linkRow[b].nonce \in Nat /\ batchRow[b].nonce \in Nat /\ issued[b] \in Nat
            /\ linkRow[b].nonce <= issued[b]
            /\ linkRow[b].state # "absent" => linkRow[b].nonce > 0
            /\ b \in batchHeld => /\ linkRow[b].nonce < batchRow[b].nonce
                                  /\ batchRow[b].nonce <= issued[b]
        BY <4>1 DEF NoncesDrawn, LinkTypeOK, LinkRecord
      <4> QED
        BY <4>1, <4>2 DEF Carries
    <3> QED
      BY <3>1, <3>2
  <2>3. \A r \in Invited : Told(r)'
    BY <2>1, <2>2 DEF Told, ToldDead
  <2> QED
    BY <2>1, <2>3, TellsParts DEF ServingSound, LeftUntold, Empties, IdleEmpty, AbortedEmpty
<1>4. ASSUME NEW pc \in {"idle", "answered"}, BatchEmpty(pc) PROVE TellsSound'
  <2>1. /\ batchPc' = pc /\ batchHeld' = {} /\ batchLeft' = {} /\ ~Aborted'
        /\ batchTold' = [r \in Invited |-> NoLink]
    BY <1>4 DEF BatchEmpty, Aborted
  <2>2. \A r \in Invited : Told(r)'
    BY <2>1 DEF Told, ToldLive, NoLink
  <2> QED
    BY <2>1, <2>2, TellsParts DEF ServingSound, LeftUntold, Empties, IdleEmpty, AbortedEmpty
<1>5. CASE CommitBatch \/ LoseBatch
  BY <1>4, <1>5 DEF CommitBatch, LoseBatch
<1>6. ASSUME NEW a \in LinkRows, Mint(a) \/ Rotate(a) \/ Sweep(a) PROVE UNCHANGED batchVars
  BY <1>6 DEF Mint, Rotate, Sweep
<1>7. ASSUME NEW t \in LinkRequests, \/ Ask(t) \/ VerifyLink(t) \/ BeginUnder(t)
                                     \/ FinishLook(t) \/ FinishWrite(t) \/ LeaveRequest(t)
      PROVE  UNCHANGED batchVars
  BY <1>7 DEF Ask, VerifyLink, BeginUnder, FinishLook, FinishWrite, LeaveRequest
<1>8. CASE UNCHANGED linkVars
  BY <1>1, <1>8 DEF linkVars
<1> QED
  BY <1>1, <1>2, <1>3, <1>5, <1>6, <1>7, <1>8, TakeTells, RenewTells, MintTells DEF LinkNext

-----------------------------------------------------------------------------
(* Theorems *)

\* There are no rows, no requests and no invite at the start.
LEMMA LinkStarts == LinkInit => LinkInv
<1> SUFFICES ASSUME LinkInit PROVE LinkInv
  OBVIOUS
<1>1. LinkTypeOK
  BY NoRecordFacts DEF LinkInit, LinkTypeOK, LinkStates
<1>2. NoncesDrawn /\ RenewalsAgree
  BY NoRecordFacts DEF LinkInit, NoncesDrawn, RenewalsAgree
<1>3. RequestsSound /\ DeadLinksOpenNothing
  BY DEF LinkInit, RequestsSound, DeadLinksOpenNothing
<1>4. TellsSound
  BY DEF LinkInit, TellsSound, NoLink, Aborted
<1> QED
  BY <1>1, <1>2, <1>3, <1>4 DEF LinkInv

\* The inductive invariant of links and invites.
THEOREM LinkInvariance == LinkSpec => []LinkInv
<1>1. LinkInv /\ [LinkNext]_linkVars => LinkInv'
  BY LinkTypeStep, NoncesStep, RequestsStep, TellsStep DEF LinkInv
<1> QED
  BY LinkStarts, <1>1, PTL DEF LinkSpec

\* No request gets past verify_capability with a link that was replaced or rolled
\* back before it came.
THEOREM DeadLinksNeverOpen == LinkSpec => []DeadLinksOpenNothing
<1>1. LinkInv => DeadLinksOpenNothing
  BY DEF LinkInv
<1> QED
  BY LinkInvariance, <1>1, PTL

\* A deadline, once set, is not moved by any begin, submit, finish, rotation or
\* invite.
THEOREM DeadlinesStay == LinkSpec => DeadlineKept
<1> DEFINE Kept == \A a \in LinkRows :
        (linkRow[a].state # "absent" /\ linkRow[a].deadline # NoLimit)
            => linkRow'[a].deadline = linkRow[a].deadline
<1>1. LinkInv /\ [LinkNext]_linkVars => Kept
  <2> SUFFICES ASSUME LinkInv, [LinkNext]_linkVars, NEW b \in LinkRows,
                      linkRow[b].state # "absent", linkRow[b].deadline # NoLimit
               PROVE  linkRow'[b].deadline = linkRow[b].deadline
    OBVIOUS
  <2> USE DEF LinkInv
  <2>1. /\ linkRow[b] \in LinkRecord /\ issued[b] \in Nat /\ linkRow[b].nonce \in Nat
        /\ issued[b] # 0
    BY DEF LinkTypeOK, LinkRecord, NoncesDrawn
  <2>2. CASE RowsSame
    BY <2>2 DEF RowsSame
  <2>3. ASSUME NEW a \in LinkRows, RowMinted(a)
        PROVE  linkRow'[b].deadline = linkRow[b].deadline
    BY <2>1, <2>3 DEF RowMinted, LinkTypeOK
  <2>4. ASSUME NEW a \in LinkRows, RowRotated(a)
        PROVE  linkRow'[b].deadline = linkRow[b].deadline
    <3>1. issued[b] + 1 \in Nat
      BY <2>1
    <3>2. Renewed(linkRow[b], issued[b] + 1).deadline = linkRow[b].deadline
      BY <2>1, <3>1, RenewedFacts
    <3> QED
      BY <2>4, <3>2 DEF RowRotated, LinkTypeOK
  <2>5. ASSUME NEW a \in LinkRows, RowMoved(a)
        PROVE  linkRow'[b].deadline = linkRow[b].deadline
    BY <2>5 DEF RowMoved, LinkTypeOK
  <2>6. ASSUME NEW a \in LinkRows, RowHeld(a)
        PROVE  linkRow'[b].deadline = linkRow[b].deadline
    BY <2>6 DEF RowHeld
  <2>7. CASE RowsEnd
    BY <2>7 DEF RowsEnd, InBatch, RenewalsAgree
  <2> QED
    BY <2>2, <2>3, <2>4, <2>5, <2>6, <2>7, RowSteps
<1>2. DeadlineKept <=> [][Kept]_linkVars
  BY DEF DeadlineKept
<1> QED
  BY LinkInvariance, <1>1, <1>2, PTL DEF LinkSpec

\* An invite that answers has stored every row it tells a link of, with that link or a
\* later one somebody is told, or, when a recipient was answered an error, tells no link
\* that opens anything (one transaction; recipients may share a row).
THEOREM InvitesAllOrNothing == LinkSpec => InviteAllOrNothing
<1> DEFINE Kept(r) ==
        LET a   == batchTold[r].row
            row == linkRow'[a]
        IN  IF batchFailed = {}
            THEN /\ row.state # "absent" /\ batchTold[r].nonce <= row.nonce
                 /\ \E q \in Invited : batchTold[q] = [row |-> a, nonce |-> row.nonce]
            ELSE ~IsOpen(row) \/ row.nonce # batchTold[r].nonce
           Answers == BatchAnswers => \A r \in Invited : batchTold[r].row # Nowhere => Kept(r)
<1>1. LinkInv /\ [LinkNext]_linkVars => Answers
  <2> SUFFICES ASSUME LinkInv, [LinkNext]_linkVars, batchPc = "open", batchPc' = "answered",
                      NEW r \in Invited, batchTold[r].row # Nowhere
               PROVE  Kept(r)
    BY DEF BatchAnswers
  <2> DEFINE b == batchTold[r].row
  <2>1. CommitBatch
    BY DEF LinkNext, Mint, Rotate, Sweep, MintInvited, Ask, VerifyLink, BeginUnder, FinishLook,
           FinishWrite, LeaveRequest, OpenBatch, TakeRecipient, RenewPrior, MintFails, LoseBatch,
           BatchEmpty, linkVars, batchVars, Serve
  <2>2. b \in LinkRows /\ linkRow'[b] = InBatch(b) /\ Told(r) /\ (Aborted => batchHeld = {})
    BY <2>1, TellsParts DEF LinkInv, LinkTypeOK, Link, CommitBatch, Empties, AbortedEmpty
  <2>3. CASE Aborted
    <3>1. /\ InBatch(b) = linkRow[b]
          /\ linkRow[b].nonce # batchTold[r].nonce \/ linkRow[b].state = "done"
      BY <2>2, <2>3 DEF Told, ToldDead, InBatch
    <3> QED
      BY <2>2, <2>3, <3>1 DEF Aborted, IsOpen
  <2>4. CASE ~Aborted
    <3>1. Carries(b, batchTold[r].nonce) /\ OwnTold(b)
      BY <2>2, <2>4 DEF Told, ToldLive
    <3>2. InBatch(b) \in LinkRecord /\ InBatch(b).nonce \in Nat
      BY <2>2, InBatchFacts, OpenStates DEF LinkInv
    <3> DEFINE Fits == InBatch(b).state # "absent" /\ batchTold[r].nonce <= InBatch(b).nonce
    <3>3. ASSUME b \in batchHeld PROVE Fits
      BY <2>2, <3>1, <3>3 DEF LinkInv, NoncesDrawn, Carries, InBatch, IsOpen
    <3>4. ASSUME b \notin batchHeld PROVE Fits
      BY <2>2, <3>1, <3>2, <3>4 DEF Carries, InBatch
    <3>5. Fits
      BY <3>3, <3>4
    <3> QED
      BY <2>2, <2>4, <3>1, <3>5 DEF Aborted, OwnTold
  <2> QED
    BY <2>3, <2>4
<1>2. InviteAllOrNothing <=> [][Answers]_linkVars
  BY DEF InviteAllOrNothing
<1> QED
  BY LinkInvariance, <1>1, <1>2, PTL DEF LinkSpec
=============================================================================
