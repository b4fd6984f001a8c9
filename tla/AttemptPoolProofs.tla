-------------------------- MODULE AttemptPoolProofs -------------------------
(***************************************************************************)
(* The attempt limit, for any number of rows and requests.  The argument:  *)
(* an open attempt that a start minted and whose link holds is found by    *)
(* the next start's look, so none is minted beside it; the one that is     *)
(* minted was counted for while no such attempt could finish.              *)
(***************************************************************************)
EXTENDS AttemptPool, FiniteSetTheorems, TLAPS

-----------------------------------------------------------------------------
(* Counting *)

\* A part of a finite set is no larger.
LEMMA FewerInPart ==
    ASSUME NEW S, IsFiniteSet(S), NEW T, T \subseteq S
    PROVE  /\ IsFiniteSet(T)
           /\ Cardinality(S) \in Nat
           /\ Cardinality(T) \in Nat
           /\ Cardinality(T) <= Cardinality(S)
  BY FS_Subset, FS_CardinalityType

\* A part of a finite set and one more element has at most one more.
LEMMA OneMore ==
    ASSUME NEW S, IsFiniteSet(S), NEW x, NEW T, T \subseteq S \cup {x}
    PROVE  /\ Cardinality(S) \in Nat
           /\ Cardinality(T) \in Nat
           /\ Cardinality(T) <= Cardinality(S) + 1
<1>1. /\ IsFiniteSet(S \cup {x})
      /\ Cardinality(S \cup {x}) = IF x \in S THEN Cardinality(S) ELSE Cardinality(S) + 1
  BY FS_AddElement
<1>2. Cardinality(T) <= Cardinality(S \cup {x}) /\ Cardinality(T) \in Nat
  BY <1>1, FewerInPart
<1>3. Cardinality(S) \in Nat
  BY FS_CardinalityType
<1> QED
  BY <1>1, <1>2, <1>3

\* The finished attempts that count are among finitely many rows.
LEMMA DoneStandingFinite == IsFiniteSet(DoneStanding) /\ Cardinality(DoneStanding) \in Nat
<1>1. DoneStanding \subseteq Attempts
  BY DEF DoneStanding, Done
<1> QED
  BY <1>1, FewerInPart, PoolAssumption

-----------------------------------------------------------------------------
(* Types *)

\* Every verb keeps the variables in their types.
LEMMA TypeStep == TypeOK /\ [Next]_vars => TypeOK'
<1> SUFFICES ASSUME TypeOK, [Next]_vars PROVE TypeOK'
  OBVIOUS
<1> USE DEF TypeOK, InputStates, OpenStates, StartSteps
<1>1. ASSUME NEW s \in Starters, Start(s) PROVE TypeOK'
  BY <1>1 DEF Start, StartLock, StartLook, StartCount, StartMint, StartAbort, Leave
<1>2. ASSUME NEW c \in Clients, NEW a \in Attempts, Verify(c, a) PROVE TypeOK'
  BY <1>2 DEF Verify, startVars
<1>3. ASSUME NEW c \in Clients, Begin(c) \/ Finish(c) PROVE TypeOK'
  BY <1>3 DEF Begin, Finish, startVars
<1>4. ASSUME NEW a \in Attempts, LinkRunsOut(a) \/ RotateToken(a) \/ ResendCheck(a)
      PROVE TypeOK'
  BY <1>4 DEF LinkRunsOut, RotateToken, ResendCheck, startVars
<1>5. CASE ResendMint
  BY <1>5 DEF ResendMint, startVars
<1>6. CASE UNCHANGED vars
  BY <1>6 DEF vars, startVars
<1> QED
  BY <1>1, <1>2, <1>3, <1>4, <1>5, <1>6 DEF Next

-----------------------------------------------------------------------------
(* The inductive invariant *)

\* The empty pool satisfies it.
LEMMA PoolInvInit == Init => PoolInv
<1> SUFFICES ASSUME Init PROVE PoolInv
  OBVIOUS
<1>1. TypeOK
  BY DEF Init, TypeOK, InputStates, OpenStates, StartSteps
<1>2. DoneStanding = {} /\ OpenStanding = {}
  BY DEF Init, DoneStanding, OpenStanding, Done
<1>3. Cardinality(DoneStanding) = 0
  BY <1>2, FS_EmptySet
<1>4. GateHeld /\ StandingRows /\ LookedAlone /\ OneOpenAttempt
  BY <1>2 DEF Init, GateHeld, StandingRows, LookedAlone, OneOpenAttempt
<1>5. RoomLeft /\ StandingWithinLimit
  BY <1>2, <1>3, PoolAssumption DEF Init, RoomLeft, StandingWithinLimit
<1> QED
  BY <1>1, <1>4, <1>5 DEF PoolInv

\* A step after which no more rows count, none of those that count has opened or
\* finished, and no start has come closer to minting, keeps the limit.
LEMMA QuietStep ==
    ASSUME PoolInv,
           standing' \subseteq standing,
           \A a \in standing' : /\ input'[a] = "done" <=> input[a] = "done"
                                /\ input'[a] \in OpenStates <=> input[a] \in OpenStates,
           \A s \in Starters : startPc'[s] \in {"count", "mint"} =>
               OpenStanding = {} /\ (startPc'[s] = "mint" => startPc[s] = "mint")
    PROVE  LookedAlone' /\ OneOpenAttempt' /\ RoomLeft' /\ StandingWithinLimit'
<1>1. DoneStanding' \subseteq DoneStanding /\ OpenStanding' \subseteq OpenStanding
  BY DEF DoneStanding, OpenStanding, Done
<1>2. /\ Cardinality(DoneStanding') \in Nat
      /\ Cardinality(DoneStanding) \in Nat
      /\ Cardinality(DoneStanding') <= Cardinality(DoneStanding)
  BY <1>1, DoneStandingFinite, FewerInPart
<1>3. LookedAlone' /\ OneOpenAttempt'
  BY <1>1 DEF PoolInv, LookedAlone, OneOpenAttempt
<1>4. RoomLeft' /\ StandingWithinLimit'
  BY <1>1, <1>2, PoolAssumption DEF PoolInv, RoomLeft, StandingWithinLimit
<1> QED
  BY <1>3, <1>4

\* Every step of the system keeps it.
LEMMA PoolInvStep == PoolInv /\ [Next]_vars => PoolInv'
<1> SUFFICES ASSUME PoolInv, [Next]_vars PROVE PoolInv'
  OBVIOUS
<1> USE DEF OpenStates
<1>0. TypeOK /\ TypeOK'
  BY TypeStep DEF PoolInv
<1>n. NoOne \notin Starters /\ NoOne \notin Attempts /\ Limit \in Nat
  BY PoolAssumption
<1>1. ASSUME NEW s \in Starters, StartLock(s) PROVE PoolInv'
  <2>1. GateHeld' /\ StandingRows'
    BY <1>0, <1>1, <1>n DEF PoolInv, TypeOK, StartLock, GateHeld, StandingRows
  <2>2. LookedAlone' /\ OneOpenAttempt' /\ RoomLeft' /\ StandingWithinLimit'
    <3>1. \A t \in Starters : startPc'[t] \in {"count", "mint"} => startPc'[t] = startPc[t]
      BY <1>0, <1>1 DEF TypeOK, StartLock
    <3>2. input' = input /\ standing' = standing
      BY <1>1 DEF StartLock
    <3> QED
      BY <3>1, <3>2, QuietStep DEF PoolInv, LookedAlone
  <2> QED
    BY <1>0, <2>1, <2>2 DEF PoolInv
<1>2. ASSUME NEW s \in Starters, StartLook(s) PROVE PoolInv'
  <2>1. GateHeld' /\ StandingRows'
    BY <1>0, <1>2, <1>n DEF PoolInv, TypeOK, StartLook, Leave, GateHeld, StandingRows
  <2>2. LookedAlone' /\ OneOpenAttempt' /\ RoomLeft' /\ StandingWithinLimit'
    <3>1. \A t \in Starters : startPc'[t] \in {"count", "mint"} =>
             OpenStanding = {} /\ (startPc'[t] = "mint" => startPc[t] = "mint")
      <4>1. CASE OpenPublic = {}
        <5>1. OpenStanding = {}
          BY <1>0, <4>1 DEF PoolInv, TypeOK, StandingRows, OpenStanding, OpenPublic
        <5> QED
          BY <1>0, <1>2, <5>1 DEF TypeOK, StartLook, Leave
      <4>2. CASE OpenPublic # {}
        BY <1>0, <1>2, <4>2 DEF PoolInv, TypeOK, StartLook, Leave, LookedAlone
      <4> QED
        BY <4>1, <4>2
    <3>2. input' = input /\ standing' = standing
      BY <1>2 DEF StartLook
    <3> QED
      BY <3>1, <3>2, QuietStep
  <2> QED
    BY <1>0, <2>1, <2>2 DEF PoolInv
<1>3. ASSUME NEW s \in Starters, StartCount(s) PROVE PoolInv'
  <2>1. GateHeld' /\ StandingRows'
    BY <1>0, <1>3, <1>n DEF PoolInv, TypeOK, StartCount, Leave, GateHeld, StandingRows
  <2>2. DoneStanding' = DoneStanding /\ OpenStanding' = OpenStanding
    BY <1>3 DEF StartCount, DoneStanding, OpenStanding, Done
  <2>3. LookedAlone' /\ OneOpenAttempt' /\ StandingWithinLimit'
    BY <1>0, <1>3, <2>2
    DEF PoolInv, TypeOK, StartCount, Leave, LookedAlone, OneOpenAttempt, StandingWithinLimit
  <2>4. RoomLeft'
    <3>1. Cardinality(Done) < Limit => Cardinality(DoneStanding) < Limit
      <4>1. IsFiniteSet(Done)
        BY PoolAssumption, FewerInPart DEF Done
      <4>2. /\ Cardinality(DoneStanding) <= Cardinality(Done)
            /\ Cardinality(DoneStanding) \in Nat
            /\ Cardinality(Done) \in Nat
        BY <4>1, FewerInPart DEF DoneStanding
      <4> QED
        BY <4>2, <1>n
    <3>2. CASE Cardinality(Done) < Limit
      BY <3>1, <3>2, <2>2 DEF RoomLeft
    <3>3. CASE ~(Cardinality(Done) < Limit)
      <4>1. startPc' = [startPc EXCEPT ![s] = "idle"]
        BY <1>3, <3>3 DEF StartCount, Leave
      <4>2. \A t \in Starters : startPc'[t] = "mint" => startPc[t] = "mint"
        BY <1>0, <4>1 DEF TypeOK
      <4> QED
        BY <4>2, <2>2 DEF PoolInv, RoomLeft
    <3> QED
      BY <3>2, <3>3
  <2> QED
    BY <1>0, <2>1, <2>3, <2>4 DEF PoolInv
<1>4. ASSUME NEW s \in Starters, StartMint(s) PROVE PoolInv'
  <2>1. PICK a \in Attempts :
          /\ input[a] = "absent"
          /\ input' = [input EXCEPT ![a] = "new"]
          /\ live' = live \cup {a}
          /\ standing' = standing \cup {a}
    BY <1>4 DEF StartMint
  <2>2. /\ startPc[s] = "mint" /\ startPc' = [startPc EXCEPT ![s] = "idle"]
        /\ gate' = NoOne
    BY <1>4 DEF StartMint, Leave
  <2>3. \A t \in Starters : startPc'[t] = "idle"
    BY <1>0, <2>2 DEF PoolInv, TypeOK, GateHeld
  <2>4. a \notin standing
    BY <2>1 DEF PoolInv, StandingRows
  <2>5. OpenStanding = {} /\ OpenStanding' = {a}
    BY <1>0, <2>1, <2>2, <2>4 DEF PoolInv, TypeOK, LookedAlone, OpenStanding
  <2>6. DoneStanding' = DoneStanding
    BY <1>0, <2>1, <2>4 DEF TypeOK, DoneStanding, Done
  <2>7. Cardinality(DoneStanding) < Limit
    BY <2>2 DEF PoolInv, RoomLeft
  <2>8. GateHeld' /\ LookedAlone'
    BY <2>3 DEF GateHeld, LookedAlone
  <2>9. StandingRows' /\ OneOpenAttempt'
    BY <1>0, <2>1, <2>5 DEF PoolInv, TypeOK, StandingRows, OneOpenAttempt
  <2>10. RoomLeft' /\ StandingWithinLimit'
    BY <2>6, <2>7, <1>n, DoneStandingFinite DEF RoomLeft, StandingWithinLimit
  <2> QED
    BY <1>0, <2>8, <2>9, <2>10 DEF PoolInv
<1>5. ASSUME NEW s \in Starters, StartAbort(s) PROVE PoolInv'
  <2>1. GateHeld' /\ StandingRows'
    BY <1>0, <1>5, <1>n DEF PoolInv, TypeOK, StartAbort, Leave, GateHeld, StandingRows
  <2>2. \A t \in Starters : startPc'[t] \in {"count", "mint"} => startPc'[t] = startPc[t]
    BY <1>0, <1>5 DEF TypeOK, StartAbort, Leave
  <2>3. input' = input /\ standing' = standing
    BY <1>5 DEF StartAbort
  <2>4. LookedAlone' /\ OneOpenAttempt' /\ RoomLeft' /\ StandingWithinLimit'
    BY <2>2, <2>3, QuietStep DEF PoolInv, LookedAlone
  <2> QED
    BY <1>0, <2>1, <2>4 DEF PoolInv
<1>6. ASSUME NEW c \in Clients, NEW a \in Attempts, Verify(c, a) PROVE PoolInv'
  <2>1. UNCHANGED <<input, live, gate, startPc, standing>>
    BY <1>6 DEF Verify, startVars
  <2>2. GateHeld' /\ StandingRows'
    BY <2>1 DEF PoolInv, GateHeld, StandingRows
  <2>3. LookedAlone' /\ OneOpenAttempt' /\ RoomLeft' /\ StandingWithinLimit'
    BY <2>1, QuietStep DEF PoolInv, LookedAlone
  <2> QED
    BY <1>0, <2>2, <2>3 DEF PoolInv
<1>7. ASSUME NEW c \in Clients, Begin(c) PROVE PoolInv'
  <2>1. UNCHANGED <<live, gate, startPc, standing>>
    BY <1>7 DEF Begin, startVars
  <2>2. \A b \in Attempts : /\ input'[b] = "done" <=> input[b] = "done"
                            /\ input'[b] \in OpenStates <=> input[b] \in OpenStates
                            /\ input'[b] = "absent" <=> input[b] = "absent"
    BY <1>0, <1>7 DEF TypeOK, Begin
  <2>3. GateHeld' /\ StandingRows'
    BY <1>0, <2>1, <2>2 DEF PoolInv, TypeOK, GateHeld, StandingRows
  <2>4. LookedAlone' /\ OneOpenAttempt' /\ RoomLeft' /\ StandingWithinLimit'
    BY <1>0, <2>1, <2>2, QuietStep DEF PoolInv, TypeOK, LookedAlone
  <2> QED
    BY <1>0, <2>3, <2>4 DEF PoolInv
<1>8. ASSUME NEW c \in Clients, Finish(c) PROVE PoolInv'
  <2> DEFINE a == clientOn[c]
  <2>1. UNCHANGED <<live, gate, startPc, standing>> /\ a \in Attempts
    BY <1>0, <1>8 DEF TypeOK, Finish, startVars
  <2>2. CASE input' = input
    <3>1. GateHeld' /\ StandingRows'
      BY <2>1, <2>2 DEF PoolInv, GateHeld, StandingRows
    <3>2. LookedAlone' /\ OneOpenAttempt' /\ RoomLeft' /\ StandingWithinLimit'
      BY <2>1, <2>2, QuietStep DEF PoolInv, LookedAlone
    <3> QED
      BY <1>0, <3>1, <3>2 DEF PoolInv
  <2>3. CASE input' = [input EXCEPT ![a] = "done"]
    <3>1. GateHeld' /\ StandingRows'
      BY <1>0, <2>1, <2>3 DEF PoolInv, TypeOK, GateHeld, StandingRows
    <3>2. CASE a \in OpenStanding
      <4>1. OpenStanding = {a}
        BY <3>2 DEF PoolInv, OneOpenAttempt
      <4>2. OpenStanding' = {} /\ DoneStanding' \subseteq DoneStanding \cup {a}
        BY <1>0, <2>1, <2>3, <4>1 DEF TypeOK, OpenStanding, DoneStanding, Done
      <4>3. \A t \in Starters : startPc[t] # "mint"
        BY <4>1 DEF PoolInv, LookedAlone
      <4>4. Cardinality(DoneStanding) < Limit
        BY <4>1 DEF PoolInv, RoomLeft
      <4>5. /\ Cardinality(DoneStanding') <= Cardinality(DoneStanding) + 1
            /\ Cardinality(DoneStanding') \in Nat
            /\ Cardinality(DoneStanding) \in Nat
        BY <4>2, DoneStandingFinite, OneMore
      <4>6. LookedAlone' /\ OneOpenAttempt' /\ RoomLeft'
        BY <2>1, <4>2, <4>3 DEF LookedAlone, OneOpenAttempt, RoomLeft
      <4>7. StandingWithinLimit'
        BY <4>4, <4>5, <1>n DEF StandingWithinLimit
      <4> QED
        BY <1>0, <3>1, <4>6, <4>7 DEF PoolInv
    <3>3. CASE a \notin OpenStanding
      <4>1. \A b \in standing : input'[b] = input[b]
        BY <1>0, <2>1, <2>3, <3>3
        DEF PoolInv, TypeOK, InputStates, StandingRows, OpenStanding
      <4>2. LookedAlone' /\ OneOpenAttempt' /\ RoomLeft' /\ StandingWithinLimit'
        BY <2>1, <4>1, QuietStep DEF PoolInv, LookedAlone
      <4> QED
        BY <1>0, <3>1, <4>2 DEF PoolInv
    <3> QED
      BY <3>2, <3>3
  <2> QED
    BY <1>8, <2>2, <2>3 DEF Finish
<1>9. ASSUME NEW a \in Attempts, LinkRunsOut(a) PROVE PoolInv'
  <2>1. /\ UNCHANGED <<input, gate, startPc>>
        /\ live' = live \ {a}
        /\ standing' = standing \ {a}
    BY <1>9 DEF LinkRunsOut, startVars
  <2>2. GateHeld' /\ StandingRows'
    BY <2>1 DEF PoolInv, GateHeld, StandingRows
  <2>3. LookedAlone' /\ OneOpenAttempt' /\ RoomLeft' /\ StandingWithinLimit'
    BY <2>1, QuietStep DEF PoolInv, LookedAlone
  <2> QED
    BY <1>0, <2>2, <2>3 DEF PoolInv
<1>10. ASSUME NEW a \in Attempts, RotateToken(a) \/ ResendCheck(a) PROVE PoolInv'
  <2>1. UNCHANGED <<input, gate, startPc, standing>> /\ live \subseteq live'
    BY <1>10 DEF RotateToken, ResendCheck, startVars
  <2>2. GateHeld' /\ StandingRows'
    BY <2>1 DEF PoolInv, GateHeld, StandingRows
  <2>3. LookedAlone' /\ OneOpenAttempt' /\ RoomLeft' /\ StandingWithinLimit'
    BY <2>1, QuietStep DEF PoolInv, LookedAlone
  <2> QED
    BY <1>0, <2>2, <2>3 DEF PoolInv
<1>11. CASE ResendMint
  <2>1. PICK a \in Attempts : /\ input[a] = "absent"
                              /\ input' = [input EXCEPT ![a] = "new"]
                              /\ live' = live \cup {a}
    BY <1>11 DEF ResendMint
  <2>2. UNCHANGED <<gate, startPc, standing>>
    BY <1>11 DEF ResendMint, startVars
  <2>3. \A b \in standing : input'[b] = input[b]
    BY <1>0, <2>1 DEF PoolInv, TypeOK, StandingRows
  <2>4. GateHeld' /\ StandingRows'
    BY <2>1, <2>2, <2>3 DEF PoolInv, GateHeld, StandingRows
  <2>5. LookedAlone' /\ OneOpenAttempt' /\ RoomLeft' /\ StandingWithinLimit'
    BY <2>2, <2>3, QuietStep DEF PoolInv, LookedAlone
  <2> QED
    BY <1>0, <2>4, <2>5 DEF PoolInv
<1>12. CASE UNCHANGED vars
  <2>1. UNCHANGED <<input, live, gate, startPc, standing>>
    BY <1>12 DEF vars, startVars
  <2>2. GateHeld' /\ StandingRows'
    BY <2>1 DEF PoolInv, GateHeld, StandingRows
  <2>3. LookedAlone' /\ OneOpenAttempt' /\ RoomLeft' /\ StandingWithinLimit'
    BY <2>1, QuietStep DEF PoolInv, LookedAlone
  <2> QED
    BY <1>0, <2>2, <2>3 DEF PoolInv
<1> QED
  BY <1>1, <1>2, <1>3, <1>4, <1>5, <1>6, <1>7, <1>8, <1>9, <1>10, <1>11, <1>12 DEF Next, Start

-----------------------------------------------------------------------------
\* The pool's inductive invariant holds throughout.
THEOREM PoolInvariance == Spec => []PoolInv
<1>1. Init => PoolInv
  BY PoolInvInit
<1>2. PoolInv /\ [Next]_vars => PoolInv'
  BY PoolInvStep
<1> QED
  BY <1>1, <1>2, PTL DEF Spec

\* Concurrent starts never leave the taker two open attempts whose links held.
THEOREM OneOpenAttemptHolds == Spec => []OneOpenAttempt
<1>1. PoolInv => OneOpenAttempt
  BY DEF PoolInv
<1> QED
  BY <1>1, PoolInvariance, PTL

\* The limit holds for the attempts the start gate answers for.
THEOREM AttemptLimit == Spec => []StandingWithinLimit
<1>1. PoolInv => StandingWithinLimit
  BY DEF PoolInv
<1> QED
  BY <1>1, PoolInvariance, PTL
=============================================================================
