--------------------------- MODULE SessionMachine ---------------------------
(***************************************************************************)
(* What the live session of one survey promises its audience, with no      *)
(* locks, no transactions and no rows: the session is armed, its cursor    *)
(* only ever moves to a later question, and it ends.  Every verb is one    *)
(* indivisible step.  SurveySession is shown to implement this module.     *)
(***************************************************************************)
EXTENDS Naturals

CONSTANTS NQ,            \* number of question positions
          MaxSessions    \* bound on the number of arms

VARIABLES state,         \* "none", "ready" or "in_progress"
          cursor,        \* position of the live question, 0 before the first
          session        \* how many times the survey was armed

vars == <<state, cursor, session>>

Init == state = "none" /\ cursor = 0 /\ session = 0

Arm ==
    /\ state = "none"
    /\ session < MaxSessions
    /\ state' = "ready"
    /\ cursor' = 0
    /\ session' = session + 1

Advance ==
    /\ state # "none"
    /\ \E q \in (cursor + 1)..NQ : cursor' = q
    /\ state' = "in_progress"
    /\ UNCHANGED session

End ==
    /\ state # "none"
    /\ state' = "none"
    /\ UNCHANGED <<cursor, session>>

Next == Arm \/ Advance \/ End

Spec == Init /\ [][Next]_vars
=============================================================================
