------------------------- MODULE CertificationFunnel -------------------------
(***************************************************************************)
(* What happens after an attempt is finished: the completion fact on the   *)
(* sink, then, for a passed certification, the grant fact on the port.     *)
(* finish reads the attempt and the survey's settings without a lock,      *)
(* closes the attempt in a commit that only one of several racing finishes *)
(* gets through, and publishes after it: a crash or a dropped client loses *)
(* what is left to publish.  The host's outbox and the badge consumer are  *)
(* outside this repository; they are modelled by what the port's contract  *)
(* asks of them, delivery at least once and one grant per grant key.       *)
(*                                                                         *)
(* One survey.  Whether an attempt passes is a choice here (ScoreTotals).  *)
(***************************************************************************)
EXTENDS Naturals

CONSTANTS Entrants,      \* attempt rows
          Takers,        \* users
          Anonymous,     \* user_id IS NULL
          Finishers,     \* finish requests that may be under way at once
          RuleChoices    \* settings an officer asks for

Rules == [login : BOOLEAN, certification : BOOLEAN, scored : BOOLEAN,
          badge : BOOLEAN, keyed : BOOLEAN]

ASSUME FunnelAssumption ==
    /\ Anonymous \notin Takers
    /\ RuleChoices \subseteq Rules

VARIABLES
    rules,       \* the survey's settings
    entrant,     \* attempt rows
    finishPc,    \* a finish's step
    finishOn,    \* its attempt
    finishSaw,   \* the attempt's state as it read it
    finishRules, \* the settings as it read them
    finishPass,  \* whether the totals it stored are a success
    announced,   \* AnswerCompleted facts recorded, per attempt
    outbox,      \* grant facts the host has taken over
    grantKeys,   \* grant keys the consumer has granted for
    badges,      \* badges granted, per user
    passed,      \* history: attempts a finish closed as a success
    offered      \* history: attempts open at some moment while the survey gave a badge

finishVars == <<finishPc, finishOn, finishSaw, finishRules, finishPass>>
grantVars  == <<outbox, grantKeys, badges>>
histories  == <<passed, offered>>
funnelVars == <<rules, entrant, finishVars, announced, grantVars, histories>>

-----------------------------------------------------------------------------
(* Types *)

Entrant   == [state : {"absent", "new", "in_progress", "done"},
              owner : Takers \cup {Anonymous}, test : BOOLEAN]
NoEntrant == [state |-> "absent", owner |-> Anonymous, test |-> FALSE]
NoRules   == [login |-> FALSE, certification |-> FALSE, scored |-> FALSE,
              badge |-> FALSE, keyed |-> FALSE]
GrantFact == [key : Takers, user : Takers]

FunnelTypeOK ==
    /\ rules \in Rules
    /\ entrant \in [Entrants -> Entrant]
    /\ finishPc \in [Finishers -> {"idle", "read", "closed", "announced"}]
    /\ \A f \in Finishers : finishPc[f] # "idle" => finishOn[f] \in Entrants
    /\ finishOn \in [Finishers -> Entrants \cup {Anonymous}]
    /\ finishSaw \in [Finishers -> {"absent", "new", "in_progress"}]
    /\ finishRules \in [Finishers -> Rules]
    /\ finishPass \in [Finishers -> BOOLEAN]
    /\ announced \in [Entrants -> Nat]
    /\ outbox \subseteq GrantFact
    /\ grantKeys \subseteq Takers
    /\ badges \in [Takers -> Nat]
    /\ passed \subseteq Entrants
    /\ offered \subseteq Entrants

FunnelInit ==
    /\ rules = NoRules
    /\ entrant = [a \in Entrants |-> NoEntrant]
    /\ finishPc = [f \in Finishers |-> "idle"]
    /\ finishOn = [f \in Finishers |-> Anonymous]
    /\ finishSaw = [f \in Finishers |-> "absent"]
    /\ finishRules = [f \in Finishers |-> NoRules]
    /\ finishPass = [f \in Finishers |-> FALSE]
    /\ announced = [a \in Entrants |-> 0]
    /\ outbox = {}
    /\ grantKeys = {}
    /\ badges = [u \in Takers |-> 0]
    /\ passed = {}
    /\ offered = {}

-----------------------------------------------------------------------------
(* Helpers *)

\* apply_survey_clamps: a certification is scored, and only one with a login
\* gives a badge.
Clamped(s) ==
    [s EXCEPT !.scored = s.scored \/ s.certification,
              !.badge = s.login /\ s.certification]

\* (slip: the fact names the winning attempt, as CertificationFact::new does)
FactOfAttempt(a, u) == [key |-> a, user |-> u]

\* CertificationFact::for_user.
FactFor(a, u) == [key |-> u, user |-> u]

\* Settings under which a success earns the badge.
Gives(s) == s.certification /\ s.login /\ s.scored

\* Attempts a taker can still finish.
OpenEntrants == {a \in Entrants : entrant[a].state \in {"new", "in_progress"}}

\* (slip: a test entry may win a badge)
PublishesTests(f) ==
    /\ finishPass[f]
    /\ finishRules[f].certification /\ finishRules[f].badge /\ finishRules[f].keyed
    /\ entrant[finishOn[f]].owner # Anonymous

\* (slip: the settings are looked up again for the publication)
PublishesNow(f) ==
    /\ finishPass[f]
    /\ rules.certification /\ rules.badge /\ rules.keyed
    /\ ~entrant[finishOn[f]].test
    /\ entrant[finishOn[f]].owner # Anonymous

\* finish goes on to the port: settings as read, no test entry, a known user and
\* a badge key.
Publishes(f) ==
    /\ finishPass[f]
    /\ finishRules[f].certification /\ finishRules[f].badge /\ finishRules[f].keyed
    /\ ~entrant[finishOn[f]].test
    /\ entrant[finishOn[f]].owner # Anonymous

\* The state in which the finish can still close its attempt.
Closable(f) == IF finishSaw[f] = "new" THEN "new" ELSE "in_progress"

FinishOver(f) ==
    /\ finishPc' = [finishPc EXCEPT ![f] = "idle"]
    /\ finishOn' = [finishOn EXCEPT ![f] = Anonymous]
    /\ finishSaw' = [finishSaw EXCEPT ![f] = "absent"]
    /\ finishRules' = [finishRules EXCEPT ![f] = NoRules]
    /\ finishPass' = [finishPass EXCEPT ![f] = FALSE]

-----------------------------------------------------------------------------
(* The survey and its attempts *)

\* An officer saves settings.
SaveRules ==
    /\ \E s \in RuleChoices : rules' = Clamped(s)
    /\ offered' = offered \cup IF Gives(rules') THEN OpenEntrants ELSE {}
    /\ UNCHANGED <<entrant, finishVars, announced, grantVars, passed>>

\* An attempt is minted, for a user, for nobody known, or as a test entry.
EnterSurvey(a) ==
    /\ entrant[a].state = "absent"
    /\ \E owner \in Takers \cup {Anonymous}, test \in BOOLEAN :
          entrant' = [entrant EXCEPT ![a] =
                         [state |-> "new", owner |-> owner, test |-> test]]
    /\ offered' = offered \cup IF Gives(rules) THEN {a} ELSE {}
    /\ UNCHANGED <<rules, finishVars, announced, grantVars, passed>>

\* begin, or the first answer.
StartAnswering(a) ==
    /\ entrant[a].state = "new"
    /\ entrant' = [entrant EXCEPT ![a].state = "in_progress"]
    /\ UNCHANGED <<rules, finishVars, announced, grantVars, histories>>

\* The end of a live session closes attempts too, and publishes nothing.
SweepEntrant(a) ==
    /\ entrant[a].state = "in_progress"
    /\ entrant' = [entrant EXCEPT ![a].state = "done"]
    /\ UNCHANGED <<rules, finishVars, announced, grantVars, histories>>

-----------------------------------------------------------------------------
(* finish *)

\* verify_capability accepts the link; the attempt and the settings are read.
FinishRead(f, a) ==
    /\ finishPc[f] = "idle"
    /\ entrant[a].state \in {"new", "in_progress"}
    /\ finishPc' = [finishPc EXCEPT ![f] = "read"]
    /\ finishOn' = [finishOn EXCEPT ![f] = a]
    /\ finishSaw' = [finishSaw EXCEPT ![f] = entrant[a].state]
    /\ finishRules' = [finishRules EXCEPT ![f] = rules]
    /\ UNCHANGED <<rules, entrant, finishPass, announced, grantVars, histories>>

\* The attempt is closed, scored and committed.
CloseAs(f, pass) ==
    LET a == finishOn[f] IN
    /\ entrant' = [entrant EXCEPT ![a].state = "done"]
    /\ finishPass' = [finishPass EXCEPT ![f] = pass]
    /\ passed' = passed \cup IF pass THEN {a} ELSE {}
    /\ finishPc' = [finishPc EXCEPT ![f] = "closed"]
    /\ UNCHANGED <<rules, finishOn, finishSaw, finishRules, announced, grantVars, offered>>

\* (slip: transition_done answers without a look at the rows it changed)
FinishCloseAnyway(f) ==
    /\ finishPc[f] = "read"
    /\ \E pass \in BOOLEAN : CloseAs(f, pass)

\* transition_begin for an attempt read as new, transition_done, the totals.
FinishClose(f) ==
    /\ finishPc[f] = "read"
    /\ entrant[finishOn[f]].state = Closable(f)
    /\ \E pass \in BOOLEAN : CloseAs(f, pass)

\* Either transition finds the attempt moved on.
FinishRefused(f) ==
    /\ finishPc[f] = "read"
    /\ entrant[finishOn[f]].state # Closable(f)
    /\ FinishOver(f)
    /\ UNCHANGED <<rules, entrant, announced, grantVars, histories>>

\* The sink records AnswerCompleted.
Announce(f) ==
    /\ finishPc[f] = "closed"
    /\ announced' = [announced EXCEPT ![finishOn[f]] = @ + 1]
    /\ \/ /\ Publishes(f)
          /\ finishPc' = [finishPc EXCEPT ![f] = "announced"]
          /\ UNCHANGED <<finishOn, finishSaw, finishRules, finishPass>>
       \/ ~Publishes(f) /\ FinishOver(f)
    /\ UNCHANGED <<rules, entrant, grantVars, histories>>

\* The port takes the fact, or refuses it (none installed, delivery failed), which
\* is only logged; a failure may be reported of a fact that was staged.
PublishGrant(f) ==
    /\ finishPc[f] = "announced"
    /\ \/ outbox' = outbox \cup {FactFor(finishOn[f], entrant[finishOn[f]].owner)}
       \/ UNCHANGED outbox
    /\ FinishOver(f)
    /\ UNCHANGED <<rules, entrant, announced, grantKeys, badges, histories>>

\* An error that rolls back, a crash, a client that went away.
LoseFinish(f) ==
    /\ finishPc[f] # "idle"
    /\ FinishOver(f)
    /\ UNCHANGED <<rules, entrant, announced, grantVars, histories>>

-----------------------------------------------------------------------------
(* The consumer *)

\* A fact reaches the consumer, again and again; one whose grant key it has granted
\* for changes nothing.
GrantBadge(fact) ==
    /\ fact \in outbox
    /\ fact.key \notin grantKeys
    /\ grantKeys' = grantKeys \cup {fact.key}
    /\ badges' = [badges EXCEPT ![fact.user] = @ + 1]
    /\ UNCHANGED <<rules, entrant, finishVars, announced, outbox, histories>>

FunnelNext ==
    \/ SaveRules
    \/ \E a \in Entrants : EnterSurvey(a) \/ StartAnswering(a) \/ SweepEntrant(a)
    \/ \E f \in Finishers : \/ \E a \in Entrants : FinishRead(f, a)
                            \/ FinishClose(f) \/ FinishRefused(f)
                            \/ Announce(f) \/ PublishGrant(f) \/ LoseFinish(f)
    \/ \E fact \in outbox : GrantBadge(fact)

FunnelSpec == FunnelInit /\ [][FunnelNext]_funnelVars

-----------------------------------------------------------------------------
(* Properties *)

\* A user who has earned the badge: by an attempt of theirs, not a test entry, that
\* a finish closed as a success, and that was open at some moment while the survey,
\* as saved, was a scored certification with login.
HasEarned(u) ==
    \E a \in passed \cap offered :
        entrant[a].state = "done" /\ entrant[a].owner = u /\ ~entrant[a].test

\* Settings are saved clamped, and a finish goes by settings that were saved.
RulesClamped ==
    /\ rules = Clamped(rules)
    /\ \A f \in Finishers : finishRules[f] = Clamped(finishRules[f])

\* An attempt that is open while the survey gives a badge is one it was offered to,
\* and settings a finish goes by were in force while its attempt was open.
OffersSound ==
    /\ Gives(rules) => OpenEntrants \subseteq offered
    /\ \A f \in Finishers :
          finishPc[f] # "idle" /\ Gives(finishRules[f]) => finishOn[f] \in offered

\* A finish that is past its commit has closed its attempt, alone, and one that is
\* about to publish publishes for a user who has earned it.
FinishesSound == \A f \in Finishers :
    /\ finishPc[f] \in {"closed", "announced"} =>
          /\ entrant[finishOn[f]].state = "done"
          /\ Publishes(f) => finishOn[f] \in passed \cap offered
    /\ finishPc[f] = "announced" => Publishes(f)
    /\ finishPc[f] = "closed" =>
          /\ announced[finishOn[f]] = 0
          /\ \A g \in Finishers \ {f} :
                finishPc[g] = "closed" => finishOn[g] # finishOn[f]

\* Every fact taken over is for a user who has earned it and carries their key, and
\* every key granted for is of such a user, who has exactly that badge.
FactsSound ==
    /\ \A fact \in outbox : fact.key = fact.user /\ HasEarned(fact.user)
    /\ \A u \in grantKeys : HasEarned(u)
    /\ \A u \in Takers : badges[u] = IF u \in grantKeys THEN 1 ELSE 0

\* The completion of an attempt is announced at most once, and only after the commit
\* that closed it, however many finishes, sweeps and lost clients race for it.
CompletedOnce == \A a \in Entrants :
    announced[a] <= 1 /\ (announced[a] = 1 => entrant[a].state = "done")

\* A badge is granted only to a user who has earned it, though finish reads the
\* settings before its commit and they may be saved anew at any time: a survey that
\* becomes a certification after an attempt was finished grants nothing for it, and
\* one switched between the read and the commit goes by settings the attempt was
\* open under.
GrantsEarned == \A u \in Takers : badges[u] > 0 => HasEarned(u)

\* However many attempts a user passes, one after the other or at once, and however
\* often their facts are delivered, the user is granted one badge.
OneGrantPerUser == \A u \in Takers : badges[u] <= 1

FunnelInv ==
    /\ FunnelTypeOK /\ RulesClamped /\ OffersSound /\ FinishesSound
    /\ FactsSound /\ CompletedOnce
=============================================================================
