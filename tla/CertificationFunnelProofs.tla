---------------------- MODULE CertificationFunnelProofs ----------------------
(***************************************************************************)
(* What holds of completions and badge grants for any number of attempts,  *)
(* users and racing finishes, and any settings an officer may save.        *)
(***************************************************************************)
EXTENDS CertificationFunnel, TLAPS

-----------------------------------------------------------------------------
(* Types *)

\* Clamped settings are settings, and clamping them again changes nothing.
LEMMA ClampedFacts ==
    ASSUME NEW s \in Rules
    PROVE  Clamped(s) \in Rules /\ Clamped(Clamped(s)) = Clamped(s)
<1> DEFINE c == Clamped(s)
<1>1. /\ c \in Rules /\ c.login = s.login /\ c.certification = s.certification
      /\ c.scored = (s.scored \/ s.certification)
      /\ c.badge = (s.login /\ s.certification)
  BY DEF Clamped, Rules
<1>2. [c EXCEPT !.scored = c.scored, !.badge = c.badge] = c
  BY <1>1 DEF Rules
<1>3. (c.scored \/ c.certification) = c.scored /\ (c.login /\ c.certification) = c.badge
  BY <1>1 DEF Rules
<1>4. Clamped(c) = c
  BY <1>2, <1>3 DEF Clamped
<1> QED
  BY <1>1, <1>4

\* The settings of a survey that is not a certification.
LEMMA NoRulesFacts == NoRules \in Rules /\ Clamped(NoRules) = NoRules
<1>1. NoRules \in Rules
  BY DEF NoRules, Rules
<1>2. /\ (NoRules.scored \/ NoRules.certification) = NoRules.scored
      /\ (NoRules.login /\ NoRules.certification) = NoRules.badge
  BY DEF NoRules
<1>3. [NoRules EXCEPT !.scored = NoRules.scored, !.badge = NoRules.badge] = NoRules
  BY <1>1 DEF Rules
<1>4. Clamped(NoRules) = NoRules
  BY <1>2, <1>3 DEF Clamped
<1> QED
  BY <1>1, <1>4

\* The end of a finish keeps its state typed.
LEMMA FinishOverTypes ==
    ASSUME FunnelTypeOK, NEW f \in Finishers, FinishOver(f)
    PROVE  /\ finishPc' \in [Finishers -> {"idle", "read", "closed", "announced"}]
           /\ \A g \in Finishers : finishPc'[g] # "idle" => finishOn'[g] \in Entrants
           /\ finishOn' \in [Finishers -> Entrants \cup {Anonymous}]
           /\ finishSaw' \in [Finishers -> {"absent", "new", "in_progress"}]
           /\ finishRules' \in [Finishers -> Rules]
           /\ finishPass' \in [Finishers -> BOOLEAN]
BY NoRulesFacts DEF FunnelTypeOK, FinishOver

\* Every step keeps the variables in their types.
LEMMA FunnelTypeStep ==
    ASSUME FunnelTypeOK, FinishesSound, FactsSound, [FunnelNext]_funnelVars
    PROVE  FunnelTypeOK'
<1> USE DEF finishVars, grantVars, histories
<1>1. CASE SaveRules
  BY <1>1, ClampedFacts, FunnelAssumption DEF SaveRules, FunnelTypeOK, OpenEntrants
<1>2. ASSUME NEW a \in Entrants, EnterSurvey(a) \/ StartAnswering(a) \/ SweepEntrant(a)
      PROVE  FunnelTypeOK'
  BY <1>2 DEF EnterSurvey, StartAnswering, SweepEntrant, FunnelTypeOK, Entrant
<1>3. ASSUME NEW f \in Finishers, NEW a \in Entrants, FinishRead(f, a) PROVE FunnelTypeOK'
  BY <1>3 DEF FinishRead, FunnelTypeOK, Entrant
<1>4. ASSUME NEW f \in Finishers, FinishClose(f) PROVE FunnelTypeOK'
  BY <1>4 DEF FinishClose, CloseAs, FunnelTypeOK, Entrant
<1>5. ASSUME NEW f \in Finishers, FinishRefused(f) \/ LoseFinish(f) PROVE FunnelTypeOK'
  BY <1>5, FinishOverTypes DEF FinishRefused, LoseFinish, FunnelTypeOK
<1>6. ASSUME NEW f \in Finishers, Announce(f) PROVE FunnelTypeOK'
  <2>1. announced' \in [Entrants -> Nat]
    BY <1>6 DEF Announce, FunnelTypeOK
  <2>2. CASE Publishes(f) /\ finishPc' = [finishPc EXCEPT ![f] = "announced"]
             /\ UNCHANGED <<finishOn, finishSaw, finishRules, finishPass>>
    BY <1>6, <2>1, <2>2 DEF Announce, FunnelTypeOK
  <2>3. CASE FinishOver(f)
    BY <1>6, <2>1, <2>3, FinishOverTypes DEF Announce, FunnelTypeOK
  <2> QED
    BY <1>6, <2>2, <2>3 DEF Announce
<1>7. ASSUME NEW f \in Finishers, PublishGrant(f) PROVE FunnelTypeOK'
  <2>1. entrant[finishOn[f]].owner \in Takers
    BY <1>7 DEF PublishGrant, FunnelTypeOK, FinishesSound, Publishes, Entrant
  <2>2. outbox' \subseteq GrantFact
    BY <1>7, <2>1 DEF PublishGrant, FunnelTypeOK, FactFor, GrantFact
  <2> QED
    BY <1>7, <2>2, FinishOverTypes DEF PublishGrant, FunnelTypeOK
<1>8. ASSUME NEW fact \in outbox, GrantBadge(fact) PROVE FunnelTypeOK'
  BY <1>8 DEF GrantBadge, FunnelTypeOK, GrantFact
<1>9. CASE UNCHANGED funnelVars
  BY <1>9 DEF funnelVars, FunnelTypeOK
<1> QED
  BY <1>1, <1>2, <1>3, <1>4, <1>5, <1>6, <1>7, <1>8, <1>9 DEF FunnelNext

-----------------------------------------------------------------------------
(* What a step leaves alone *)

\* A finished attempt stays as it is, and what passed or was offered a badge remains so.
LEMMA EntrantsStep ==
    ASSUME FunnelTypeOK, [FunnelNext]_funnelVars, NEW a \in Entrants
    PROVE  /\ entrant[a].state = "done" => entrant'[a] = entrant[a]
           /\ passed \subseteq passed' /\ offered \subseteq offered'
<1> USE DEF finishVars, grantVars, histories
<1>1. ASSUME NEW b \in Entrants, EnterSurvey(b) \/ StartAnswering(b) \/ SweepEntrant(b)
      PROVE  /\ entrant[a].state = "done" => entrant'[a] = entrant[a]
             /\ passed' = passed /\ offered \subseteq offered'
  BY <1>1 DEF EnterSurvey, StartAnswering, SweepEntrant, FunnelTypeOK
<1>2. ASSUME NEW f \in Finishers, FinishClose(f)
      PROVE  /\ entrant[a].state = "done" => entrant'[a] = entrant[a]
             /\ passed \subseteq passed' /\ offered' = offered
  BY <1>2 DEF FinishClose, CloseAs, Closable, FunnelTypeOK
<1>3. CASE SaveRules \/ UNCHANGED funnelVars
  BY <1>3 DEF SaveRules, funnelVars
<1>4. ASSUME NEW f \in Finishers,
             \/ \E b \in Entrants : FinishRead(f, b)
             \/ FinishRefused(f) \/ LoseFinish(f) \/ Announce(f) \/ PublishGrant(f)
      PROVE  UNCHANGED <<entrant, histories>>
  BY <1>4 DEF FinishRead, FinishRefused, LoseFinish, Announce, PublishGrant
<1>5. ASSUME NEW fact \in outbox, GrantBadge(fact) PROVE UNCHANGED <<entrant, histories>>
  BY <1>5 DEF GrantBadge
<1> QED
  BY <1>1, <1>2, <1>3, <1>4, <1>5 DEF FunnelNext

\* What a user has earned stays earned.
LEMMA EarnedStays ==
    ASSUME FunnelTypeOK, [FunnelNext]_funnelVars, NEW u, HasEarned(u)
    PROVE  HasEarned(u)'
<1>1. PICK a \in passed \cap offered :
          entrant[a].state = "done" /\ entrant[a].owner = u /\ ~entrant[a].test
  BY DEF HasEarned
<1>2. a \in Entrants
  BY DEF FunnelTypeOK
<1>3. entrant'[a] = entrant[a] /\ a \in passed' \cap offered'
  BY <1>1, <1>2, EntrantsStep
<1> QED
  BY <1>1, <1>3 DEF HasEarned

-----------------------------------------------------------------------------
(* The parts of the invariant *)

\* Settings stay clamped.
LEMMA ClampStep ==
    ASSUME FunnelTypeOK, RulesClamped, [FunnelNext]_funnelVars
    PROVE  RulesClamped'
<1> USE DEF finishVars, grantVars, histories
<1>1. CASE SaveRules
  <2>1. PICK s \in Rules : rules' = Clamped(s)
    BY <1>1, FunnelAssumption DEF SaveRules
  <2> QED
    BY <1>1, <2>1, ClampedFacts DEF SaveRules, RulesClamped
<1>2. ASSUME NEW a \in Entrants, EnterSurvey(a) \/ StartAnswering(a) \/ SweepEntrant(a)
      PROVE  UNCHANGED <<rules, finishRules>>
  BY <1>2 DEF EnterSurvey, StartAnswering, SweepEntrant
<1>3. ASSUME NEW f \in Finishers, NEW a \in Entrants, FinishRead(f, a)
      PROVE  rules' = rules /\ finishRules' = [finishRules EXCEPT ![f] = rules]
  BY <1>3 DEF FinishRead
<1>4. ASSUME NEW f \in Finishers, FinishClose(f) PROVE UNCHANGED <<rules, finishRules>>
  BY <1>4 DEF FinishClose, CloseAs
<1>5. ASSUME NEW f \in Finishers,
             FinishRefused(f) \/ LoseFinish(f) \/ Announce(f) \/ PublishGrant(f)
      PROVE  /\ rules' = rules
             /\ finishRules' = [finishRules EXCEPT ![f] = NoRules] \/ finishRules' = finishRules
  BY <1>5 DEF FinishRefused, LoseFinish, Announce, PublishGrant, FinishOver
<1>6. ASSUME NEW fact \in outbox, GrantBadge(fact) PROVE UNCHANGED <<rules, finishRules>>
  BY <1>6 DEF GrantBadge
<1>7. CASE UNCHANGED <<rules, finishRules>>
  BY <1>7 DEF RulesClamped
<1>8. ASSUME NEW f \in Finishers, NEW r, r = Clamped(r), rules' = rules,
             finishRules' = [finishRules EXCEPT ![f] = r]
      PROVE  RulesClamped'
  BY <1>8 DEF RulesClamped, FunnelTypeOK
<1>9. rules = Clamped(rules)
  BY DEF RulesClamped
<1>10. UNCHANGED funnelVars => UNCHANGED <<rules, finishRules>>
  BY DEF funnelVars
<1> QED
  BY <1>1, <1>2, <1>3, <1>4, <1>5, <1>6, <1>7, <1>8, <1>9, <1>10, NoRulesFacts DEF FunnelNext

\* Attempts that are open while the survey gives a badge are offered it, and so are
\* those of finishes that go by such settings.
LEMMA OffersStep ==
    ASSUME FunnelTypeOK, OffersSound, [FunnelNext]_funnelVars
    PROVE  OffersSound'
<1> USE DEF finishVars, grantVars, histories
<1> DEFINE Reads == \A f \in Finishers :
               finishPc[f] # "idle" /\ Gives(finishRules[f]) => finishOn[f] \in offered
<1>1. ASSUME rules' = rules, OpenEntrants' \subseteq OpenEntrants, offered' = offered, Reads'
      PROVE  OffersSound'
  BY <1>1 DEF OffersSound, Gives
<1>2. ASSUME UNCHANGED finishVars, offered \subseteq offered' PROVE Reads'
  BY <1>2 DEF OffersSound, Gives
<1>3. CASE SaveRules
  <2>1. OpenEntrants' = OpenEntrants /\ Reads'
    BY <1>2, <1>3 DEF SaveRules, OpenEntrants
  <2> QED
    BY <1>3, <2>1 DEF SaveRules, OffersSound, Gives
<1>4. ASSUME NEW a \in Entrants, EnterSurvey(a) PROVE OffersSound'
  <2>1. OpenEntrants' \subseteq OpenEntrants \cup {a}
    BY <1>4 DEF EnterSurvey, OpenEntrants, FunnelTypeOK
  <2> QED
    BY <1>2, <1>4, <2>1 DEF EnterSurvey, OffersSound, Gives
<1>5. ASSUME NEW a \in Entrants, StartAnswering(a) \/ SweepEntrant(a) PROVE OffersSound'
  <2>1. OpenEntrants' \subseteq OpenEntrants
    BY <1>5 DEF StartAnswering, SweepEntrant, OpenEntrants, FunnelTypeOK
  <2> QED
    BY <1>1, <1>2, <1>5, <2>1 DEF StartAnswering, SweepEntrant
<1>6. ASSUME NEW f \in Finishers, NEW a \in Entrants, FinishRead(f, a) PROVE OffersSound'
  <2>1. Gives(rules) => a \in offered
    BY <1>6 DEF FinishRead, OffersSound, OpenEntrants
  <2>2. Reads'
    BY <1>6, <2>1 DEF FinishRead, OffersSound, Gives, FunnelTypeOK
  <2> QED
    BY <1>1, <1>6, <2>2 DEF FinishRead, OpenEntrants
<1>7. ASSUME NEW f \in Finishers, FinishClose(f) PROVE OffersSound'
  <2>1. Reads'
    BY <1>7 DEF FinishClose, CloseAs, OffersSound, Gives, FunnelTypeOK
  <2>2. OpenEntrants' \subseteq OpenEntrants
    BY <1>7 DEF FinishClose, CloseAs, OpenEntrants, FunnelTypeOK
  <2> QED
    BY <1>1, <1>7, <2>1, <2>2 DEF FinishClose, CloseAs
<1>8. ASSUME NEW f \in Finishers,
             FinishRefused(f) \/ Announce(f) \/ PublishGrant(f) \/ LoseFinish(f)
      PROVE  OffersSound'
  <2>1. UNCHANGED <<rules, entrant, offered>>
    BY <1>8 DEF FinishRefused, Announce, PublishGrant, LoseFinish
  <2>2. \/ FinishOver(f)
        \/ finishPc' = [finishPc EXCEPT ![f] = "announced"] /\ finishPc[f] # "idle"
           /\ UNCHANGED <<finishOn, finishRules>>
    BY <1>8 DEF FinishRefused, Announce, PublishGrant, LoseFinish
  <2>3. Reads'
    BY <2>1, <2>2 DEF FinishOver, OffersSound, Gives, FunnelTypeOK
  <2> QED
    BY <1>1, <2>1, <2>3 DEF OpenEntrants
<1>9. ASSUME NEW fact \in outbox, GrantBadge(fact) PROVE OffersSound'
  BY <1>1, <1>2, <1>9 DEF GrantBadge, OpenEntrants
<1>10. CASE UNCHANGED funnelVars
  BY <1>1, <1>2, <1>10 DEF funnelVars, OpenEntrants
<1> QED
  BY <1>3, <1>4, <1>5, <1>6, <1>7, <1>8, <1>9, <1>10 DEF FunnelNext

\* A finish that publishes has closed its attempt as a success, and that attempt was
\* open while the survey gave the badge.
LEMMA ClosedHasPassed ==
    ASSUME FunnelTypeOK, RulesClamped, OffersSound, NEW f \in Finishers, FinishClose(f),
           Publishes(f)'
    PROVE  finishOn[f] \in passed' \cap offered'
<1>1. finishRules[f] \in Rules /\ finishRules[f] = Clamped(finishRules[f])
  BY DEF FunnelTypeOK, RulesClamped
<1>2. finishRules[f].certification /\ finishRules[f].badge
  BY DEF FinishClose, CloseAs, Publishes
<1>3. finishRules[f].login /\ finishRules[f].scored
  BY <1>1, <1>2 DEF Clamped, Rules
<1>4. finishOn[f] \in offered
  BY <1>2, <1>3 DEF FinishClose, OffersSound, Gives
<1>5. PICK pass \in BOOLEAN : CloseAs(f, pass)
  BY DEF FinishClose
<1>6. pass
  BY <1>5 DEF CloseAs, Publishes, FunnelTypeOK
<1> QED
  BY <1>4, <1>5, <1>6 DEF CloseAs

\* Whatever else a step does, a finish it does not move stays sound.
LEMMA OthersSound ==
    ASSUME FunnelTypeOK, FinishesSound, [FunnelNext]_funnelVars, NEW f \in Finishers,
           finishPc'[f] = finishPc[f], finishOn'[f] = finishOn[f],
           finishRules'[f] = finishRules[f], finishPass'[f] = finishPass[f],
           finishPc[f] \in {"closed", "announced"}
    PROVE  /\ entrant'[finishOn[f]].state = "done"
           /\ Publishes(f)' <=> Publishes(f)
           /\ Publishes(f)' => finishOn'[f] \in passed' \cap offered'
           /\ finishPc'[f] = "announced" => Publishes(f)'
<1>1. finishOn[f] \in Entrants /\ entrant[finishOn[f]].state = "done"
  BY DEF FunnelTypeOK, FinishesSound
<1>2. /\ entrant'[finishOn[f]] = entrant[finishOn[f]]
      /\ passed \subseteq passed' /\ offered \subseteq offered'
  BY <1>1, EntrantsStep
<1>3. Publishes(f)' <=> Publishes(f)
  BY <1>2 DEF Publishes
<1> QED
  BY <1>1, <1>2, <1>3 DEF FinishesSound

\* A step of one finish.
LEMMA FinishStep ==
    ASSUME FunnelInv, NEW f \in Finishers,
           \/ \E a \in Entrants : FinishRead(f, a)
           \/ FinishClose(f) \/ FinishRefused(f) \/ Announce(f) \/ PublishGrant(f) \/ LoseFinish(f)
    PROVE  FinishesSound' /\ CompletedOnce'
<1> USE DEF finishVars, grantVars, histories
<1>1. /\ FunnelTypeOK /\ RulesClamped /\ OffersSound /\ FinishesSound /\ CompletedOnce
      /\ [FunnelNext]_funnelVars
  BY DEF FunnelInv, FunnelNext
<1>2. ASSUME NEW g \in Finishers, g # f
      PROVE  /\ finishPc'[g] = finishPc[g] /\ finishOn'[g] = finishOn[g]
             /\ finishRules'[g] = finishRules[g] /\ finishPass'[g] = finishPass[g]
  <2>1. ASSUME NEW a \in Entrants, FinishRead(f, a)
        PROVE  /\ finishPc'[g] = finishPc[g] /\ finishOn'[g] = finishOn[g]
               /\ finishRules'[g] = finishRules[g] /\ finishPass'[g] = finishPass[g]
    BY <1>1, <1>2, <2>1 DEF FinishRead, FunnelTypeOK
  <2>2. CASE FinishClose(f)
    BY <1>1, <1>2, <2>2 DEF FinishClose, CloseAs, FunnelTypeOK
  <2>3. CASE FinishRefused(f) \/ PublishGrant(f) \/ LoseFinish(f)
    BY <1>1, <1>2, <2>3 DEF FinishRefused, PublishGrant, LoseFinish, FinishOver, FunnelTypeOK
  <2>4. CASE Announce(f)
    BY <1>1, <1>2, <2>4 DEF Announce, FinishOver, FunnelTypeOK
  <2> QED
    BY <2>1, <2>2, <2>3, <2>4
<1>3. ASSUME NEW g \in Finishers, g # f, finishPc'[g] \in {"closed", "announced"}
      PROVE  /\ entrant'[finishOn'[g]].state = "done"
             /\ Publishes(g)' => finishOn'[g] \in passed' \cap offered'
             /\ finishPc'[g] = "announced" => Publishes(g)'
  BY <1>1, <1>2, <1>3, OthersSound
<1>4. ASSUME finishPc'[f] \in {"idle", "read"}, announced' = announced
      PROVE  FinishesSound' /\ CompletedOnce'
  <2>1. CompletedOnce'
    BY <1>1, <1>4, EntrantsStep DEF CompletedOnce
  <2>2. ASSUME NEW g \in Finishers, NEW h \in Finishers \ {g}, finishPc'[g] = "closed"
        PROVE  announced'[finishOn'[g]] = 0 /\ (finishPc'[h] = "closed" => finishOn'[h] # finishOn'[g])
    BY <1>1, <1>2, <1>4, <2>2 DEF FinishesSound
  <2>3. ASSUME NEW g \in Finishers, finishPc'[g] = "closed" PROVE announced'[finishOn'[g]] = 0
    BY <1>1, <1>2, <1>4, <2>3 DEF FinishesSound
  <2> QED
    BY <1>3, <1>4, <2>1, <2>2, <2>3 DEF FinishesSound
<1>5. CASE \E a \in Entrants : FinishRead(f, a)
  BY <1>1, <1>4, <1>5 DEF FinishRead, FunnelTypeOK
<1>6. CASE FinishRefused(f) \/ PublishGrant(f) \/ LoseFinish(f)
  BY <1>1, <1>4, <1>6 DEF FinishRefused, PublishGrant, LoseFinish, FinishOver, FunnelTypeOK
<1>7. CASE FinishClose(f)
  <2> DEFINE a == finishOn[f]
  <2>1. /\ a \in Entrants /\ entrant[a].state # "done"
        /\ entrant'[a].state = "done" /\ finishPc'[f] = "closed"
        /\ UNCHANGED <<finishOn, announced>>
    BY <1>1, <1>7 DEF FinishClose, CloseAs, Closable, FunnelTypeOK
  <2>2. announced[a] = 0
    BY <1>1, <2>1 DEF CompletedOnce, FunnelTypeOK
  <2>3. CompletedOnce'
    BY <1>1, <2>1, EntrantsStep DEF CompletedOnce
  <2>4. ASSUME NEW g \in Finishers, g # f, finishPc'[g] = "closed"
        PROVE  /\ finishOn'[g] # a
               /\ announced'[finishOn'[g]] = 0
               /\ \A h \in Finishers \ {g, f} : finishPc'[h] = "closed" => finishOn'[h] # finishOn'[g]
    BY <1>1, <1>2, <2>1, <2>4 DEF FinishesSound
  <2>5. Publishes(f)' => finishOn'[f] \in passed' \cap offered'
    BY <1>1, <1>7, <2>1, ClosedHasPassed
  <2> QED
    BY <1>3, <2>1, <2>2, <2>3, <2>4, <2>5 DEF FinishesSound
<1>8. CASE Announce(f)
  <2> DEFINE a == finishOn[f]
  <2>1. /\ a \in Entrants /\ entrant[a].state = "done" /\ announced[a] = 0
        /\ Publishes(f) => a \in passed \cap offered
    BY <1>1, <1>8 DEF Announce, FunnelTypeOK, FinishesSound
  <2>2. announced' = [announced EXCEPT ![a] = 1] /\ UNCHANGED <<entrant, passed, offered>>
    BY <1>1, <1>8, <2>1 DEF Announce, FunnelTypeOK
  <2>3. CompletedOnce'
    BY <1>1, <2>1, <2>2 DEF CompletedOnce, FunnelTypeOK
  <2>4. \/ finishPc'[f] = "idle"
        \/ /\ Publishes(f) /\ finishPc'[f] = "announced"
           /\ UNCHANGED <<finishOn, finishRules, finishPass>>
    BY <1>1, <1>8 DEF Announce, FinishOver, FunnelTypeOK
  <2>5. ASSUME NEW g \in Finishers, finishPc'[g] = "closed"
        PROVE  /\ announced'[finishOn'[g]] = 0
               /\ \A h \in Finishers \ {g} : finishPc'[h] = "closed" => finishOn'[h] # finishOn'[g]
    <3>1. g # f /\ finishPc[f] = "closed" /\ finishPc[g] = "closed"
      BY <1>2, <1>8, <2>4, <2>5 DEF Announce
    <3>2. finishOn[g] # a /\ announced[finishOn[g]] = 0 /\ finishOn[g] \in Entrants
      BY <1>1, <3>1 DEF FinishesSound, FunnelTypeOK
    <3>3. \A h \in Finishers \ {g} : finishPc'[h] = "closed" => h # f
      BY <2>4
    <3> QED
      BY <1>1, <1>2, <2>2, <3>1, <3>2, <3>3 DEF FinishesSound, FunnelTypeOK
  <2>6. finishPc'[f] = "announced" => /\ entrant'[finishOn'[f]].state = "done"
                                      /\ finishOn'[f] \in passed' \cap offered'
                                      /\ Publishes(f)'
    BY <2>1, <2>2, <2>4 DEF Publishes
  <2> QED
    BY <1>3, <2>3, <2>4, <2>5, <2>6 DEF FinishesSound
<1> QED
  BY <1>5, <1>6, <1>7, <1>8

\* Every step keeps the finishes sound and completions announced once.
LEMMA SoundStep ==
    ASSUME FunnelInv, [FunnelNext]_funnelVars
    PROVE  FinishesSound' /\ CompletedOnce'
<1> USE DEF finishVars, grantVars, histories
<1>1. ASSUME UNCHANGED <<finishVars, announced>> PROVE FinishesSound' /\ CompletedOnce'
  <2>1. FunnelTypeOK /\ FinishesSound /\ CompletedOnce
    BY DEF FunnelInv
  <2>2. CompletedOnce'
    BY <1>1, <2>1, EntrantsStep DEF CompletedOnce
  <2>3. ASSUME NEW f \in Finishers, finishPc'[f] \in {"closed", "announced"}
        PROVE  /\ entrant'[finishOn'[f]].state = "done"
               /\ Publishes(f)' => finishOn'[f] \in passed' \cap offered'
               /\ finishPc'[f] = "announced" => Publishes(f)'
    BY <1>1, <2>1, <2>3, OthersSound
  <2> QED
    BY <1>1, <2>1, <2>2, <2>3 DEF FinishesSound
<1>2. CASE SaveRules \/ UNCHANGED funnelVars
  BY <1>1, <1>2 DEF SaveRules, funnelVars
<1>3. ASSUME NEW a \in Entrants, EnterSurvey(a) \/ StartAnswering(a) \/ SweepEntrant(a)
      PROVE  UNCHANGED <<finishVars, announced>>
  BY <1>3 DEF EnterSurvey, StartAnswering, SweepEntrant
<1>4. ASSUME NEW fact \in outbox, GrantBadge(fact) PROVE UNCHANGED <<finishVars, announced>>
  BY <1>4 DEF GrantBadge
<1> QED
  BY <1>1, <1>2, <1>3, <1>4, FinishStep DEF FunnelNext

\* Every step keeps the facts and the grants sound.
LEMMA FactsStep ==
    ASSUME FunnelInv, [FunnelNext]_funnelVars
    PROVE  FactsSound'
<1> USE DEF finishVars, grantVars, histories
<1>1. FunnelTypeOK /\ FinishesSound /\ FactsSound
  BY DEF FunnelInv
<1>2. ASSUME outbox' = outbox, grantKeys' = grantKeys, badges' = badges PROVE FactsSound'
  BY <1>1, <1>2, EarnedStays DEF FactsSound
<1>3. ASSUME NEW f \in Finishers, PublishGrant(f) PROVE FactsSound'
  <2> DEFINE a == finishOn[f]
             fact == FactFor(a, entrant[a].owner)
  <2>1. a \in passed \cap offered /\ entrant[a].state = "done" /\ ~entrant[a].test
    BY <1>1, <1>3 DEF PublishGrant, FinishesSound, Publishes
  <2>2. HasEarned(entrant[a].owner)
    BY <2>1 DEF HasEarned
  <2>3. fact.key = entrant[a].owner /\ fact.user = entrant[a].owner
    BY DEF FactFor
  <2>4. \A x \in outbox' : x.key = x.user /\ HasEarned(x.user)
    BY <1>1, <1>3, <2>2, <2>3 DEF PublishGrant, FactsSound
  <2>5. \A u : HasEarned(u) => HasEarned(u)'
    BY <1>1, EarnedStays
  <2> QED
    BY <1>1, <1>3, <2>4, <2>5 DEF PublishGrant, FactsSound
<1>4. ASSUME NEW fact \in outbox, GrantBadge(fact) PROVE FactsSound'
  <2>1. fact.key = fact.user /\ HasEarned(fact.user) /\ fact.user \in Takers
    BY <1>1 DEF FactsSound, FunnelTypeOK, GrantFact
  <2>2. fact.user \notin grantKeys
    BY <1>4, <2>1 DEF GrantBadge
  <2>3. badges[fact.user] = 0
    BY <1>1, <2>1, <2>2 DEF FactsSound
  <2>4. /\ badges' = [badges EXCEPT ![fact.user] = 1]
        /\ grantKeys' = grantKeys \cup {fact.user}
        /\ outbox' = outbox
    BY <1>4, <2>1, <2>3 DEF GrantBadge
  <2>5. \A u : HasEarned(u) => HasEarned(u)'
    BY <1>1, EarnedStays
  <2> QED
    BY <1>1, <2>1, <2>4, <2>5 DEF FactsSound, FunnelTypeOK
<1>5. CASE SaveRules \/ UNCHANGED funnelVars
  BY <1>2, <1>5 DEF SaveRules, funnelVars
<1>6. ASSUME NEW a \in Entrants, EnterSurvey(a) \/ StartAnswering(a) \/ SweepEntrant(a)
      PROVE  outbox' = outbox /\ grantKeys' = grantKeys /\ badges' = badges
  BY <1>6 DEF EnterSurvey, StartAnswering, SweepEntrant
<1>7. ASSUME NEW f \in Finishers,
             \/ \E a \in Entrants : FinishRead(f, a)
             \/ FinishClose(f) \/ FinishRefused(f) \/ Announce(f) \/ LoseFinish(f)
      PROVE  outbox' = outbox /\ grantKeys' = grantKeys /\ badges' = badges
  BY <1>7 DEF FinishRead, FinishClose, CloseAs, FinishRefused, Announce, LoseFinish
<1> QED
  BY <1>2, <1>3, <1>4, <1>5, <1>6, <1>7 DEF FunnelNext

-----------------------------------------------------------------------------
(* Theorems *)

\* At the start nothing is finished or granted.
LEMMA FunnelStarts == FunnelInit => FunnelInv
<1> SUFFICES ASSUME FunnelInit PROVE FunnelInv
  OBVIOUS
<1>1. FunnelTypeOK
  BY NoRulesFacts DEF FunnelInit, FunnelTypeOK, Entrant, NoEntrant
<1>2. RulesClamped
  BY NoRulesFacts DEF FunnelInit, RulesClamped
<1>3. FinishesSound /\ CompletedOnce
  BY DEF FunnelInit, FinishesSound, CompletedOnce
<1>4. FactsSound
  BY DEF FunnelInit, FactsSound
<1>5. OffersSound
  BY DEF FunnelInit, OffersSound, Gives, NoRules
<1> QED
  BY <1>1, <1>2, <1>3, <1>4, <1>5 DEF FunnelInv

\* The inductive invariant of the certification funnel.
THEOREM FunnelInvariance == FunnelSpec => []FunnelInv
<1>1. FunnelInv /\ [FunnelNext]_funnelVars => FunnelInv'
  BY FunnelTypeStep, ClampStep, OffersStep, SoundStep, FactsStep DEF FunnelInv
<1> QED
  BY FunnelStarts, <1>1, PTL DEF FunnelSpec

\* An attempt's completion is announced at most once, after its commit (the
\* condition of transition_done).
THEOREM CompletionsOnce == FunnelSpec => []CompletedOnce
<1>1. FunnelInv => CompletedOnce
  BY DEF FunnelInv
<1> QED
  BY FunnelInvariance, <1>1, PTL

\* Only users who passed an attempt that was open while the survey was a scored
\* certification with login hold a badge, whenever settings are saved (finish keeps to
\* the settings it read, and apply_survey_clamps' badge interlock).
THEOREM GrantsAreEarned == FunnelSpec => []GrantsEarned
<1>1. FunnelInv => GrantsEarned
  BY DEF FunnelInv, FactsSound, GrantsEarned
<1> QED
  BY FunnelInvariance, <1>1, PTL

\* One badge per user, however many attempts pass and however often facts are
\* delivered (CertificationFact::for_user keys the grant on the user).
THEOREM GrantsOncePerUser == FunnelSpec => []OneGrantPerUser
<1>1. FunnelInv => OneGrantPerUser
  BY DEF FunnelInv, FactsSound, OneGrantPerUser
<1> QED
  BY FunnelInvariance, <1>1, PTL
=============================================================================
