---------------------------- MODULE MCTakerPaths ----------------------------
(***************************************************************************)
(* Small instances of the six components around an attempt that share no   *)
(* variable: the lockout book, the links, the certification funnel, the    *)
(* question pages, the choice scores and the totals.  A behaviour is one   *)
(* of one component, named by `part`, so that their states add up and do   *)
(* not multiply.  The pages have two instances, a short survey with two    *)
(* upserts and a long one with one, and so have the links: requests and    *)
(* officers alone, and an invite beside one request.                       *)
(***************************************************************************)
EXTENDS CodeLockout, AttemptLink, CertificationFunnel, QuestionPages,
        ChoiceScores, ScoreTotals, TLC

VARIABLE part

pathVars == <<part, lockoutVars, linkVars, funnelVars, pageVars, scoresVars,
              totalsVars>>

-----------------------------------------------------------------------------
\* A certification with a login, and one without that asks for a badge.
MCRules ==
    {[login |-> TRUE, certification |-> TRUE, scored |-> FALSE,
      badge |-> FALSE, keyed |-> TRUE],
     [login |-> FALSE, certification |-> TRUE, scored |-> FALSE,
      badge |-> TRUE, keyed |-> TRUE]}

\* A right label, present or gone, a wrong one, and one that costs a point.
MCLabelRow(live, correct, weight) ==
    [live |-> live, correct |-> correct, weight |-> weight]
MCLabelRows == {MCLabelRow(TRUE, TRUE, 0), MCLabelRow(FALSE, TRUE, 0),
                MCLabelRow(TRUE, FALSE, 0), MCLabelRow(TRUE, FALSE, -1)}

\* Each scalar is shown by a choice.
MCParent == [q \in Scalars |-> CHOOSE p \in Selects : TRUE]

\* Requests, rows and people are interchangeable; the components use the same model
\* values for them, which keeps the number of permutations small.
Symmetry ==
    Permutations(Guessers \cup LinkRequests \cup Finishers \cup Editors \cup Writers)
        \cup Permutations(LinkRows \cup Entrants \cup Labels)
        \cup Permutations(Invited \cup Takers \cup Graders)

-----------------------------------------------------------------------------
PathsInit ==
    /\ part \in {"lockout", "links", "invites", "funnel", "short pages", "long pages",
                 "scores", "totals"}
    /\ LockoutInit
    /\ LinkInit
    /\ FunnelInit
    /\ PagesInit
    /\ ScoresInit
    /\ TotalsInit
    /\ scoring.rated => scoring.scored
    /\ part # "scores" =>
          /\ choiceKind = "simple"
          /\ label = [l \in Labels |-> MCLabelRow(TRUE, TRUE, 0)]
          /\ scoring = [scored |-> TRUE, rated |-> TRUE]

AtMostOne(S) == Cardinality(S) <= 1

\* Nobody is invited.
NoInvites == batchPc' = "idle" /\ \A a \in LinkRows : linkRow'[a].who = {}

\* One request; a row is one an invite may come across, and has a deadline.
FewRequests ==
    /\ AtMostOne({t \in LinkRequests : reqPc'[t] # "idle"})
    /\ \A a \in LinkRows : linkRow'[a].state # "absent" =>
          linkRow'[a].who # {} /\ linkRow'[a].deadline # NoLimit

\* Two upserts, two questions, no deleted row; the first question may go before or
\* after the second.
ShortPages ==
    /\ question'[3] = NoRow /\ \A e \in Editors : 3 \notin editHeld'[e]
    /\ question'[2].place = 1 /\ \A e \in Editors : editRow'[e][2].place = 1
    /\ \A q \in Questions : question'[q].stored # "deleted"

\* One upsert, three questions, one place, one deleted row.
LongPages ==
    /\ AtMostOne({q \in Questions : question'[q].stored = "deleted"})
    /\ AtMostOne({e \in Editors : editPc'[e] # "idle"})
    /\ \A q \in Questions :
          question'[q].place = 1 /\ \A e \in Editors : editRow'[e][q].place = 1

PathsNext ==
    /\ UNCHANGED part
    /\ \/ /\ part = "lockout"
          /\ LockoutNext
          /\ UNCHANGED <<linkVars, funnelVars, pageVars, scoresVars, totalsVars>>
       \/ /\ part \in {"links", "invites"}
          /\ LinkNext
          /\ IF part = "links" THEN NoInvites ELSE FewRequests
          /\ UNCHANGED <<lockoutVars, funnelVars, pageVars, scoresVars, totalsVars>>
       \/ /\ part = "funnel"
          /\ FunnelNext
          /\ UNCHANGED <<lockoutVars, linkVars, pageVars, scoresVars, totalsVars>>
       \/ /\ part \in {"short pages", "long pages"}
          /\ PagesNext
          /\ IF part = "short pages" THEN ShortPages ELSE LongPages
          /\ UNCHANGED <<lockoutVars, linkVars, funnelVars, scoresVars, totalsVars>>
       \/ /\ part = "scores"
          /\ ScoresNext
          /\ scoring'.rated => scoring'.scored
          /\ UNCHANGED <<lockoutVars, linkVars, funnelVars, pageVars, totalsVars>>
       \/ /\ part = "totals"
          /\ TotalsNext
          /\ UNCHANGED <<lockoutVars, linkVars, funnelVars, pageVars, scoresVars>>

PathsSpec == PathsInit /\ [][PathsNext]_pathVars

\* The inductive invariants the components' theorems rest on, each in the instance
\* of its component: join_by_code's lockout book, the capability links, finish and
\* its facts, upsert_question's page assignments, the stored shares, the stored
\* totals under submits, finishes, sweeps and regrades.
PathsInv ==
    /\ part = "lockout" => LockoutInv
    /\ part \in {"links", "invites"} => LinkInv
    /\ part = "funnel" => FunnelInv
    /\ part \in {"short pages", "long pages"} => PagesInv
    /\ part = "scores" => ScoresInv
    /\ part = "totals" => ScoreInv
=============================================================================
