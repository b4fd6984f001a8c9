---------------------------- MODULE AttemptLink -----------------------------
(***************************************************************************)
(* The links of a survey's attempts: who mints one, who replaces one, and  *)
(* what a request does under one.  A request verifies its link in one      *)
(* transaction and uses it in the next.  An officer replaces single links  *)
(* or invites a batch of recipients in one long transaction, which mints   *)
(* rows and renews the links of open ones.  Until it commits, its rows are *)
(* locked and invisible; when one of its statements fails, PostgreSQL      *)
(* undoes and unlocks them at once, and its commit is a rollback.          *)
(*                                                                         *)
(* A link is a row and a nonce.  The nonces of a row are numbered in the   *)
(* order in which they were drawn, whether or not they were ever stored.   *)
(***************************************************************************)
EXTENDS Integers

CONSTANTS LinkRows,      \* attempt rows, ids included that no commit ever stores
          LinkRequests,  \* takers' requests that may be under way at once
          Invited,       \* the recipients of an invite's list
          Limits,        \* deadlines
          NoLimit,       \* deadline IS NULL
          Nowhere,       \* no row
          MaxIssued      \* bound: nonces per row

ASSUME LinkAssumption ==
    /\ NoLimit \notin Limits
    /\ Nowhere \notin LinkRows
    /\ MaxIssued \in Nat \ {0}

VARIABLES
    linkRow,      \* committed rows
    issued,       \* nonces drawn for each row so far
    reqPc,        \* a request's step
    reqLink,      \* the link it carries
    reqSaw,       \* the row's state as its finish read it
    reqDead,      \* history: nothing could open by its link when it came
    batchPc,      \* the invite's step
    batchMode,    \* existing_mode
    batchLeft,    \* recipients not yet served
    batchAt,      \* the recipient being served, and the open row found for it
    batchRow,     \* rows as the invite's transaction has written them
    batchHeld,    \* rows it has written, hence locked
    batchTold,    \* links it answers and has recorded facts of
    batchFailed   \* recipients it answers an error

rowVars   == <<linkRow, issued>>
reqVars   == <<reqPc, reqLink, reqSaw, reqDead>>
batchVars == <<batchPc, batchMode, batchLeft, batchAt, batchRow, batchHeld,
               batchTold, batchFailed>>
linkVars  == <<rowVars, reqVars, batchVars>>

-----------------------------------------------------------------------------
(* Types *)

LinkStates == {"absent", "new", "in_progress", "done"}
LinkRecord == [state : LinkStates,
               who : SUBSET Invited,   \* recipients whose email or partner it carries
               nonce : Nat,
               deadline : Limits \cup {NoLimit}]
NoRecord   == [state |-> "absent", who |-> {}, nonce |-> 0,
               deadline |-> NoLimit]
Link       == [row : LinkRows \cup {Nowhere}, nonce : Nat]
NoLink     == [row |-> Nowhere, nonce |-> 0]
Serving    == [who : Invited \cup {Nowhere}, prior : LinkRows \cup {Nowhere}]
NoOne      == [who |-> Nowhere, prior |-> Nowhere]

LinkTypeOK ==
    /\ linkRow \in [LinkRows -> LinkRecord]
    /\ issued \in [LinkRows -> Nat]
    /\ reqPc \in [LinkRequests -> {"idle", "asked", "verified", "finishing"}]
    /\ reqLink \in [LinkRequests -> Link]
    /\ reqSaw \in [LinkRequests -> LinkStates]
    /\ reqDead \in [LinkRequests -> BOOLEAN]
    /\ batchPc \in {"idle", "open", "serving", "answered"}
    /\ batchMode \in {"new", "resend"}
    /\ batchLeft \in SUBSET Invited
    /\ batchAt \in Serving
    /\ batchRow \in [LinkRows -> LinkRecord]
    /\ batchHeld \in SUBSET LinkRows
    /\ batchTold \in [Invited -> Link]
    /\ batchFailed \in SUBSET Invited

BatchEmpty(pc) ==
    /\ batchPc' = pc
    /\ batchMode' = "new"
    /\ batchLeft' = {}
    /\ batchAt' = NoOne
    /\ batchRow' = [a \in LinkRows |-> NoRecord]
    /\ batchHeld' = {}
    /\ batchTold' = [r \in Invited |-> NoLink]
    /\ batchFailed' = {}

LinkInit ==
    /\ linkRow = [a \in LinkRows |-> NoRecord]
    /\ issued = [a \in LinkRows |-> 0]
    /\ reqPc = [t \in LinkRequests |-> "idle"]
    /\ reqLink = [t \in LinkRequests |-> NoLink]
    /\ reqSaw = [t \in LinkRequests |-> "absent"]
    /\ reqDead = [t \in LinkRequests |-> FALSE]
    /\ batchPc = "idle"
    /\ batchMode = "new"
    /\ batchLeft = {}
    /\ batchAt = NoOne
    /\ batchRow = [a \in LinkRows |-> NoRecord]
    /\ batchHeld = {}
    /\ batchTold = [r \in Invited |-> NoLink]
    /\ batchFailed = {}

-----------------------------------------------------------------------------
(* Helpers *)

IsOpen(row) == row.state \in {"new", "in_progress"}

\* What mint_attempt stores; the survey's limit may have been switched on or off
\* at any time, so the deadline of a fresh row is free.
Minted(who, state, deadline) ==
    [state |-> state, who |-> who, nonce |-> 1, deadline |-> deadline]

\* rotate_nonce: a fresh nonce (and expiry).
Renewed(row, nonce) == [row EXCEPT !.nonce = nonce]

\* (slip: the deadline derived at the begin wins)
BegunOverwrites(row, limit) == [row EXCEPT !.state = "in_progress", !.deadline = limit]

\* transition_begin: COALESCE(deadline, limit).
Begun(row, limit) ==
    [row EXCEPT !.state = "in_progress",
                !.deadline = IF row.deadline = NoLimit THEN limit ELSE row.deadline]

\* transition_done and the session-end sweep.
Finished(row) == [row EXCEPT !.state = "done"]

\* (slip: the MAC is computed over the nonce the link presents)
OpensPresented(link) ==
    /\ link.row # Nowhere
    /\ IsOpen(linkRow[link.row])

\* verify_capability accepts the link: MAC, nonce and expiry are those of the
\* stored row, which is not finished.
Opens(link) ==
    /\ link.row # Nowhere
    /\ IsOpen(linkRow[link.row])
    /\ linkRow[link.row].nonce = link.nonce

\* The link is neither stored nor about to be stored by the invite under way.
Dead(link) ==
    /\ linkRow[link.row].nonce # link.nonce
    /\ link.row \in batchHeld => batchRow[link.row].nonce # link.nonce

\* A row as the invite's transaction sees it.
InBatch(a) == IF a \in batchHeld THEN batchRow[a] ELSE linkRow[a]

\* PostgreSQL has aborted the invite's transaction.
Aborted == batchFailed # {}

RequestOver(t) ==
    /\ reqPc' = [reqPc EXCEPT ![t] = "idle"]
    /\ reqLink' = [reqLink EXCEPT ![t] = NoLink]
    /\ reqSaw' = [reqSaw EXCEPT ![t] = "absent"]
    /\ reqDead' = [reqDead EXCEPT ![t] = FALSE]

-----------------------------------------------------------------------------
(* Single rows *)

\* public_start, join_by_code, test_start and resend mint an attempt; a joined
\* one may start in_progress.
Mint(a) ==
    /\ issued[a] = 0
    /\ \E who \in SUBSET Invited, state \in {"new", "in_progress"},
          limit \in Limits \cup {NoLimit} :
          linkRow' = [linkRow EXCEPT ![a] = Minted(who, state, limit)]
    /\ issued' = [issued EXCEPT ![a] = 1]
    /\ UNCHANGED <<reqVars, batchVars>>

\* rotate_token.
Rotate(a) ==
    /\ IsOpen(linkRow[a])
    /\ a \notin batchHeld
    /\ issued[a] < MaxIssued
    /\ issued' = [issued EXCEPT ![a] = @ + 1]
    /\ linkRow' = [linkRow EXCEPT ![a] = Renewed(@, issued[a] + 1)]
    /\ UNCHANGED <<reqVars, batchVars>>

\* The end of a session finishes an attendee's running attempt.
Sweep(a) ==
    /\ linkRow[a].state = "in_progress"
    /\ a \notin batchHeld
    /\ linkRow' = [linkRow EXCEPT ![a] = Finished(@)]
    /\ UNCHANGED <<issued, reqVars, batchVars>>

-----------------------------------------------------------------------------
(* A taker's request *)

\* A request comes with a link that was drawn at some time.
Ask(t) ==
    /\ reqPc[t] = "idle"
    /\ \E a \in LinkRows, n \in 1..MaxIssued :
          LET link == [row |-> a, nonce |-> n]
          IN  /\ n <= issued[a]
              /\ reqLink' = [reqLink EXCEPT ![t] = link]
              /\ reqDead' = [reqDead EXCEPT ![t] = Dead(link)]
    /\ reqPc' = [reqPc EXCEPT ![t] = "asked"]
    /\ UNCHANGED <<rowVars, reqSaw, batchVars>>

\* verify_capability, a transaction of its own, lets the request go on.
VerifyLink(t) ==
    /\ reqPc[t] = "asked"
    /\ Opens(reqLink[t])
    /\ reqPc' = [reqPc EXCEPT ![t] = "verified"]
    /\ UNCHANGED <<rowVars, reqLink, reqSaw, reqDead, batchVars>>

\* begin, and what submit_answer does to the attempt row when it stores an answer
\* or refuses it as late; a row that has left `new` is not touched.
BeginUnder(t) ==
    /\ reqPc[t] = "verified"
    /\ LET a == reqLink[t].row
       IN  /\ a \notin batchHeld
           /\ \/ /\ linkRow[a].state = "new"
                 /\ \E limit \in Limits \cup {NoLimit} :
                       linkRow' = [linkRow EXCEPT ![a] = Begun(@, limit)]
              \/ linkRow[a].state # "new" /\ UNCHANGED linkRow
    /\ RequestOver(t)
    /\ UNCHANGED <<issued, batchVars>>

\* finish reads its row without a lock.
FinishLook(t) ==
    /\ reqPc[t] = "verified"
    /\ reqPc' = [reqPc EXCEPT ![t] = "finishing"]
    /\ reqSaw' = [reqSaw EXCEPT ![t] = linkRow[reqLink[t].row].state]
    /\ UNCHANGED <<rowVars, reqLink, reqDead, batchVars>>

\* transition_begin if the row was new, then transition_done; either refuses when
\* the row has moved on.
FinishWrite(t) ==
    /\ reqPc[t] = "finishing"
    /\ LET a == reqLink[t].row
       IN  /\ a \notin batchHeld
           /\ \/ /\ linkRow[a].state = IF reqSaw[t] = "new" THEN "new" ELSE "in_progress"
                 /\ linkRow' = [linkRow EXCEPT ![a] =
                        Finished(IF @.state = "new" THEN Begun(@, NoLimit) ELSE @)]
              \/ /\ linkRow[a].state # IF reqSaw[t] = "new" THEN "new" ELSE "in_progress"
                 /\ UNCHANGED linkRow
    /\ RequestOver(t)
    /\ UNCHANGED <<issued, batchVars>>

\* A link that does not open or has lapsed (time is not modelled), a refusal that
\* rolls back, a lost connection, a client that went away.
LeaveRequest(t) ==
    /\ reqPc[t] # "idle"
    /\ RequestOver(t)
    /\ UNCHANGED <<rowVars, batchVars>>

-----------------------------------------------------------------------------
(* The invite batch: one transaction *)

OpenBatch ==
    /\ batchPc \in {"idle", "answered"}
    /\ batchPc' = "open"
    /\ batchMode' \in {"new", "resend"}
    /\ batchLeft' \in (SUBSET Invited) \ {{}}
    /\ UNCHANGED <<rowVars, reqVars, batchAt, batchRow, batchHeld, batchTold, batchFailed>>

\* The loop reaches a recipient; under `resend` it looks for an open row with their
\* email or their partner (the code: the newest), a statement an aborted transaction
\* refuses.  Several recipients may come to one row, this batch's own included.
TakeRecipient(r) ==
    /\ batchPc = "open"
    /\ r \in batchLeft
    /\ \/ /\ batchMode = "new"
          /\ batchAt' = [who |-> r, prior |-> Nowhere]
       \/ /\ batchMode = "resend"
          /\ ~Aborted
          /\ LET priors == {a \in LinkRows : IsOpen(InBatch(a)) /\ r \in InBatch(a).who}
             IN  \E prior \in IF priors = {} THEN {Nowhere} ELSE priors :
                     batchAt' = [who |-> r, prior |-> prior]
    /\ batchPc' = "serving"
    /\ batchLeft' = batchLeft \ {r}
    /\ UNCHANGED <<rowVars, reqVars, batchMode, batchRow, batchHeld, batchTold,
                   batchFailed>>

Serve(link) ==
    /\ batchTold' = [batchTold EXCEPT ![batchAt.who] = link]
    /\ batchAt' = NoOne
    /\ batchPc' = "open"
    /\ UNCHANGED <<reqVars, batchMode, batchLeft, batchFailed>>

\* (slip: the link is rendered from the row as it was found)
RenewPriorFound ==
    /\ batchPc = "serving"
    /\ LET p == batchAt.prior
       IN  /\ p # Nowhere
           /\ IsOpen(InBatch(p))
           /\ issued[p] < MaxIssued
           /\ issued' = [issued EXCEPT ![p] = @ + 1]
           /\ batchRow' = [batchRow EXCEPT ![p] = Renewed(InBatch(p), issued[p] + 1)]
           /\ batchHeld' = batchHeld \cup {p}
           /\ Serve([row |-> p, nonce |-> InBatch(p).nonce])
    /\ UNCHANGED linkRow

\* rotate_nonce on the row found, whose result is not looked at: a row that a
\* racing finish has closed stays as it is, and its link is answered.
RenewPrior ==
    /\ batchPc = "serving"
    /\ LET p == batchAt.prior
       IN  /\ p # Nowhere
           /\ \/ /\ IsOpen(InBatch(p))
                 /\ issued[p] < MaxIssued
                 /\ issued' = [issued EXCEPT ![p] = @ + 1]
                 /\ batchRow' = [batchRow EXCEPT ![p] = Renewed(InBatch(p), issued[p] + 1)]
                 /\ batchHeld' = batchHeld \cup {p}
                 /\ Serve([row |-> p, nonce |-> issued[p] + 1])
              \/ /\ InBatch(p).state = "done"
                 /\ Serve([row |-> p, nonce |-> InBatch(p).nonce])
                 /\ UNCHANGED <<issued, batchRow, batchHeld>>
    /\ UNCHANGED linkRow

\* Whom a row minted for a recipient may be found for: nobody when they have neither
\* email nor partner, else them, and whoever shares either.
Carried(r) == {who \in SUBSET Invited : who = {} \/ r \in who}

\* mint_attempt, then the officer's deadline, if any, over the one it stamped:
\* what the commit will show is one of them.
MintInvited(a) ==
    /\ batchPc = "serving"
    /\ batchAt.prior = Nowhere
    /\ ~Aborted
    /\ issued[a] = 0
    /\ issued' = [issued EXCEPT ![a] = 1]
    /\ \E who \in Carried(batchAt.who), limit \in Limits \cup {NoLimit} :
          batchRow' = [batchRow EXCEPT ![a] = Minted(who, "new", limit)]
    /\ batchHeld' = batchHeld \cup {a}
    /\ Serve([row |-> a, nonce |-> 1])
    /\ UNCHANGED linkRow

\* mint_attempt fails: the error is the recipient's answer, the transaction is
\* aborted and its writes are gone, and the loop goes on.
MintFails ==
    /\ batchPc = "serving"
    /\ batchAt.prior = Nowhere
    /\ batchFailed' = batchFailed \cup {batchAt.who}
    /\ batchAt' = NoOne
    /\ batchPc' = "open"
    /\ batchRow' = [a \in LinkRows |-> NoRecord]
    /\ batchHeld' = {}
    /\ UNCHANGED <<rowVars, reqVars, batchMode, batchLeft, batchTold>>

\* The commit answers every recipient; of an aborted transaction there is nothing
\* left to store.
CommitBatch ==
    /\ batchPc = "open"
    /\ batchLeft = {}
    /\ linkRow' = [a \in LinkRows |-> InBatch(a)]
    /\ BatchEmpty("answered")
    /\ UNCHANGED <<issued, reqVars>>

\* A statement outside the mint fails, a lost connection, a client that went away.
LoseBatch ==
    /\ batchPc \in {"open", "serving"}
    /\ BatchEmpty("idle")
    /\ UNCHANGED <<rowVars, reqVars>>

LinkNext ==
    \/ \E a \in LinkRows : Mint(a) \/ Rotate(a) \/ Sweep(a) \/ MintInvited(a)
    \/ \E t \in LinkRequests : \/ Ask(t) \/ VerifyLink(t) \/ BeginUnder(t)
                               \/ FinishLook(t) \/ FinishWrite(t) \/ LeaveRequest(t)
    \/ OpenBatch
    \/ \E r \in Invited : TakeRecipient(r)
    \/ RenewPrior
    \/ MintFails
    \/ CommitBatch
    \/ LoseBatch

LinkSpec == LinkInit /\ [][LinkNext]_linkVars

-----------------------------------------------------------------------------
(* Properties *)

\* Nonces: a row's is one that was drawn, an invite's write has a later one, and a
\* row that was never drawn for does not exist.
NoncesDrawn == \A a \in LinkRows :
    /\ linkRow[a].nonce <= issued[a]
    /\ linkRow[a].state # "absent" => linkRow[a].nonce > 0
    /\ linkRow[a].state = "absent" => linkRow[a] = NoRecord
    /\ a \in batchHeld => /\ IsOpen(batchRow[a])
                          /\ linkRow[a].nonce < batchRow[a].nonce
                          /\ batchRow[a].nonce <= issued[a]

\* The deadline of a row the invite renews is the committed one.
RenewalsAgree == \A a \in batchHeld :
    linkRow[a].state # "absent" => /\ batchRow[a].deadline = linkRow[a].deadline
                                   /\ IsOpen(linkRow[a])

\* A request carries a link that was drawn, and one that was dead when it came
\* stays dead.
RequestsSound == \A t \in LinkRequests : reqPc[t] # "idle" =>
    /\ reqLink[t].row \in LinkRows
    /\ reqLink[t].nonce \in 1..issued[reqLink[t].row]
    /\ reqDead[t] => Dead(reqLink[t])
    /\ reqPc[t] # "asked" => linkRow[reqLink[t].row].state # "absent"

\* A link the invite is to answer was drawn for a row it has locked, which carries it
\* or a later one, or is that of a finished row; the row's own link is always among
\* them.  Once the transaction is aborted, none of them opens.
ToldSound(link) ==
    LET a == link.row
        n == link.nonce
    IN  IF Aborted
        THEN n \in 1..issued[a] /\ (linkRow[a].nonce # n \/ linkRow[a].state = "done")
        ELSE /\ IF a \in batchHeld
                THEN linkRow[a].nonce < n /\ n <= batchRow[a].nonce
                ELSE linkRow[a].state = "done" /\ n = linkRow[a].nonce
             /\ \E q \in Invited : batchTold[q] = [row |-> a, nonce |-> InBatch(a).nonce]

TellsSound ==
    /\ batchPc = "serving" =>
          /\ batchAt.who \in Invited \ batchLeft
          /\ batchTold[batchAt.who] = NoLink
          /\ batchAt.prior # Nowhere => ~Aborted /\ InBatch(batchAt.prior).state # "absent"
    /\ batchPc \in {"idle", "answered"} =>
          batchHeld = {} /\ ~Aborted /\ batchTold = [r \in Invited |-> NoLink]
    /\ Aborted => batchHeld = {}
    /\ \A r \in batchLeft : batchTold[r] = NoLink
    /\ \A r \in Invited : batchTold[r].row # Nowhere => ToldSound(batchTold[r])

\* A link replaced or rolled back before a request came with it opens nothing for
\* that request: whatever rotations, renewals and rollbacks run beside it, no such
\* request gets past verify_capability, though the check and the use are two
\* transactions.
DeadLinksOpenNothing == \A t \in LinkRequests :
    reqPc[t] \in {"verified", "finishing"} => ~reqDead[t]

LinkInv ==
    LinkTypeOK /\ NoncesDrawn /\ RenewalsAgree /\ RequestsSound /\ TellsSound
    /\ DeadLinksOpenNothing

\* Once an attempt has a deadline nothing moves it: not a begin, a submit or a
\* finish that raced with another, not a renewal of its link (transition_begin's
\* COALESCE, invite's override before the row is visible).
DeadlineKept == [][\A a \in LinkRows :
    (linkRow[a].state # "absent" /\ linkRow[a].deadline # NoLimit)
        => linkRow'[a].deadline = linkRow[a].deadline]_linkVars

BatchAnswers == batchPc = "open" /\ batchPc' = "answered"

\* An invite that answers stores all of its batch or nothing.  When no recipient was
\* answered an error, every row it tells a link of is stored with that link or a later
\* one, and the row's own link is among those it tells (two recipients may share a row,
\* and then the one served first holds a dead link).  When one was, no link it tells
\* opens anything, the others' included (the loop runs in one transaction).
InviteAllOrNothing == [][BatchAnswers =>
    \A r \in Invited : batchTold[r].row # Nowhere =>
        LET a   == batchTold[r].row
            row == linkRow'[a]
        IN  IF batchFailed = {}
            THEN /\ row.state # "absent" /\ batchTold[r].nonce <= row.nonce
                 /\ \E q \in Invited : batchTold[q] = [row |-> a, nonce |-> row.nonce]
            ELSE ~IsOpen(row) \/ row.nonce # batchTold[r].nonce]_linkVars

\* A recipient who is answered a link has an attempt that link was stored for, whatever
\* became of the others (invite's doc: "Failures are per-recipient (isolation), the
\* batch continues").
InviteIsolated == [][BatchAnswers =>
    \A r \in Invited : batchTold[r].row # Nowhere =>
        batchTold[r].nonce <= linkRow'[batchTold[r].row].nonce]_linkVars
=============================================================================
