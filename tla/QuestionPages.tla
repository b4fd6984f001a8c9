---------------------------- MODULE QuestionPages ----------------------------
(***************************************************************************)
(* The page of each question of a survey: the last page before it in       *)
(* sequence order, a column that every upsert of a question derives anew   *)
(* for the whole survey.  The upsert is one READ COMMITTED transaction: it *)
(* writes the question, lists the other questions and then the pages in    *)
(* two statements, and writes the pages one row at a time, in order.  It   *)
(* waits for rows another upsert has written, takes no lock on the survey, *)
(* and the generic CRUD surface writes the same rows with no derivation.   *)
(***************************************************************************)
EXTENDS Naturals

CONSTANTS Questions,     \* question and page ids of one survey
          Places,        \* values of sequence
          NoPage,        \* page_id IS NULL
          Handed,        \* page ids a caller may hand in
          Editors        \* upserts that may be under way at once

ASSUME PagesAssumption ==
    /\ Questions \subseteq Nat
    /\ Places \subseteq Nat
    /\ Places # {}
    /\ NoPage \notin Questions
    /\ Handed \subseteq Questions \cup {NoPage}

VARIABLES
    question,    \* committed rows
    editPc,      \* an upsert's step
    editHeld,    \* rows it has written, hence locked
    editRow,     \* those rows as it has written them
    editList,    \* what it has listed
    editTodo,    \* entries of the list whose row it has not written yet
    editLast,    \* the last page it has come by
    editAlone    \* history: nobody else has committed since it began to list

editVars == <<editPc, editHeld, editRow, editList, editTodo, editLast, editAlone>>
pageVars == <<question, editVars>>

-----------------------------------------------------------------------------
(* Types *)

Row      == [stored : {"absent", "live", "deleted"}, place : Places,
             page : BOOLEAN, on : Questions \cup {NoPage}]
NoRow    == [stored |-> "absent", place |-> CHOOSE p \in Places : TRUE,
             page |-> FALSE, on |-> NoPage]
Listing  == [id : Questions, place : Places, page : BOOLEAN]

PagesTypeOK ==
    /\ question \in [Questions -> Row]
    /\ editPc \in [Editors -> {"idle", "stored", "listed", "writing", "saved"}]
    /\ editHeld \in [Editors -> SUBSET Questions]
    /\ editRow \in [Editors -> [Questions -> Row]]
    /\ editList \in [Editors -> SUBSET Listing]
    /\ editTodo \in [Editors -> SUBSET Listing]
    /\ editLast \in [Editors -> Questions \cup {NoPage}]
    /\ editAlone \in [Editors -> BOOLEAN]

PagesInit ==
    /\ question = [q \in Questions |-> NoRow]
    /\ editPc = [e \in Editors |-> "idle"]
    /\ editHeld = [e \in Editors |-> {}]
    /\ editRow = [e \in Editors |-> [q \in Questions |-> NoRow]]
    /\ editList = [e \in Editors |-> {}]
    /\ editTodo = [e \in Editors |-> {}]
    /\ editLast = [e \in Editors |-> NoPage]
    /\ editAlone = [e \in Editors |-> FALSE]

-----------------------------------------------------------------------------
(* Helpers *)

\* A row as the upsert's transaction sees it.
View(e, q) == IF q \in editHeld[e] THEN editRow[e][q] ELSE question[q]

EntryOf(q, row) == [id |-> q, place |-> row.place, page |-> row.page]

\* (slip: the list is read outside the transaction)
ListedCommitted(e, page) ==
    {EntryOf(q, question[q]) : q \in {x \in Questions : /\ question[x].stored = "live"
                                                      /\ question[x].page = page}}

\* The live rows that are, or are not, pages.
Listed(e, page) ==
    {EntryOf(q, View(e, q)) : q \in {x \in Questions : /\ View(e, x).stored = "live"
                                                     /\ View(e, x).page = page}}

\* The order the list is sorted in: sequence, then id; the sort is stable and the
\* questions come before the pages.
Before(x, y) ==
    \/ x.place < y.place
    \/ x.place = y.place /\ x.id < y.id
    \/ x.place = y.place /\ x.id = y.id /\ ~x.page /\ y.page

\* The entry whose turn it is.
Turn(e) == {x \in editTodo[e] : \A y \in editTodo[e] \ {x} : Before(x, y)}

FreeRow(e, q) == \A d \in Editors \ {e} : q \notin editHeld[d]

EditReset(e, pc) ==
    /\ editPc' = [editPc EXCEPT ![e] = pc]
    /\ editHeld' = [editHeld EXCEPT ![e] = {}]
    /\ editRow' = [editRow EXCEPT ![e] = [q \in Questions |-> NoRow]]
    /\ editList' = [editList EXCEPT ![e] = {}]
    /\ editTodo' = [editTodo EXCEPT ![e] = {}]
    /\ editLast' = [editLast EXCEPT ![e] = NoPage]

-----------------------------------------------------------------------------
(* upsert_question *)

\* persist_question: an insert, or an update that leaves a deleted row deleted.
UpsertRow(e, q) ==
    /\ editPc[e] \in {"idle", "saved"}
    /\ FreeRow(e, q)
    /\ \E place \in Places, page \in BOOLEAN, on \in Handed :
          editRow' = [editRow EXCEPT ![e][q] =
              [stored |-> IF question[q].stored = "deleted" THEN "deleted" ELSE "live",
               place |-> place, page |-> page, on |-> on]]
    /\ editHeld' = [editHeld EXCEPT ![e] = {q}]
    /\ editPc' = [editPc EXCEPT ![e] = "stored"]
    /\ UNCHANGED <<question, editList, editTodo, editLast, editAlone>>

\* questions_in_sequence ...
ListQuestions(e) ==
    /\ editPc[e] = "stored"
    /\ editList' = [editList EXCEPT ![e] = Listed(e, FALSE)]
    /\ editAlone' = [editAlone EXCEPT ![e] = TRUE]
    /\ editPc' = [editPc EXCEPT ![e] = "listed"]
    /\ UNCHANGED <<question, editHeld, editRow, editTodo, editLast>>

\* ... and the pages.
ListPages(e) ==
    /\ editPc[e] = "listed"
    /\ editList' = [editList EXCEPT ![e] = @ \cup Listed(e, TRUE)]
    /\ editTodo' = [editTodo EXCEPT ![e] = editList[e] \cup Listed(e, TRUE)]
    /\ editPc' = [editPc EXCEPT ![e] = "writing"]
    /\ UNCHANGED <<question, editHeld, editRow, editLast, editAlone>>

\* recompute_page_ids for the next entry, and the update of its row, which waits
\* for the row's lock and finds nothing when the row is gone.
WritePage(e) ==
    /\ editPc[e] = "writing"
    /\ \E x \in Turn(e) :
          /\ FreeRow(e, x.id)
          /\ editTodo' = [editTodo EXCEPT ![e] = @ \ {x}]
          /\ editLast' = [editLast EXCEPT ![e] = IF x.page THEN x.id ELSE @]
          /\ \/ /\ View(e, x.id).stored # "absent"
                /\ editRow' = [editRow EXCEPT ![e][x.id] =
                      [View(e, x.id) EXCEPT !.on = IF x.page THEN NoPage ELSE editLast[e]]]
                /\ editHeld' = [editHeld EXCEPT ![e] = @ \cup {x.id}]
             \/ /\ View(e, x.id).stored = "absent"
                /\ UNCHANGED <<editRow, editHeld>>
    /\ UNCHANGED <<question, editPc, editList, editAlone>>

CommitEdit(e) ==
    /\ editPc[e] = "writing"
    /\ editTodo[e] = {}
    /\ question' = [q \in Questions |-> View(e, q)]
    /\ EditReset(e, "saved")
    /\ editAlone' = [d \in Editors |-> FALSE]

\* An error, a deadlock's victim, a client that went away.
AbortEdit(e) ==
    /\ editPc[e] \in {"stored", "listed", "writing"}
    /\ EditReset(e, "idle")
    /\ editAlone' = [editAlone EXCEPT ![e] = FALSE]
    /\ UNCHANGED question

\* The generic surface creates, changes, deletes, restores or purges a row.
CrudWrite(q) ==
    /\ \A e \in Editors : q \notin editHeld[e]
    /\ \E row \in Row :
          /\ IF row.stored = "absent" THEN row = NoRow ELSE row.on \in Handed
          /\ question' = [question EXCEPT ![q] = row]
    /\ editAlone' = [e \in Editors |-> FALSE]
    /\ UNCHANGED <<editPc, editHeld, editRow, editList, editTodo, editLast>>

PagesNext ==
    \/ \E e \in Editors : \/ \E q \in Questions : UpsertRow(e, q)
                          \/ ListQuestions(e) \/ ListPages(e) \/ WritePage(e)
                          \/ CommitEdit(e) \/ AbortEdit(e)
    \/ \E q \in Questions : CrudWrite(q)

PagesSpec == PagesInit /\ [][PagesNext]_pageVars

-----------------------------------------------------------------------------
(* Properties *)

\* `last` is the last page of S, if there is one.
LastOf(last, S) ==
    IF {y \in S : y.page} = {} THEN last = NoPage
    ELSE \E y \in S : y.page /\ last = y.id /\ \A z \in S \ {y} : z.page => Before(z, y)

\* A question's page_id is the last page before it in the list S, a page has none (the
\* definition the schema gives of page_id).
RightPage(on, x, S) ==
    IF x.page THEN on = NoPage ELSE LastOf(on, {y \in S : Before(y, x)})

\* The rows an upsert has written are its own.
RowsHeld ==
    /\ \A e \in Editors : editPc[e] \in {"idle", "saved"} => editHeld[e] = {}
    /\ \A e, d \in Editors : e # d => editHeld[e] \cap editHeld[d] = {}

\* What an upsert has gone through.
Gone(e) == editList[e] \ editTodo[e]

\* While nobody else commits, what an upsert has listed is what it sees, and what it
\* has written so far is right against it.
ListTrue(e) == editAlone[e] =>
    /\ editPc[e] \in {"listed", "writing"}
    /\ editPc[e] = "listed" => editList[e] = Listed(e, FALSE)
    /\ editPc[e] = "writing" =>
          /\ editList[e] = Listed(e, FALSE) \cup Listed(e, TRUE)
          /\ \A x \in Gone(e) : RightPage(View(e, x.id).on, x, editList[e])

\* An upsert goes through its list in order, and carries the last page it came by.
ListOrdered(e) ==
    /\ editTodo[e] \subseteq editList[e]
    /\ editPc[e] = "writing" => /\ \A x \in Gone(e), y \in editTodo[e] : Before(x, y)
                                /\ LastOf(editLast[e], Gone(e))
    /\ editPc[e] # "writing" => editTodo[e] = {} /\ editLast[e] = NoPage

ListsSound == \A e \in Editors : ListTrue(e) /\ ListOrdered(e)

PagesInv == PagesTypeOK /\ RowsHeld /\ ListsSound

\* An upsert during whose listing and writing nobody else commits leaves every live
\* question of the survey with the page_id the schema defines, whatever drift the
\* writes before it have left ("one transaction, no drift window").
PagesDerived == [][\A e \in Editors :
    (editPc[e] = "writing" /\ editPc'[e] = "saved" /\ editAlone[e]) =>
        LET live == {q \in Questions : question'[q].stored = "live"}
            list == {EntryOf(q, question'[q]) : q \in live}
        IN  \A q \in live : RightPage(question'[q].on, EntryOf(q, question'[q]), list)]_pageVars
=============================================================================
