------------------------- MODULE QuestionPagesProofs -------------------------
(***************************************************************************)
(* What holds of the page derivation for any number of questions, places   *)
(* and racing upserts.                                                     *)
(***************************************************************************)
EXTENDS QuestionPages, TLAPS

-----------------------------------------------------------------------------
(* Lemmas about lists *)

\* The order of the list is strict and total.
LEMMA BeforeOrders ==
    ASSUME NEW x \in Listing, NEW y \in Listing
    PROVE  /\ ~Before(x, x)
           /\ Before(x, y) => ~Before(y, x)
           /\ x # y => Before(x, y) \/ Before(y, x)
<1>1. /\ x.id \in Nat /\ y.id \in Nat /\ x.place \in Nat /\ y.place \in Nat
      /\ x.page \in BOOLEAN /\ y.page \in BOOLEAN
  BY PagesAssumption DEF Listing
<1>2. ~Before(x, x) /\ (Before(x, y) => ~Before(y, x))
  BY <1>1 DEF Before
<1>3. x # y => x.id # y.id \/ x.place # y.place \/ x.page # y.page
  BY DEF Listing
<1>4. (x.id # y.id \/ x.place # y.place \/ x.page # y.page) => Before(x, y) \/ Before(y, x)
  BY <1>1 DEF Before
<1> QED
  BY <1>2, <1>3, <1>4

\* A row the upsert does not see never existed.
LEMMA NoRowFacts == NoRow \in Row
BY PagesAssumption DEF NoRow, Row

\* What an upsert sees is rows, and what it lists is entries of live ones.
LEMMA ViewTypes ==
    ASSUME PagesTypeOK, NEW e \in Editors
    PROVE  /\ \A q \in Questions : View(e, q) \in Row
           /\ \A page \in BOOLEAN : Listed(e, page) \subseteq Listing
           /\ \A page \in BOOLEAN : \A x \in Listed(e, page) :
                 /\ x.id \in Questions /\ x.page = page
                 /\ View(e, x.id).stored = "live"
                 /\ x = EntryOf(x.id, View(e, x.id))
<1>1. \A q \in Questions : View(e, q) \in Row
  BY DEF PagesTypeOK, View
<1>2. ASSUME NEW page \in BOOLEAN, NEW x \in Listed(e, page)
      PROVE  /\ x.id \in Questions /\ x.page = page
             /\ View(e, x.id).stored = "live"
             /\ x = EntryOf(x.id, View(e, x.id))
             /\ x \in Listing
  <2>1. PICK q \in Questions : /\ View(e, q).stored = "live" /\ View(e, q).page = page
                               /\ x = EntryOf(q, View(e, q))
    BY <1>2 DEF Listed
  <2> QED
    BY <1>1, <2>1 DEF EntryOf, Listing, Row
<1> QED
  BY <1>1, <1>2

\* What an upsert sees depends on the committed rows and on its own writes.
LEMMA ViewFrame ==
    ASSUME NEW e, question' = question, editHeld'[e] = editHeld[e], editRow'[e] = editRow[e]
    PROVE  /\ \A q : View(e, q)' = View(e, q)
           /\ \A page : Listed(e, page)' = Listed(e, page)
<1>1. \A q : View(e, q)' = View(e, q)
  BY DEF View
<1> QED
  BY <1>1 DEF Listed

\* The last page of a list to which the next entry is added.
LEMMA LastOfNext ==
    ASSUME NEW S \in SUBSET Listing, NEW x \in Listing, NEW last,
           \A y \in S : Before(y, x), LastOf(last, S)
    PROVE  LastOf(IF x.page THEN x.id ELSE last, S \cup {x})
<1>1. CASE x.page
  BY <1>1 DEF LastOf
<1>2. CASE ~x.page
  <2>1. {y \in S \cup {x} : y.page} = {y \in S : y.page}
    BY <1>2
  <2>2. CASE {y \in S : y.page} = {}
    BY <1>2, <2>1, <2>2 DEF LastOf
  <2>3. CASE {y \in S : y.page} # {}
    BY <1>2, <2>1, <2>3 DEF LastOf
  <2> QED
    BY <2>2, <2>3
<1> QED
  BY <1>1, <1>2 DEF Listing

-----------------------------------------------------------------------------
(* Types and locks *)

\* The end of an upsert keeps its state typed.
LEMMA EditResetTypes ==
    ASSUME PagesTypeOK, NEW e \in Editors, NEW pc \in {"idle", "saved"}, EditReset(e, pc)
    PROVE  /\ editPc' \in [Editors -> {"idle", "stored", "listed", "writing", "saved"}]
           /\ editHeld' \in [Editors -> SUBSET Questions]
           /\ editRow' \in [Editors -> [Questions -> Row]]
           /\ editList' \in [Editors -> SUBSET Listing]
           /\ editTodo' \in [Editors -> SUBSET Listing]
           /\ editLast' \in [Editors -> Questions \cup {NoPage}]
BY NoRowFacts DEF PagesTypeOK, EditReset

\* Every step keeps the variables in their types.
LEMMA PagesTypeStep == ASSUME PagesTypeOK, [PagesNext]_pageVars PROVE PagesTypeOK'
<1>1. ASSUME NEW e \in Editors, NEW q \in Questions, UpsertRow(e, q) PROVE PagesTypeOK'
  <2>1. PICK place \in Places, page \in BOOLEAN, on \in Handed :
           editRow' = [editRow EXCEPT ![e][q] =
              [stored |-> IF question[q].stored = "deleted" THEN "deleted" ELSE "live",
               place |-> place, page |-> page, on |-> on]]
    BY <1>1 DEF UpsertRow
  <2>2. [stored |-> IF question[q].stored = "deleted" THEN "deleted" ELSE "live",
         place |-> place, page |-> page, on |-> on] \in Row
    BY PagesAssumption DEF Row
  <2>3. editRow' \in [Editors -> [Questions -> Row]]
    BY <2>1, <2>2 DEF PagesTypeOK
  <2> QED
    BY <1>1, <2>3 DEF UpsertRow, PagesTypeOK
<1>2. ASSUME NEW e \in Editors, ListQuestions(e) PROVE PagesTypeOK'
  BY <1>2, ViewTypes DEF ListQuestions, PagesTypeOK
<1>3. ASSUME NEW e \in Editors, ListPages(e) PROVE PagesTypeOK'
  <2>1. Listed(e, TRUE) \subseteq Listing
    BY ViewTypes
  <2> QED
    BY <1>3, <2>1 DEF ListPages, PagesTypeOK
<1>4. ASSUME NEW e \in Editors, WritePage(e) PROVE PagesTypeOK'
  <2>1. PICK x \in Turn(e) :
          /\ editTodo' = [editTodo EXCEPT ![e] = @ \ {x}]
          /\ editLast' = [editLast EXCEPT ![e] = IF x.page THEN x.id ELSE @]
          /\ \/ /\ editRow' = [editRow EXCEPT ![e][x.id] =
                      [View(e, x.id) EXCEPT !.on = IF x.page THEN NoPage ELSE editLast[e]]]
                /\ editHeld' = [editHeld EXCEPT ![e] = @ \cup {x.id}]
             \/ UNCHANGED <<editRow, editHeld>>
    BY <1>4 DEF WritePage
  <2>2. x \in Listing /\ x.id \in Questions
    BY DEF Turn, PagesTypeOK, Listing
  <2>3. [View(e, x.id) EXCEPT !.on = IF x.page THEN NoPage ELSE editLast[e]] \in Row
    <3>1. View(e, x.id) \in Row
      BY <2>2, ViewTypes
    <3>2. (IF x.page THEN NoPage ELSE editLast[e]) \in Questions \cup {NoPage}
      BY DEF PagesTypeOK
    <3> QED
      BY <3>1, <3>2 DEF Row
  <2>4. editRow' \in [Editors -> [Questions -> Row]] /\ editHeld' \in [Editors -> SUBSET Questions]
    <3> DEFINE row == [View(e, x.id) EXCEPT !.on = IF x.page THEN NoPage ELSE editLast[e]]
    <3>1. \/ editRow' = [editRow EXCEPT ![e][x.id] = row] \/ editRow' = editRow
      BY <2>1
    <3>2. row \in Row
      BY <2>3
    <3> HIDE DEF row
    <3>3. editRow' \in [Editors -> [Questions -> Row]]
      <4> DEFINE rows == [editRow[e] EXCEPT ![x.id] = row]
      <4>1. rows \in [Questions -> Row] /\ editRow \in [Editors -> [Questions -> Row]]
        BY <2>2, <3>2 DEF PagesTypeOK
      <4>2. editRow' = [editRow EXCEPT ![e] = rows] \/ editRow' = editRow
        BY <3>1
      <4> HIDE DEF rows
      <4> QED
        BY <4>1, <4>2
    <3>4. editHeld' \in [Editors -> SUBSET Questions]
      BY <2>1, <2>2 DEF PagesTypeOK
    <3> QED
      BY <3>3, <3>4
  <2>5. editTodo' \in [Editors -> SUBSET Listing] /\ editLast' \in [Editors -> Questions \cup {NoPage}]
    BY <2>1, <2>2 DEF PagesTypeOK
  <2> QED
    BY <1>4, <2>4, <2>5 DEF WritePage, PagesTypeOK
<1>5. ASSUME NEW e \in Editors, CommitEdit(e) PROVE PagesTypeOK'
  <2>1. \A q \in Questions : View(e, q) \in Row
    BY ViewTypes
  <2>2. question' \in [Questions -> Row] /\ editAlone' \in [Editors -> BOOLEAN]
    BY <1>5, <2>1 DEF CommitEdit
  <2> QED
    BY <1>5, <2>2, EditResetTypes DEF CommitEdit, PagesTypeOK
<1>6. ASSUME NEW e \in Editors, AbortEdit(e) PROVE PagesTypeOK'
  <2>1. question' \in [Questions -> Row] /\ editAlone' \in [Editors -> BOOLEAN]
    BY <1>6 DEF AbortEdit, PagesTypeOK
  <2> QED
    BY <1>6, <2>1, EditResetTypes DEF AbortEdit, PagesTypeOK
<1>7. ASSUME NEW q \in Questions, CrudWrite(q) PROVE PagesTypeOK'
  BY <1>7 DEF CrudWrite, PagesTypeOK
<1>8. CASE UNCHANGED pageVars
  BY <1>8 DEF pageVars, editVars, PagesTypeOK
<1> QED
  BY <1>1, <1>2, <1>3, <1>4, <1>5, <1>6, <1>7, <1>8 DEF PagesNext

\* Every step keeps the locks apart.
LEMMA LocksStep == ASSUME PagesTypeOK, RowsHeld, [PagesNext]_pageVars PROVE RowsHeld'
<1>1. ASSUME NEW e \in Editors, NEW q \in Questions, UpsertRow(e, q) PROVE RowsHeld'
  BY <1>1 DEF UpsertRow, FreeRow, RowsHeld, PagesTypeOK
<1>2. ASSUME NEW e \in Editors, ListQuestions(e) \/ ListPages(e) PROVE RowsHeld'
  BY <1>2 DEF ListQuestions, ListPages, RowsHeld, PagesTypeOK
<1>3. ASSUME NEW e \in Editors, WritePage(e) PROVE RowsHeld'
  <2>1. PICK x \in Turn(e) :
          /\ FreeRow(e, x.id)
          /\ \/ editHeld' = [editHeld EXCEPT ![e] = @ \cup {x.id}]
             \/ UNCHANGED editHeld
    BY <1>3 DEF WritePage
  <2>2. UNCHANGED editPc /\ editPc[e] = "writing"
    BY <1>3 DEF WritePage
  <2>3. ASSUME NEW d \in Editors, d # e PROVE editHeld'[d] = editHeld[d] /\ x.id \notin editHeld[d]
    BY <2>1, <2>3 DEF FreeRow, PagesTypeOK
  <2>4. editHeld'[e] \subseteq editHeld[e] \cup {x.id}
    BY <2>1 DEF PagesTypeOK
  <2>5. ASSUME NEW c \in Editors, NEW d \in Editors, c # d PROVE editHeld'[c] \cap editHeld'[d] = {}
    <3>1. editHeld[c] \cap editHeld[d] = {}
      BY <2>5 DEF RowsHeld
    <3>2. CASE c = e
      BY <2>3, <2>4, <2>5, <3>1, <3>2
    <3>3. CASE d = e
      BY <2>3, <2>4, <2>5, <3>1, <3>3
    <3>4. CASE c # e /\ d # e
      BY <2>3, <3>1, <3>4
    <3> QED
      BY <3>2, <3>3, <3>4
  <2>6. \A d \in Editors : editPc'[d] \in {"idle", "saved"} => editHeld'[d] = {}
    BY <2>2, <2>3 DEF RowsHeld
  <2> QED
    BY <2>5, <2>6 DEF RowsHeld
<1>4. ASSUME NEW e \in Editors, CommitEdit(e) \/ AbortEdit(e) PROVE RowsHeld'
  <2>1. /\ editHeld' = [editHeld EXCEPT ![e] = {}]
        /\ \A d \in Editors : d # e => editPc'[d] = editPc[d]
    BY <1>4 DEF CommitEdit, AbortEdit, EditReset, PagesTypeOK
  <2>2. /\ editHeld'[e] = {}
        /\ \A d \in Editors : d # e => editHeld'[d] = editHeld[d]
    BY <2>1 DEF PagesTypeOK
  <2> QED
    BY <2>1, <2>2 DEF RowsHeld
<1>5. CASE (\E q \in Questions : CrudWrite(q)) \/ UNCHANGED pageVars
  BY <1>5 DEF CrudWrite, pageVars, editVars, RowsHeld
<1> QED
  BY <1>1, <1>2, <1>3, <1>4, <1>5 DEF PagesNext

-----------------------------------------------------------------------------
(* The lists *)

\* An upsert whose state and view a step leaves alone keeps its list sound.
LEMMA IdleListSound ==
    ASSUME NEW d \in Editors, ListTrue(d), ListOrdered(d),
           editPc'[d] = editPc[d], editList'[d] = editList[d], editTodo'[d] = editTodo[d],
           editLast'[d] = editLast[d],
           ~editAlone'[d] \/ (/\ editAlone'[d] = editAlone[d] /\ question' = question
                              /\ editHeld'[d] = editHeld[d] /\ editRow'[d] = editRow[d])
    PROVE  ListTrue(d)' /\ ListOrdered(d)'
<1>1. Gone(d)' = Gone(d)
  BY DEF Gone
<1>2. ListOrdered(d)'
  BY <1>1 DEF ListOrdered, LastOf, Before
<1>3. CASE ~editAlone'[d]
  BY <1>2, <1>3 DEF ListTrue
<1>4. CASE /\ editAlone'[d] = editAlone[d] /\ question' = question
           /\ editHeld'[d] = editHeld[d] /\ editRow'[d] = editRow[d]
  <2>1. /\ \A q : View(d, q)' = View(d, q)
        /\ Listed(d, TRUE)' = Listed(d, TRUE) /\ Listed(d, FALSE)' = Listed(d, FALSE)
    BY <1>4, ViewFrame
  <2> QED
    BY <1>1, <1>2, <1>4, <2>1 DEF ListTrue
<1> QED
  BY <1>3, <1>4

\* An upsert that holds no list is sound.
LEMMA EmptyListSound ==
    ASSUME NEW e \in Editors, editPc'[e] # "writing", editTodo'[e] = {}, editLast'[e] = NoPage,
           ~editAlone'[e]
    PROVE  ListTrue(e)' /\ ListOrdered(e)'
BY DEF ListTrue, ListOrdered

\* The upsert that writes the next row of its list keeps it sound.
LEMMA WriteKeepsList ==
    ASSUME PagesInv, NEW e \in Editors, WritePage(e)
    PROVE  ListTrue(e)' /\ ListOrdered(e)'
<1>1. PICK x \in Turn(e) :
          /\ editTodo' = [editTodo EXCEPT ![e] = @ \ {x}]
          /\ editLast' = [editLast EXCEPT ![e] = IF x.page THEN x.id ELSE @]
          /\ \/ /\ View(e, x.id).stored # "absent"
                /\ editRow' = [editRow EXCEPT ![e][x.id] =
                      [View(e, x.id) EXCEPT !.on = IF x.page THEN NoPage ELSE editLast[e]]]
                /\ editHeld' = [editHeld EXCEPT ![e] = @ \cup {x.id}]
             \/ /\ View(e, x.id).stored = "absent"
                /\ UNCHANGED <<editRow, editHeld>>
  BY DEF WritePage
<1>2. /\ editPc[e] = "writing" /\ editPc'[e] = "writing"
      /\ editList' = editList /\ editAlone' = editAlone /\ question' = question
  BY DEF WritePage
<1>3. /\ PagesTypeOK /\ ListTrue(e) /\ ListOrdered(e)
      /\ editList[e] \subseteq Listing /\ editTodo[e] \subseteq editList[e]
      /\ x \in editTodo[e] /\ x \in Listing
      /\ \A y \in editTodo[e] \ {x} : Before(x, y)
      /\ \A y \in Gone(e), z \in editTodo[e] : Before(y, z)
      /\ LastOf(editLast[e], Gone(e))
  BY <1>2 DEF PagesInv, PagesTypeOK, ListsSound, ListOrdered, Turn
<1>4. /\ editTodo'[e] = editTodo[e] \ {x}
      /\ editLast'[e] = IF x.page THEN x.id ELSE editLast[e]
      /\ Gone(e)' = Gone(e) \cup {x}
  BY <1>1, <1>2, <1>3 DEF PagesTypeOK, Gone
<1>5. ListOrdered(e)'
  <2>1. \A y \in Gone(e)', z \in editTodo'[e] : Before(y, z)
    BY <1>3, <1>4
  <2>2. Gone(e) \in SUBSET Listing /\ \A y \in Gone(e) : Before(y, x)
    BY <1>3 DEF Gone
  <2>3. LastOf(editLast'[e], Gone(e)')
    BY <1>3, <1>4, <2>2, LastOfNext
  <2> QED
    BY <1>2, <1>3, <1>4, <2>1, <2>3 DEF ListOrdered, LastOf, Before
<1>6. ASSUME editAlone[e] PROVE ListTrue(e)'
  <2>1. /\ editList[e] = Listed(e, FALSE) \cup Listed(e, TRUE)
        /\ \A y \in Gone(e) : RightPage(View(e, y.id).on, y, editList[e])
    BY <1>2, <1>3, <1>6 DEF ListTrue
  <2>2. \A y \in editList[e] : /\ y.id \in Questions /\ View(e, y.id).stored = "live"
                               /\ y = EntryOf(y.id, View(e, y.id))
    BY <1>3, <2>1, ViewTypes
  <2>3. x \in editList[e] /\ View(e, x.id).stored = "live" /\ x.id \in Questions
    BY <1>3, <2>2
  <2> DEFINE on == IF x.page THEN NoPage ELSE editLast[e]
             row == [View(e, x.id) EXCEPT !.on = on]
  <2>4. /\ editRow' = [editRow EXCEPT ![e][x.id] = row]
        /\ editHeld' = [editHeld EXCEPT ![e] = @ \cup {x.id}]
    BY <1>1, <2>3
  <2>5. /\ View(e, x.id)' = row
        /\ \A q \in Questions : q # x.id => View(e, q)' = View(e, q)
    BY <1>2, <1>3, <2>3, <2>4 DEF View, PagesTypeOK
  <2>6. View(e, x.id) \in Row
    BY <1>3, <2>3, ViewTypes
  <2>7. /\ row.stored = View(e, x.id).stored /\ row.place = View(e, x.id).place
        /\ row.page = View(e, x.id).page /\ row.on = on
    BY <2>6 DEF Row
  <2>8. \A q \in Questions : /\ View(e, q)'.stored = View(e, q).stored
                             /\ View(e, q)'.page = View(e, q).page
                             /\ EntryOf(q, View(e, q))' = EntryOf(q, View(e, q))
    BY <2>5, <2>7 DEF EntryOf
  <2>9. \A page \in BOOLEAN : Listed(e, page)' = Listed(e, page)
    BY <2>8 DEF Listed
  <2>10. editList'[e] = (Listed(e, FALSE) \cup Listed(e, TRUE))'
    BY <1>2, <2>1, <2>9
  <2>11. ASSUME NEW y \in Gone(e) PROVE RightPage(View(e, y.id)'.on, y, editList[e])
    <3>1. y \in editList[e] /\ y # x
      BY <1>3, <2>11 DEF Gone
    <3>2. y.id # x.id
      BY <2>2, <2>3, <3>1
    <3> QED
      BY <2>1, <2>2, <2>5, <2>11, <3>1, <3>2
  <2>12. RightPage(on, x, editList[e])
    <3>1. {y \in editList[e] : Before(y, x)} = Gone(e)
      BY <1>3, BeforeOrders DEF Gone
    <3> QED
      BY <1>3, <3>1 DEF RightPage
  <2>13. \A y \in Gone(e)' : RightPage(View(e, y.id)'.on, y, editList'[e])
    BY <1>2, <1>4, <2>5, <2>7, <2>11, <2>12
  <2> QED
    BY <1>2, <2>10, <2>13 DEF ListTrue, RightPage, LastOf, Before
<1>7. ASSUME ~editAlone[e] PROVE ListTrue(e)'
  BY <1>2, <1>7 DEF ListTrue
<1> QED
  BY <1>5, <1>6, <1>7

\* Every step keeps the lists sound.
LEMMA ListsStep == ASSUME PagesInv, [PagesNext]_pageVars PROVE ListsSound'
<1> USE DEF PagesInv
<1>1. \A d \in Editors : ListTrue(d) /\ ListOrdered(d)
  BY DEF ListsSound
<1>2. ASSUME NEW e \in Editors, NEW q \in Questions, UpsertRow(e, q) PROVE ListsSound'
  <2>1. ~editAlone[e] /\ editTodo[e] = {} /\ editLast[e] = NoPage
    BY <1>1, <1>2 DEF UpsertRow, ListTrue, ListOrdered
  <2>2. ListTrue(e)' /\ ListOrdered(e)'
    BY <1>2, <2>1, EmptyListSound DEF UpsertRow, PagesTypeOK
  <2>3. ASSUME NEW d \in Editors, d # e PROVE ListTrue(d)' /\ ListOrdered(d)'
    BY <1>1, <1>2, <2>3, IdleListSound DEF UpsertRow, PagesTypeOK
  <2> QED
    BY <2>2, <2>3 DEF ListsSound
<1>3. ASSUME NEW e \in Editors, ListQuestions(e) PROVE ListsSound'
  <2>1. /\ editPc'[e] = "listed" /\ editList'[e] = Listed(e, FALSE)
        /\ UNCHANGED <<question, editHeld, editRow, editTodo, editLast>>
    BY <1>3 DEF ListQuestions, PagesTypeOK
  <2>2. Listed(e, FALSE)' = Listed(e, FALSE)
    BY <2>1, ViewFrame
  <2>3. editTodo[e] = {} /\ editLast[e] = NoPage
    BY <1>1, <1>3 DEF ListQuestions, ListOrdered
  <2>4. ListTrue(e)' /\ ListOrdered(e)'
    BY <2>1, <2>2, <2>3 DEF ListTrue, ListOrdered
  <2>5. ASSUME NEW d \in Editors, d # e PROVE ListTrue(d)' /\ ListOrdered(d)'
    BY <1>1, <1>3, <2>5, IdleListSound DEF ListQuestions, PagesTypeOK
  <2> QED
    BY <2>4, <2>5 DEF ListsSound
<1>4. ASSUME NEW e \in Editors, ListPages(e) PROVE ListsSound'
  <2>1. /\ editPc[e] = "listed" /\ editPc'[e] = "writing"
        /\ editList'[e] = editList[e] \cup Listed(e, TRUE)
        /\ editTodo'[e] = editList[e] \cup Listed(e, TRUE)
        /\ editAlone'[e] = editAlone[e]
        /\ UNCHANGED <<question, editHeld, editRow, editLast>>
    BY <1>4 DEF ListPages, PagesTypeOK
  <2>2. Gone(e)' = {}
    BY <2>1 DEF Gone
  <2>3. Listed(e, TRUE)' = Listed(e, TRUE) /\ Listed(e, FALSE)' = Listed(e, FALSE)
    BY <2>1, ViewFrame
  <2>4. editLast[e] = NoPage
    BY <1>1, <2>1 DEF ListOrdered
  <2>5. ListOrdered(e)'
    BY <2>1, <2>2, <2>4 DEF ListOrdered, LastOf
  <2>6. ListTrue(e)'
    BY <1>1, <2>1, <2>2, <2>3 DEF ListTrue
  <2>7. ASSUME NEW d \in Editors, d # e PROVE ListTrue(d)' /\ ListOrdered(d)'
    BY <1>1, <1>4, <2>7, IdleListSound DEF ListPages, PagesTypeOK
  <2> QED
    BY <2>5, <2>6, <2>7 DEF ListsSound
<1>5. ASSUME NEW e \in Editors, WritePage(e) PROVE ListsSound'
  <2>1. ASSUME NEW d \in Editors, d # e PROVE ListTrue(d)' /\ ListOrdered(d)'
    <3>1. /\ editTodo'[d] = editTodo[d] /\ editLast'[d] = editLast[d]
          /\ editRow'[d] = editRow[d] /\ editHeld'[d] = editHeld[d]
      BY <1>5, <2>1 DEF WritePage, PagesTypeOK
    <3>2. UNCHANGED <<question, editPc, editList, editAlone>>
      BY <1>5 DEF WritePage
    <3> QED
      BY <1>1, <3>1, <3>2, IdleListSound
  <2> QED
    BY <1>5, <2>1, WriteKeepsList DEF ListsSound
<1>6. ASSUME NEW e \in Editors, CommitEdit(e) \/ AbortEdit(e) PROVE ListsSound'
  <2>1. EditReset(e, "saved") \/ EditReset(e, "idle")
    BY <1>6 DEF CommitEdit, AbortEdit
  <2>2. ~editAlone'[e]
    BY <1>6 DEF CommitEdit, AbortEdit, PagesTypeOK
  <2>3. ListTrue(e)' /\ ListOrdered(e)'
    BY <2>1, <2>2, EmptyListSound DEF EditReset, PagesTypeOK
  <2>4. ASSUME NEW d \in Editors, d # e PROVE ListTrue(d)' /\ ListOrdered(d)'
    <3>1. /\ editPc'[d] = editPc[d] /\ editList'[d] = editList[d] /\ editTodo'[d] = editTodo[d]
          /\ editLast'[d] = editLast[d] /\ editHeld'[d] = editHeld[d] /\ editRow'[d] = editRow[d]
      BY <2>1, <2>4 DEF EditReset, PagesTypeOK
    <3>2. ~editAlone'[d] \/ (editAlone'[d] = editAlone[d] /\ question' = question)
      BY <1>6, <2>4 DEF CommitEdit, AbortEdit, PagesTypeOK
    <3> QED
      BY <1>1, <3>1, <3>2, IdleListSound
  <2> QED
    BY <2>3, <2>4 DEF ListsSound
<1>7. ASSUME NEW q \in Questions, CrudWrite(q) PROVE ListsSound'
  <2>1. ASSUME NEW d \in Editors PROVE ListTrue(d)' /\ ListOrdered(d)'
    BY <1>1, <1>7, IdleListSound DEF CrudWrite
  <2> QED
    BY <2>1 DEF ListsSound
<1>8. CASE UNCHANGED pageVars
  <2>1. ASSUME NEW d \in Editors PROVE ListTrue(d)' /\ ListOrdered(d)'
    BY <1>1, <1>8, IdleListSound DEF pageVars, editVars
  <2> QED
    BY <2>1 DEF ListsSound
<1> QED
  BY <1>2, <1>3, <1>4, <1>5, <1>6, <1>7, <1>8 DEF PagesNext

-----------------------------------------------------------------------------
(* Theorems *)

\* At the start there are no questions and no upserts.
LEMMA PagesStart == PagesInit => PagesInv
<1> SUFFICES ASSUME PagesInit PROVE PagesInv
  OBVIOUS
<1>1. PagesTypeOK
  BY NoRowFacts DEF PagesInit, PagesTypeOK
<1>2. RowsHeld
  BY DEF PagesInit, RowsHeld
<1>3. ListsSound
  BY DEF PagesInit, ListsSound, ListTrue, ListOrdered
<1> QED
  BY <1>1, <1>2, <1>3 DEF PagesInv

\* The inductive invariant of the page derivation.
THEOREM PagesInvariance == PagesSpec => []PagesInv
<1>1. PagesInv /\ [PagesNext]_pageVars => PagesInv'
  BY PagesTypeStep, LocksStep, ListsStep DEF PagesInv
<1> QED
  BY PagesStart, <1>1, PTL DEF PagesSpec

\* The commit of an upsert that nobody else's commit has crossed.
LEMMA LoneCommitDerives ==
    ASSUME PagesInv, NEW e \in Editors, CommitEdit(e), editAlone[e]
    PROVE  LET live == {q \in Questions : question'[q].stored = "live"}
               list == {EntryOf(q, question'[q]) : q \in live}
           IN  \A q \in live : RightPage(question'[q].on, EntryOf(q, question'[q]), list)
<1> DEFINE live == {q \in Questions : question'[q].stored = "live"}
           list == {EntryOf(q, question'[q]) : q \in live}
<1>1. \A q \in Questions : question'[q] = View(e, q) /\ View(e, q) \in Row
  BY ViewTypes DEF CommitEdit, PagesInv
<1>2. /\ editList[e] = Listed(e, FALSE) \cup Listed(e, TRUE)
      /\ \A x \in editList[e] : RightPage(View(e, x.id).on, x, editList[e])
  BY DEF CommitEdit, PagesInv, ListsSound, ListTrue, Gone
<1>3. live = {q \in Questions : View(e, q).stored = "live"}
  BY <1>1
<1>4. list = {EntryOf(q, View(e, q)) : q \in live}
  BY <1>1
<1>5. list = Listed(e, FALSE) \cup Listed(e, TRUE)
  BY <1>1, <1>3, <1>4 DEF Listed, Row
<1>6. ASSUME NEW q \in live PROVE RightPage(question'[q].on, EntryOf(q, question'[q]), list)
  <2>1. EntryOf(q, View(e, q)) \in editList[e] /\ EntryOf(q, View(e, q)).id = q
    BY <1>2, <1>4, <1>5 DEF EntryOf
  <2> QED
    BY <1>1, <1>2, <1>5, <2>1
<1> QED
  BY <1>6

\* An upsert that nobody else's commit has crossed leaves every live question with
\* the page the schema defines, whatever drift it found (recompute_page_ids in
\* upsert_question).
THEOREM PagesAreDerived == PagesSpec => PagesDerived
<1> DEFINE Derives == \A e \in Editors :
      (editPc[e] = "writing" /\ editPc'[e] = "saved" /\ editAlone[e]) =>
        LET live == {q \in Questions : question'[q].stored = "live"}
            list == {EntryOf(q, question'[q]) : q \in live}
        IN  \A q \in live : RightPage(question'[q].on, EntryOf(q, question'[q]), list)
<1>1. PagesInv /\ [PagesNext]_pageVars => Derives
  <2> SUFFICES ASSUME PagesInv, [PagesNext]_pageVars, NEW e \in Editors,
                      editPc[e] = "writing", editPc'[e] = "saved", editAlone[e]
               PROVE  CommitEdit(e)
    BY LoneCommitDerives
  <2>1. ASSUME NEW d \in Editors,
               \/ \E q \in Questions : UpsertRow(d, q)
               \/ ListQuestions(d) \/ ListPages(d) \/ WritePage(d) \/ AbortEdit(d)
        PROVE  editPc'[e] # "saved"
    BY <2>1 DEF UpsertRow, ListQuestions, ListPages, WritePage, AbortEdit, EditReset, PagesInv,
                PagesTypeOK
  <2>2. ASSUME NEW d \in Editors, d # e, CommitEdit(d) PROVE FALSE
    BY <2>2 DEF CommitEdit, EditReset, PagesInv, PagesTypeOK
  <2>3. ~(\E q \in Questions : CrudWrite(q)) /\ ~UNCHANGED pageVars
    BY DEF CrudWrite, pageVars, editVars
  <2> QED
    BY <2>1, <2>2, <2>3 DEF PagesNext
<1>2. PagesDerived <=> [][Derives]_pageVars
  BY DEF PagesDerived
<1> QED
  BY PagesInvariance, <1>1, <1>2, PTL DEF PagesSpec
=============================================================================
