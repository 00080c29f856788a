------------------------ MODULE ReferenceListProofs -------------------------
(* Proofs about ReferenceList: rows that a list may not touch stay as they  *)
(* are, a list that names no row twice ends as it asks on every backend,    *)
(* and a list that fails has lost nothing before its end, for all tables    *)
(* and lists.                                                               *)
EXTENDS ReferenceList, TLAPS

\* Rows that no item of the list is permitted to touch, nor names.
Forbidden == {r \in Rows : \A ref \in Named(r) : ~ Permitted(ref)}

\* Nothing that was collected of the list is forbidden, and the tables agree
\* on what is.
Untouched ==
    \A r \in Forbidden :
        /\ r \notin toAdd /\ r \notin toRemove /\ r \notin toDelete
        /\ r \in db.live /\ r \notin db.written
        /\ (r \in db.links) = (r \in base.links)

IInv == TypeOK /\ Untouched

-----------------------------------------------------------------------------
(* One item. *)

LEMMA ItemIsNamed ==
    ASSUME TypeOK, pos <= Len(list)
    PROVE  /\ Ref \in Items
           /\ Ref \in [op : {"create", "update", "upsert", "unlink", "delete"}, row : Nat]
<1> DEFINE S == [op : {"create", "update", "upsert", "unlink", "delete"}, row : Nat]
<1>1. list \in Seq(S)
    BY ListAssumption DEF TypeOK
<1>2. pos \in 1 .. Len(list)
    <2>1. Len(list) \in Nat
        BY <1>1
    <2> QED
        BY <2>1 DEF TypeOK
<1> HIDE DEF S
<1>3. list[pos] \in S
    BY <1>1, <1>2
<1>4. pos \in DOMAIN list
    BY <1>1, <1>2
<1> QED
    BY <1>3, <1>4 DEF Ref, Items, S

\* A row that an item is permitted to touch is not forbidden.
LEMMA PermittedIsNotForbidden ==
    ASSUME TypeOK, pos <= Len(list), Permitted(Ref)
    PROVE  Ref.row \notin Forbidden
BY ItemIsNamed DEF Forbidden, Named

LEMMA NewRowIsNotForbidden ==
    ASSUME TypeOK
    PROVE  NewRow(pos) \in Nat /\ NewRow(pos) \notin Rows
BY ListAssumption DEF TypeOK, NewRow

\* What is neither skipped nor refused is permitted.
LEMMA TakenIsPermitted ==
    ASSUME ~ Skips, ~ Raises, Ref.op \in {"update", "unlink", "delete"}
    PROVE  Permitted(Ref)
BY DEF Skips, Raises, Permitted, Found

LEMMA FoundUpsertIsPermitted ==
    ASSUME ~ Raises, Ref.op = "upsert", Found(Ref.row)
    PROVE  Permitted(Ref)
BY DEF Skips, Raises, Permitted, Found

-----------------------------------------------------------------------------
LEMMA InitIInv == Init => IInv
<1> SUFFICES ASSUME Init PROVE IInv
    OBVIOUS
<1>1. Rows \subseteq Nat /\ start \subseteq Rows
    BY ListAssumption DEF Init
<1>2. Table(start) \in Tables /\ Table(start).live = Rows /\ Table(start).written = {}
    BY <1>1 DEF Table, Tables
<1>4. TypeOK
    BY <1>2 DEF Init, TypeOK
<1>3. Untouched
    BY DEF Init, Untouched, Table, Forbidden
<1> QED
    BY <1>3, <1>4 DEF IInv

\* list, guard and the refusals stay: so does what is forbidden.
LEMMA ForbiddenStays ==
    ASSUME UNCHANGED <<list, guard>>
    PROVE  Forbidden' = Forbidden
BY DEF Forbidden, Named, Items, Permitted, Refused

LEMMA ItemKeepsIInv ==
    ASSUME IInv, NEW link \in BOOLEAN, Item(link)
    PROVE  IInv'
<1>1. TypeOK /\ Untouched /\ pos <= Len(list) /\ Taken
    BY DEF IInv, Item, SkipItem, CreateItem, UpdateItem, UpsertItem, NoteItem, ItemsLeft
<1>2. Forbidden' = Forbidden
    BY <1>1, ForbiddenStays DEF Taken
<1>3. Ref \in Items /\ Ref.row \in Nat
    BY <1>1, ItemIsNamed
<1>4. list' = list /\ base' = base /\ pos' = pos + 1 /\ pos' \in Nat /\ pos' >= 1
    BY <1>1 DEF Taken, TypeOK
<1>5. NewRow(pos) \in Nat /\ NewRow(pos) \notin Forbidden
    BY <1>1, NewRowIsNotForbidden DEF Forbidden
<1>a. CASE SkipItem
    BY <1>1, <1>2, <1>4, <1>a DEF SkipItem, IInv, TypeOK, Untouched
<1>b. CASE CreateItem
    BY <1>1, <1>2, <1>4, <1>5, <1>b DEF CreateItem, IInv, TypeOK, Tables, Untouched
<1>c. CASE UpdateItem
    <2>1. Ref.row \notin Forbidden
        BY <1>1, <1>c, TakenIsPermitted, PermittedIsNotForbidden DEF UpdateItem
    <2> QED
        BY <1>1, <1>2, <1>3, <1>4, <1>c, <2>1 DEF UpdateItem, IInv, TypeOK, Tables, Untouched
<1>d. CASE UpsertItem(link)
    <2> DEFINE r == IF Found(Ref.row) /\ Ref.row \in db.links THEN Ref.row ELSE NewRow(pos)
    <2>1. r \in Nat /\ r \notin Forbidden
        BY <1>1, <1>3, <1>5, <1>d, FoundUpsertIsPermitted, PermittedIsNotForbidden DEF UpsertItem
    <2>2. /\ db' = [live |-> db.live \cup {r},
                    links |-> IF link THEN db.links \cup {r} ELSE db.links,
                    written |-> db.written \cup ({r} \cap Rows)]
          /\ toAdd' = IF link THEN toAdd ELSE toAdd \cup {r}
          /\ UNCHANGED <<toRemove, toDelete>>
        BY <1>d DEF UpsertItem
    <2> HIDE DEF r
    <2> QED
        BY <1>1, <1>2, <1>4, <2>1, <2>2 DEF IInv, TypeOK, Tables, Untouched
<1>e. CASE NoteItem
    <2>1. Ref.row \notin Forbidden
        BY <1>1, <1>e, TakenIsPermitted, PermittedIsNotForbidden DEF NoteItem
    <2> QED
        BY <1>1, <1>2, <1>3, <1>4, <1>e, <2>1 DEF NoteItem, IInv, TypeOK, Tables, Untouched
<1> QED
    BY <1>a, <1>b, <1>c, <1>d, <1>e DEF Item

\* The flush adds what the list adds, and removes what it removes.
LEMMA FlushTouches ==
    ASSUME NEW r, r \notin toAdd, r \notin toRemove, r \notin toDelete
    PROVE  (r \in Flushed) = (r \in db.links)
BY DEF Flushed, Added, Removed, Merged

LEMMA FlushIsOfKeys ==
    ASSUME TypeOK
    PROVE  Flushed \in SUBSET Nat
BY DEF TypeOK, Tables, Flushed, Added, Merged

LEMMA NextKeepsIInv == IInv /\ [Next]_vars => IInv'
<1> SUFFICES ASSUME IInv, [Next]_vars PROVE IInv'
    OBVIOUS
<1>1. TypeOK /\ Untouched
    BY DEF IInv
<1>a. CASE \E link \in BOOLEAN : Item(link)
    BY <1>a, ItemKeepsIInv
<1>b. CASE Fail
    <2>1. Forbidden' = Forbidden
        BY <1>b, ForbiddenStays DEF Fail
    <2>2. (db' = base \/ db' = db) /\ UNCHANGED <<base, list, pos, toAdd, toRemove, toDelete>>
        BY <1>b DEF Fail, collected
    <2>3. \A r \in Forbidden : r \in base.live /\ r \notin base.written
        BY <1>1 DEF TypeOK, Forbidden
    <2> QED
        BY <1>1, <2>1, <2>2, <2>3 DEF IInv, TypeOK, Untouched
<1>c. CASE AddLinks \/ RemoveLinks \/ UnlinkDoomed \/ DeleteRow \/ DeleteRows
    <2>1. Forbidden' = Forbidden
        BY <1>c, ForbiddenStays
            DEF AddLinks, RemoveLinks, UnlinkDoomed, DeleteRow, DeleteRows, Statement
    <2>2. UNCHANGED <<base, list, pos, toAdd, toRemove, toDelete>>
        BY <1>c
            DEF AddLinks, RemoveLinks, UnlinkDoomed, DeleteRow, DeleteRows, Statement, collected
    <2>3. \/ db' = [db EXCEPT !.links = @ \cup toAdd]
          \/ db' = [db EXCEPT !.links = @ \ toRemove]
          \/ db' = [db EXCEPT !.links = @ \ toDelete]
          \/ \E rs \in SUBSET toDelete : db' = [db EXCEPT !.links = @ \ rs, !.live = @ \ rs]
        <3>1. CASE DeleteRow
            BY <3>1 DEF DeleteRow, Without
        <3>2. CASE DeleteRows
            BY <3>2 DEF DeleteRows, Without
        <3> QED
            BY <1>c, <3>1, <3>2 DEF AddLinks, RemoveLinks, UnlinkDoomed
    <2>4. db \in Tables /\ toAdd \in SUBSET Nat
        BY <1>1 DEF TypeOK
    <2>5. /\ db' \in Tables /\ db'.written = db.written
          /\ db.live \ toDelete \subseteq db'.live
          /\ \A r : r \notin toAdd /\ r \notin toRemove /\ r \notin toDelete
                   => (r \in db'.links) = (r \in db.links)
        <3>1. CASE \E rs \in SUBSET toDelete :
                      db' = [db EXCEPT !.links = @ \ rs, !.live = @ \ rs]
            <4>1. PICK rs \in SUBSET toDelete :
                      db' = [db EXCEPT !.links = @ \ rs, !.live = @ \ rs]
                BY <3>1
            <4>2. /\ db'.links = db.links \ rs /\ db'.live = db.live \ rs
                  /\ db'.written = db.written /\ db' \in Tables
                BY <2>4, <4>1 DEF Tables
            <4> QED
                BY <4>2
        <3>2. CASE \/ db' = [db EXCEPT !.links = @ \cup toAdd]
                   \/ db' = [db EXCEPT !.links = @ \ toRemove]
                   \/ db' = [db EXCEPT !.links = @ \ toDelete]
            BY <2>4, <3>2 DEF Tables
        <3> QED
            BY <2>3, <3>1, <3>2
    <2>6. TypeOK'
        BY <1>1, <2>2, <2>5 DEF TypeOK
    <2>7. Untouched'
        BY <1>1, <2>1, <2>2, <2>5 DEF Untouched
    <2> QED
        BY <2>6, <2>7 DEF IInv
<1>d. CASE SaCollection \/ SaRefreshedCollection
    <2>1. Forbidden' = Forbidden
        BY <1>d, ForbiddenStays DEF SaCollection, SaRefreshedCollection, ReadCollection
    <2>2. UNCHANGED <<db, base, list, pos, toAdd, toRemove, toDelete>>
        BY <1>d DEF SaCollection, SaRefreshedCollection, ReadCollection, collected
    <2> QED
        BY <1>1, <2>1, <2>2 DEF IInv, TypeOK, Untouched
<1>e. CASE Flush
    <2>1. Forbidden' = Forbidden
        BY <1>e, ForbiddenStays DEF Flush
    <2>2. /\ UNCHANGED <<base, list, pos, toAdd, toRemove, toDelete>>
          /\ db' = [db EXCEPT !.links = Flushed, !.live = @ \ toDelete]
        BY <1>e DEF Flush, collected
    <2>3. Flushed \in SUBSET Nat
        BY <1>1, FlushIsOfKeys
    <2>4. \A r \in Forbidden : (r \in Flushed) = (r \in db.links)
        BY <1>1, FlushTouches DEF Untouched
    <2> QED
        BY <1>1, <2>1, <2>2, <2>3, <2>4 DEF IInv, TypeOK, Tables, Untouched
<1>f. CASE OtherWrites
    <2>1. Forbidden' = Forbidden
        BY <1>f, ForbiddenStays DEF OtherWrites
    <2>2. UNCHANGED <<list, pos, toAdd, toRemove, toDelete>>
        BY <1>f DEF OtherWrites, collected
    <2>3. PICK r \in Rows :
              \/ /\ db' = [db EXCEPT !.links = @ \cup {r}]
                 /\ base' = [base EXCEPT !.links = @ \cup {r}]
              \/ /\ db' = [db EXCEPT !.links = @ \ {r}]
                 /\ base' = [base EXCEPT !.links = @ \ {r}]
        BY <1>f DEF OtherWrites
    <2>4. r \in Nat
        BY ListAssumption
    <2> QED
        BY <1>1, <2>1, <2>2, <2>3, <2>4 DEF IInv, TypeOK, Tables, Untouched
<1>g. CASE UNCHANGED vars
    <2>1. Forbidden' = Forbidden
        BY <1>g, ForbiddenStays DEF vars
    <2> QED
        BY <1>1, <1>g, <2>1 DEF IInv, TypeOK, Untouched, vars
<1> QED
    BY <1>a, <1>b, <1>c, <1>d, <1>e, <1>f, <1>g
    DEF Next, SaApplyRefItems, SaApplyRefItemsAsync, DjApplyRefItems, TtApplyRefItems

-----------------------------------------------------------------------------
\* However far a list gets, on any backend and whatever another request does,
\* rows that the repo hides or that the list may not touch stay as they are.
THEOREM ForbiddenRowsAreKept == Spec => []ForbiddenRowsStay
<1>1. IInv => ForbiddenRowsStay
    BY DEF IInv, Untouched, Forbidden, ForbiddenRowsStay
<1> QED
    BY InitIInv, NextKeepsIInv, <1>1, PTL DEF Spec

-----------------------------------------------------------------------------
(* A list that names no row twice. *)

\* What is collected comes from items of the list, and of every item that was
\* taken and is permitted something was.
Collected ==
    /\ \A r \in toAdd : \/ \E ref \in Items : ref.row = r /\ ref.op \in {"update", "upsert"}
                        \/ \E i \in DOMAIN list : r = NewRow(i)
    /\ \A r \in toRemove : \E ref \in Items : ref.row = r /\ ref.op = "unlink"
    /\ \A r \in toDelete : \E ref \in Items : ref.row = r /\ ref.op = "delete"
    /\ \A i \in DOMAIN list : i < pos /\ Permitted(list[i]) =>
          /\ list[i].op = "create" => NewRow(i) \in toAdd
          /\ list[i].row \in Rows =>
                /\ list[i].op = "update" => list[i].row \in toAdd
                /\ list[i].op = "unlink" => list[i].row \in toRemove
                /\ list[i].op = "delete" => list[i].row \in toDelete

\* Until a list fails, what its items wrote is in the table.
WrittenSoFar ==
    \A i \in DOMAIN list : i < pos /\ Permitted(list[i]) =>
        /\ list[i].op = "create" => NewRow(i) \in db.live \/ NewRow(i) \in toDelete
        /\ list[i].op = "update" /\ list[i].row \in Rows => list[i].row \in db.written
Written == stage # "failed" => WrittenSoFar

LinksAreAdded == toAdd \ (toRemove \cup toDelete \cup moved) \subseteq db.links
LinksAreRemoved == (toRemove \ (toAdd \cup moved)) \cap db.links = {}

\* The links, as far as the statements on the relation have got.
Linked ==
    /\ \A r \in Rows \ moved : (r \in base.links) = (r \in start)
    /\ stage \in {"items", "assigned", "added", "removed"} => Rows \subseteq db.live
    /\ stage \in {"items", "assigned"} =>
          \A r \in Rows : (r \in db.links) = (r \in base.links)
    /\ stage \in {"added", "removed", "unlinked", "done"} =>
          /\ LinksAreAdded
          /\ \A r \in Rows \ (toAdd \cup toRemove \cup toDelete) :
                (r \in db.links) = (r \in base.links)
    /\ stage \in {"removed", "unlinked", "done"} => LinksAreRemoved
    /\ stage \in {"unlinked", "done"} => Rows \ toDelete \subseteq db.live
    /\ stage = "done" => toDelete \cap (db.links \cup db.live) = {}

\* SQLAlchemy's collection differs from what was linked at first only where the
\* other request writes.
InMemory ==
    /\ Sqlalchemy => stage \in {"items", "assigned", "done", "failed"}
    /\ ~ Sqlalchemy => stage # "assigned"
    /\ Sqlalchemy /\ stage \in {"items", "assigned"} => db.links \subseteq Rows
    /\ stage = "assigned" \/ existing # NotLoaded =>
          /\ existing \subseteq Rows
          /\ \A r \in Rows \ moved : (r \in existing) = (r \in start)

Placed ==
    /\ moved \subseteq Rows /\ start \subseteq Rows
    /\ stage \in {"items", "assigned", "added", "removed", "unlinked", "done", "failed"}
    /\ stage \in {"assigned", "added", "removed", "unlinked", "done"} => pos > Len(list)

EndInv == Collected /\ Written /\ Linked /\ InMemory /\ Placed

LEMMA RowsAreNotNew ==
    ASSUME NEW i \in Nat, i >= 1
    PROVE  NewRow(i) \notin Rows
BY ListAssumption DEF NewRow

LEMMA PositionsAreNumbers ==
    ASSUME TypeOK
    PROVE  /\ Len(list) \in Nat /\ DOMAIN list = 1 .. Len(list)
           /\ \A i \in DOMAIN list : list[i] \in Items
BY ListAssumption DEF TypeOK, Items

LEMMA InitEndInv == Init => EndInv
<1> SUFFICES ASSUME Init PROVE EndInv
    OBVIOUS
<1>1. TypeOK
    BY InitIInv DEF IInv
<1>2. start \subseteq Rows /\ pos = 1 /\ stage = "items"
    BY ListAssumption DEF Init
<1>3. \A i \in DOMAIN list : ~ (i < pos)
    BY <1>1, <1>2, PositionsAreNumbers
<1>4. Collected /\ Written
    BY <1>3 DEF Init, Collected, Written, WrittenSoFar
<1>5. Linked /\ InMemory /\ Placed
    BY <1>2 DEF Init, Linked, LinksAreAdded, LinksAreRemoved, InMemory, Placed, Table
<1> QED
    BY <1>4, <1>5 DEF EndInv

\* Items do not change what a list means.
LEMMA MeaningStays ==
    ASSUME UNCHANGED <<list, guard>>
    PROVE  /\ Items' = Items
           /\ \A ref : Permitted(ref)' = Permitted(ref)
           /\ \A i : list[i]' = list[i] /\ NewRow(i)' = NewRow(i)
BY DEF Items, Permitted, Refused, NewRow

\* An item of a permitted row is taken as it asks.
LEMMA ItemDoes ==
    ASSUME TypeOK, EndInv, NEW link \in BOOLEAN, Item(link)
    PROVE  /\ pos \in DOMAIN list /\ stage = "items"
           /\ Permitted(Ref) =>
                 /\ Ref.op = "create" => CreateItem
                 /\ Ref.row \in Rows =>
                       /\ Ref.op = "update" => UpdateItem
                       /\ Ref.op \in {"unlink", "delete"} => NoteItem
<1>1. stage = "items" /\ pos <= Len(list)
    BY DEF Item, SkipItem, CreateItem, UpdateItem, UpsertItem, NoteItem, ItemsLeft
<1>2. pos \in DOMAIN list
    BY <1>1, PositionsAreNumbers DEF TypeOK
<1>3. Rows \subseteq db.live
    BY <1>1 DEF EndInv, Linked, LinksAreAdded, LinksAreRemoved
<1>4. Permitted(Ref) /\ Ref.op = "create" => CreateItem
    BY DEF Permitted, Item, SkipItem, CreateItem, UpdateItem, UpsertItem, NoteItem, Skips
<1>5. Permitted(Ref) /\ Ref.row \in Rows /\ Ref.op \in {"update", "unlink", "delete"} => ~ Skips
    BY <1>3 DEF Permitted, Skips, Found
<1>6. Permitted(Ref) /\ Ref.row \in Rows /\ Ref.op = "update" => UpdateItem
    BY <1>5 DEF Item, SkipItem, CreateItem, UpdateItem, UpsertItem, NoteItem
<1>7. Permitted(Ref) /\ Ref.row \in Rows /\ Ref.op \in {"unlink", "delete"} => NoteItem
    BY <1>5 DEF Item, SkipItem, CreateItem, UpdateItem, UpsertItem, NoteItem
<1> QED
    BY <1>1, <1>2, <1>4, <1>6, <1>7

\* What one item adds to what was there.
LEMMA ItemAdds ==
    ASSUME TypeOK, NEW link \in BOOLEAN, Item(link)
    PROVE  /\ Taken
           /\ toAdd \subseteq toAdd' /\ toRemove \subseteq toRemove'
           /\ toDelete \subseteq toDelete'
           /\ db.live \subseteq db'.live /\ db.written \subseteq db'.written
           /\ db'.links \subseteq db.links \cup (IF link THEN {NewRow(pos)} ELSE {})
           /\ db.links \subseteq db'.links
           /\ \A r \in toAdd' \ toAdd :
                 (r = Ref.row /\ Ref.op \in {"update", "upsert"}) \/ r = NewRow(pos)
           /\ \A r \in toRemove' \ toRemove : r = Ref.row /\ Ref.op = "unlink"
           /\ \A r \in toDelete' \ toDelete : r = Ref.row /\ Ref.op = "delete"
<1>1. db \in Tables
    BY DEF TypeOK
<1>2. CASE SkipItem
    BY <1>2 DEF SkipItem
<1>3. CASE CreateItem
    BY <1>1, <1>3 DEF CreateItem, Tables
<1>4. CASE UpdateItem
    BY <1>1, <1>4 DEF UpdateItem, Tables
<1>5. CASE UpsertItem(link)
    <2> DEFINE r == IF Found(Ref.row) /\ Ref.row \in db.links THEN Ref.row ELSE NewRow(pos)
    <2>1. /\ db' = [live |-> db.live \cup {r},
                    links |-> IF link THEN db.links \cup {r} ELSE db.links,
                    written |-> db.written \cup ({r} \cap Rows)]
          /\ toAdd' = IF link THEN toAdd ELSE toAdd \cup {r}
          /\ UNCHANGED <<toRemove, toDelete>> /\ Taken /\ Ref.op = "upsert"
        BY <1>5 DEF UpsertItem
    <2>2. r \in db.links \/ r = NewRow(pos)
        OBVIOUS
    <2>3. r = Ref.row \/ r = NewRow(pos)
        OBVIOUS
    <2> HIDE DEF r
    <2> QED
        BY <2>1, <2>2, <2>3
<1>6. CASE NoteItem
    BY <1>6 DEF NoteItem
<1> QED
    BY <1>2, <1>3, <1>4, <1>5, <1>6 DEF Item

LEMMA ItemKeepsEnd ==
    ASSUME TypeOK, EndInv, NEW link \in BOOLEAN, Item(link), Sqlalchemy => ~ link
    PROVE  EndInv'
<1>1. /\ pos \in DOMAIN list /\ stage = "items" /\ Ref \in Items /\ pos \in Nat /\ pos >= 1
      /\ Ref = list[pos]
    BY ItemDoes, PositionsAreNumbers DEF Ref, TypeOK
<1>2. /\ pos' = pos + 1
      /\ UNCHANGED <<backend, list, guard, start, base, moved, existing, stage>>
    BY ItemAdds DEF Taken
<1>3. /\ Items' = Items /\ \A ref : Permitted(ref)' = Permitted(ref)
      /\ \A i : list[i]' = list[i] /\ NewRow(i)' = NewRow(i)
    BY <1>2, MeaningStays
<1>4. \A i \in DOMAIN list : i < pos' => i < pos \/ i = pos
    BY <1>1, <1>2, PositionsAreNumbers
<1>5. Permitted(Ref) =>
          /\ Ref.op = "create" => NewRow(pos) \in toAdd' /\ NewRow(pos) \in db'.live
          /\ Ref.row \in Rows =>
                /\ Ref.op = "update" => Ref.row \in toAdd' /\ Ref.row \in db'.written
                /\ Ref.op = "unlink" => Ref.row \in toRemove'
                /\ Ref.op = "delete" => Ref.row \in toDelete'
    BY ItemDoes DEF CreateItem, UpdateItem, NoteItem, TypeOK, Tables
<1>6. Collected'
    <2>1. \A r \in toAdd' : \/ \E ref \in Items : ref.row = r /\ ref.op \in {"update", "upsert"}
                           \/ \E i \in DOMAIN list : r = NewRow(i)
        BY <1>1, ItemAdds DEF EndInv, Collected
    <2>2. \A r \in toRemove' : \E ref \in Items : ref.row = r /\ ref.op = "unlink"
        BY <1>1, ItemAdds DEF EndInv, Collected
    <2>3. \A r \in toDelete' : \E ref \in Items : ref.row = r /\ ref.op = "delete"
        BY <1>1, ItemAdds DEF EndInv, Collected
    <2>4. ASSUME NEW i \in DOMAIN list, i < pos', Permitted(list[i])
          PROVE  /\ list[i].op = "create" => NewRow(i) \in toAdd'
                 /\ list[i].row \in Rows =>
                       /\ list[i].op = "update" => list[i].row \in toAdd'
                       /\ list[i].op = "unlink" => list[i].row \in toRemove'
                       /\ list[i].op = "delete" => list[i].row \in toDelete'
        <3>1. CASE i = pos
            BY <1>1, <1>5, <2>4, <3>1
        <3>2. CASE i < pos
            BY <2>4, <3>2, ItemAdds DEF EndInv, Collected
        <3> QED
            BY <1>4, <2>4, <3>1, <3>2
    <2> QED
        BY <1>2, <1>3, <2>1, <2>2, <2>3, <2>4 DEF Collected
<1>7. Written'
    <2>1. ASSUME NEW i \in DOMAIN list, i < pos', Permitted(list[i])
          PROVE  /\ list[i].op = "create" => NewRow(i) \in db'.live \/ NewRow(i) \in toDelete'
                 /\ list[i].op = "update" /\ list[i].row \in Rows => list[i].row \in db'.written
        <3>1. CASE i = pos
            BY <1>1, <1>5, <2>1, <3>1
        <3>2. CASE i < pos
            BY <1>1, <2>1, <3>2, ItemAdds DEF EndInv, Written, WrittenSoFar
        <3> QED
            BY <1>4, <2>1, <3>1, <3>2
    <2> QED
        BY <1>2, <1>3, <2>1 DEF Written, WrittenSoFar
<1>8. NewRow(pos) \notin Rows
    BY <1>1, RowsAreNotNew
<1>9. Linked'
    BY <1>1, <1>2, <1>8, ItemAdds DEF EndInv, Linked, LinksAreAdded, LinksAreRemoved
<1>10. InMemory' /\ Placed'
    BY <1>1, <1>2, ItemAdds DEF EndInv, InMemory, Placed, Sqlalchemy
<1> QED
    BY <1>6, <1>7, <1>9, <1>10 DEF EndInv
\* A step after the items, of the list or of the other request, changes neither
\* what was collected nor what it came from.
LEMMA LaterStep ==
    ASSUME TypeOK, EndInv, stage' # "items" => (stage = "items" => pos > Len(list)),
           UNCHANGED <<list, guard, start, pos, toAdd, toRemove, toDelete>>,
           stage' # "failed" =>
               /\ stage # "failed" /\ db.written \subseteq db'.written
               /\ db.live \ toDelete \subseteq db'.live,
           moved' \subseteq Rows,
           stage' \in {"items", "assigned", "added", "removed", "unlinked", "done", "failed"}
    PROVE  Collected' /\ Written' /\ Placed'
<1>1. /\ Items' = Items /\ \A ref : Permitted(ref)' = Permitted(ref)
      /\ \A i : list[i]' = list[i] /\ NewRow(i)' = NewRow(i)
    BY MeaningStays
<1>2. Collected'
    BY <1>1 DEF EndInv, Collected
<1>3. Written'
    BY <1>1 DEF EndInv, Written, WrittenSoFar
<1>4. Placed'
    BY DEF EndInv, Placed
<1> QED
    BY <1>2, <1>3, <1>4

LEMMA FailKeepsEnd ==
    ASSUME TypeOK, EndInv, Fail
    PROVE  EndInv'
<1>1. /\ stage' = "failed" /\ db' \in {base, db}
      /\ UNCHANGED <<backend, list, guard, start, base, moved, existing, pos, toAdd,
                    toRemove, toDelete>>
    BY DEF Fail, collected
<1>2. Collected' /\ Placed'
    BY <1>1, MeaningStays DEF EndInv, Collected, Placed
<1>3. Written'
    BY <1>1 DEF Written, WrittenSoFar
<1>4. Linked' /\ InMemory'
    BY <1>1 DEF EndInv, Linked, LinksAreAdded, LinksAreRemoved, InMemory, Sqlalchemy
<1> QED
    BY <1>2, <1>3, <1>4 DEF EndInv

LEMMA StatementKeepsEnd ==
    ASSUME TypeOK, EndInv,
           AddLinks \/ RemoveLinks \/ UnlinkDoomed \/ DeleteRow \/ DeleteRows
    PROVE  EndInv'
<1>1. /\ UNCHANGED <<backend, list, guard, start, base, moved, existing, pos, toAdd,
                    toRemove, toDelete>>
      /\ ~ Sqlalchemy /\ db \in Tables
    BY DEF AddLinks, RemoveLinks, UnlinkDoomed, DeleteRow, DeleteRows, Statement, collected,
           TypeOK
<1>2. CASE AddLinks
    <2>1. /\ stage = "items" /\ stage' = "added" /\ pos > Len(list)
          /\ db'.links = db.links \cup toAdd
          /\ db'.live = db.live /\ db'.written = db.written
        BY <1>1, <1>2 DEF AddLinks, Statement, Tables
    <2>2. Collected' /\ Written' /\ Placed'
        BY <1>1, <2>1, LaterStep DEF EndInv, Placed
    <2>3. Linked'
        BY <1>1, <2>1 DEF EndInv, Linked, LinksAreAdded, LinksAreRemoved
    <2>4. InMemory'
        BY <1>1, <2>1 DEF EndInv, InMemory, Sqlalchemy
    <2> QED
        BY <2>2, <2>3, <2>4 DEF EndInv
<1>3. CASE RemoveLinks
    <2>1. /\ stage = "added" /\ stage' = "removed"
          /\ db'.links = db.links \ toRemove
          /\ db'.live = db.live /\ db'.written = db.written
        BY <1>1, <1>3 DEF RemoveLinks, Statement, Tables
    <2>2. Collected' /\ Written' /\ Placed'
        BY <1>1, <2>1, LaterStep DEF EndInv, Placed
    <2>3. Linked'
        BY <1>1, <2>1 DEF EndInv, Linked, LinksAreAdded, LinksAreRemoved
    <2>4. InMemory'
        BY <1>1, <2>1 DEF EndInv, InMemory, Sqlalchemy
    <2> QED
        BY <2>2, <2>3, <2>4 DEF EndInv
<1>4. CASE UnlinkDoomed
    <2>1. /\ stage = "removed" /\ stage' = "unlinked"
          /\ db'.links = db.links \ toDelete
          /\ db'.live = db.live /\ db'.written = db.written
        BY <1>1, <1>4 DEF UnlinkDoomed, Statement, Tables, Without
    <2>2. Collected' /\ Written' /\ Placed'
        BY <1>1, <2>1, LaterStep DEF EndInv, Placed
    <2>3. Linked'
        BY <1>1, <2>1 DEF EndInv, Linked, LinksAreAdded, LinksAreRemoved
    <2>4. InMemory'
        BY <1>1, <2>1 DEF EndInv, InMemory, Sqlalchemy
    <2> QED
        BY <2>2, <2>3, <2>4 DEF EndInv
<1>5. CASE DeleteRow
    <2>1. PICK r \in toDelete \cap db.live : db' = Without({r})
        BY <1>5 DEF DeleteRow
    <2>2. /\ stage = "unlinked" /\ stage' = "unlinked"
          /\ db'.links = db.links \ {r} /\ db'.live = db.live \ {r} /\ db'.written = db.written
        BY <1>1, <1>5, <2>1 DEF DeleteRow, Statement, Tables, Without
    <2>3. Collected' /\ Written' /\ Placed'
        BY <1>1, <2>2, LaterStep DEF EndInv, Placed
    <2>4. Linked'
        BY <1>1, <2>2 DEF EndInv, Linked, LinksAreAdded, LinksAreRemoved
    <2>5. InMemory'
        BY <1>1, <2>2 DEF EndInv, InMemory, Sqlalchemy
    <2> QED
        BY <2>3, <2>4, <2>5 DEF EndInv
<1>6. CASE DeleteRows
    <2>1. /\ stage = "unlinked" /\ stage' = "done"
          /\ db'.links = db.links \ toDelete
          /\ db'.live = db.live \ toDelete /\ db'.written = db.written
        BY <1>1, <1>6 DEF DeleteRows, Statement, Tables, Without
    <2>2. Collected' /\ Written' /\ Placed'
        BY <1>1, <2>1, LaterStep DEF EndInv, Placed
    <2>3. Linked'
        BY <1>1, <2>1 DEF EndInv, Linked, LinksAreAdded, LinksAreRemoved
    <2>4. InMemory'
        BY <1>1, <2>1 DEF EndInv, InMemory, Sqlalchemy
    <2> QED
        BY <2>2, <2>3, <2>4 DEF EndInv
<1> QED
    BY <1>2, <1>3, <1>4, <1>5, <1>6

LEMMA ReadKeepsEnd ==
    ASSUME TypeOK, EndInv, SaCollection \/ SaRefreshedCollection
    PROVE  EndInv'
<1>1. /\ UNCHANGED <<backend, list, guard, start, base, db, moved, pos, toAdd,
                    toRemove, toDelete>>
      /\ Sqlalchemy /\ stage = "items" /\ stage' = "assigned" /\ pos > Len(list)
      /\ existing' \in {existing, db.links}
      /\ existing' = existing => existing # NotLoaded \/ existing = db.links
    BY DEF SaCollection, SaRefreshedCollection, ReadCollection, collected, Sqlalchemy
<1>2. Collected' /\ Written' /\ Placed'
    BY <1>1, LaterStep DEF EndInv, Placed
<1>3. Linked'
    BY <1>1 DEF EndInv, Linked, LinksAreAdded, LinksAreRemoved
<1>4. /\ db.links \subseteq Rows
      /\ \A r \in Rows \ moved : (r \in db.links) = (r \in start)
    BY <1>1 DEF EndInv, InMemory, Linked, LinksAreAdded, LinksAreRemoved
<1>5. InMemory'
    BY <1>1, <1>4 DEF EndInv, InMemory, Sqlalchemy
<1> QED
    BY <1>2, <1>3, <1>5 DEF EndInv

\* The flush writes the difference between what the list wants and what the
\* collection held, which is what another request has not written.
LEMMA FlushKeepsEnd ==
    ASSUME TypeOK, EndInv, Flush
    PROVE  EndInv'
<1>1. /\ UNCHANGED <<backend, list, guard, start, base, moved, existing, pos, toAdd,
                    toRemove, toDelete>>
      /\ stage = "assigned" /\ stage' = "done" /\ ~ FlushCollides /\ Sqlalchemy
      /\ db'.links = Flushed /\ db'.live = db.live \ toDelete
      /\ db'.written = db.written
    BY DEF Flush, collected, EndInv, InMemory, TypeOK, Tables
<1>2. Collected' /\ Written' /\ Placed'
    BY <1>1, LaterStep DEF EndInv, Placed
<1>3. \A r \in Rows \ moved :
          (r \in existing) = (r \in start) /\ (r \in db.links) = (r \in start)
    BY <1>1 DEF EndInv, Linked, LinksAreAdded, LinksAreRemoved, InMemory
<1>4. existing \subseteq Rows /\ db.links \subseteq Rows
    BY <1>1 DEF EndInv, InMemory
<1>5. toAdd \ (toRemove \cup toDelete \cup moved) \subseteq Flushed
    BY <1>3, <1>4 DEF Flushed, Added, Removed, Merged
<1>6. \A r \in Rows \ (toAdd \cup toRemove \cup toDelete) :
          (r \in Flushed) = (r \in base.links)
    <2>1. \A r \in Rows : (r \in db.links) = (r \in base.links)
        BY <1>1 DEF EndInv, Linked, LinksAreAdded, LinksAreRemoved
    <2> QED
        BY <2>1, FlushTouches
<1>7. (toRemove \ (toAdd \cup moved)) \cap Flushed = {}
    BY <1>3, <1>4 DEF Flushed, Added, Removed, Merged
<1>8. toDelete \cap Flushed = {}
    BY <1>1 DEF FlushCollides
<1>9. Linked'
    <2>1. Rows \subseteq db.live /\ \A r \in Rows \ moved : (r \in base.links) = (r \in start)
        BY <1>1 DEF EndInv, Linked, LinksAreAdded, LinksAreRemoved
    <2> QED
        BY <1>1, <1>5, <1>6, <1>7, <1>8, <2>1 DEF Linked, LinksAreAdded, LinksAreRemoved
<1>10. InMemory'
    BY <1>1 DEF EndInv, InMemory, Sqlalchemy
<1> QED
    BY <1>2, <1>9, <1>10 DEF EndInv

LEMMA OtherKeepsEnd ==
    ASSUME TypeOK, EndInv, OtherWrites
    PROVE  EndInv'
<1>1. PICK r \in Rows \cap db.live :
          /\ moved' = moved \cup {r}
          /\ \/ /\ r \notin db.links \cup base.links
                /\ db' = [db EXCEPT !.links = @ \cup {r}]
                /\ base' = [base EXCEPT !.links = @ \cup {r}]
             \/ /\ r \in db.links \cap base.links
                /\ db' = [db EXCEPT !.links = @ \ {r}]
                /\ base' = [base EXCEPT !.links = @ \ {r}]
    BY DEF OtherWrites
<1>2. /\ UNCHANGED <<backend, list, guard, start, existing, stage, pos, toAdd, toRemove,
                    toDelete>>
      /\ stage \notin {"done", "failed"}
    BY DEF OtherWrites, collected
<1>3. db \in Tables /\ base \in Tables
    BY DEF TypeOK
<1>4. /\ db'.live = db.live /\ db'.written = db.written
      /\ \/ r \in db'.links /\ r \in base'.links
         \/ r \notin db'.links /\ r \notin base'.links
      /\ \A q : q # r => (q \in db'.links) = (q \in db.links)
                         /\ (q \in base'.links) = (q \in base.links)
    BY <1>1, <1>3 DEF Tables
<1>5. Collected' /\ Written' /\ Placed'
    BY <1>1, <1>2, <1>4, LaterStep DEF EndInv, Placed
<1>6. Linked'
    BY <1>1, <1>2, <1>4 DEF EndInv, Linked, LinksAreAdded, LinksAreRemoved
<1>7. InMemory'
    <2>1. Sqlalchemy' = Sqlalchemy
        BY <1>2 DEF Sqlalchemy
    <2> QED
        BY <1>1, <1>2, <1>4, <2>1 DEF EndInv, InMemory
<1> QED
    BY <1>5, <1>6, <1>7 DEF EndInv

LEMMA NextKeepsEnd == TypeOK /\ EndInv /\ [Next]_vars => EndInv'
<1> SUFFICES ASSUME TypeOK, EndInv, [Next]_vars PROVE EndInv'
    OBVIOUS
<1>1. CASE SaApplyRefItems \/ SaApplyRefItemsAsync
    BY <1>1, ItemKeepsEnd DEF SaApplyRefItems, SaApplyRefItemsAsync
<1>2. CASE DjApplyRefItems \/ TtApplyRefItems
    BY <1>2, ItemKeepsEnd DEF DjApplyRefItems, TtApplyRefItems, Sqlalchemy
<1>3. CASE UNCHANGED vars
    <2>1. UNCHANGED <<backend, list, guard, start, db, base, moved, pos, toAdd, toRemove,
                      toDelete, existing, stage>>
        BY <1>3 DEF vars
    <2>2. Collected' /\ Written'
        BY <2>1, MeaningStays DEF EndInv, Collected, Written, WrittenSoFar
    <2> QED
        BY <2>1, <2>2 DEF EndInv, Linked, LinksAreAdded, LinksAreRemoved,
           InMemory, Placed, Sqlalchemy
<1> QED
    BY <1>1, <1>2, <1>3, FailKeepsEnd, StatementKeepsEnd, ReadKeepsEnd, FlushKeepsEnd,
       OtherKeepsEnd
    DEF Next

\* What was collected and written of a list that names no row twice is what it
\* asks for.
LEMMA CollectedIsAsked ==
    ASSUME TypeOK, Collected, Placed, pos > Len(list), WrittenSoFar,
           LinksAreAdded, LinksAreRemoved, NamedOnce
    PROVE  /\ AllButDeletes
           /\ Asks("delete") \subseteq toDelete
           /\ \A r \in Rows : Named(r) = {} =>
                 r \notin toAdd /\ r \notin toRemove /\ r \notin toDelete
<1>1. \A i \in DOMAIN list : i < pos /\ list[i] \in Items /\ i \in Nat /\ i >= 1
    BY PositionsAreNumbers DEF TypeOK
<1>2. \A x, y \in Items : x.row = y.row /\ x.row \in Rows => x = y
    BY DEF Items, NamedOnce
<1>3. \A i \in DOMAIN list : NewRow(i) \notin Rows
    BY <1>1, RowsAreNotNew
<1>4. ASSUME NEW r \in Asks("update")
      PROVE  /\ r \in db.written /\ r \in toAdd /\ r \notin toRemove
             /\ r \notin toDelete
    <2>1. PICK i \in DOMAIN list : list[i].row = r /\ list[i].op = "update"
                                  /\ r \in Rows /\ Permitted(list[i])
        BY <1>4 DEF Asks, Items
    <2>2. r \in db.written /\ r \in toAdd
        BY <1>1, <2>1 DEF Collected, WrittenSoFar
    <2>3. \A ref \in Items : ref.row = r => ref.op = "update"
        BY <1>1, <1>2, <2>1
    <2> QED
        BY <2>2, <2>3 DEF Collected
<1>5. ASSUME NEW r \in Asks("unlink")
      PROVE  r \in toRemove /\ r \notin toAdd
    <2>1. PICK i \in DOMAIN list : list[i].row = r /\ list[i].op = "unlink"
                                  /\ r \in Rows /\ Permitted(list[i])
        BY <1>5 DEF Asks, Items
    <2>2. r \in toRemove
        BY <1>1, <2>1 DEF Collected
    <2>3. \A ref \in Items : ref.row = r => ref.op = "unlink"
        BY <1>1, <1>2, <2>1
    <2> QED
        BY <1>3, <2>1, <2>2, <2>3 DEF Collected
<1>6. ASSUME NEW r \in Asks("delete")
      PROVE  r \in toDelete
    <2>1. PICK i \in DOMAIN list : list[i].row = r /\ list[i].op = "delete"
                                  /\ r \in Rows /\ Permitted(list[i])
        BY <1>6 DEF Asks, Items
    <2> QED
        BY <1>1, <2>1 DEF Collected
<1>7. ASSUME NEW i \in DOMAIN list, list[i].op = "create", Permitted(list[i])
      PROVE  NewRow(i) \in db.links \cap db.live
    <2>1. NewRow(i) \notin toRemove \cup toDelete
        BY DEF Collected, NamedOnce, Items
    <2>2. NewRow(i) \in toAdd /\ NewRow(i) \in db.live
        BY <1>1, <1>7, <2>1 DEF Collected, WrittenSoFar
    <2>3. NewRow(i) \notin moved
        BY <1>3 DEF Placed
    <2> QED
        BY <2>1, <2>2, <2>3 DEF LinksAreAdded
<1>8. ASSUME NEW r \in Rows, Named(r) = {}
      PROVE  r \notin toAdd /\ r \notin toRemove /\ r \notin toDelete
    <2>1. \A ref \in Items : ref.row # r
        BY <1>8 DEF Named
    <2> QED
        BY <1>3, <2>1 DEF Collected
<1>9. AllButDeletes
    BY <1>4, <1>5, <1>7 DEF AllButDeletes, LinksAreAdded, LinksAreRemoved
<1> QED
    BY <1>6, <1>8, <1>9

\* On every backend, and whatever another request writes meanwhile, a list that
\* names no row twice ends as it asks: the order of the statements, and the
\* collection read before the flush, change nothing.
THEOREM ListsEndAsAsked == Spec => []ListEndsAsAsked
<1>1. TypeOK /\ EndInv => ListEndsAsAsked
    <2> SUFFICES ASSUME TypeOK, EndInv, stage = "done", NamedOnce
                 PROVE  /\ AllButDeletes
                        /\ Asks("delete") \cap (db.links \cup db.live) = {}
                        /\ \A r \in Rows : Named(r) = {} =>
                              r \in db.live /\ (r \in db.links) = (r \in base.links)
        BY DEF ListEndsAsAsked
    <2>1. Collected /\ Placed /\ pos > Len(list) /\ WrittenSoFar
        BY DEF EndInv, Placed, Written
    <2>2. /\ LinksAreAdded /\ LinksAreRemoved /\ Rows \ toDelete \subseteq db.live
          /\ \A r \in Rows \ (toAdd \cup toRemove \cup toDelete) :
                (r \in db.links) = (r \in base.links)
          /\ toDelete \cap (db.links \cup db.live) = {}
        BY DEF EndInv, Linked
    <2> QED
        BY <2>1, <2>2, CollectedIsAsked
<1>2. IInv => TypeOK
    BY DEF IInv
<1> QED
    BY <1>1, <1>2, InitIInv, NextKeepsIInv, InitEndInv, NextKeepsEnd, PTL DEF Spec

-----------------------------------------------------------------------------
(* What a list that fails has done. *)

\* The items of a list without an upsert write no link; and a list that failed
\* has either gone back to the table without it, or stopped where it was.
LossInv ==
    /\ stage = "items" /\ ~ HasUpsert => db.links = base.links
    /\ stage = "failed" /\ pos <= Len(list) => db.links = base.links /\ Rows \subseteq db.live
    /\ stage = "failed" /\ ~ Rows \subseteq db.live =>
          pos > Len(list) /\ WrittenSoFar /\ LinksAreAdded /\ LinksAreRemoved

LEMMA ItemKeepsLossInv ==
    ASSUME IInv, LossInv, NEW link \in BOOLEAN, Item(link)
    PROVE  LossInv'
<1>1. /\ stage = "items" /\ pos <= Len(list)
      /\ UNCHANGED <<list, base, stage>>
    BY DEF Item, SkipItem, CreateItem, UpdateItem, UpsertItem, NoteItem, ItemsLeft, Taken
<1>2. HasUpsert' = HasUpsert
    BY <1>1 DEF HasUpsert, Items
<1>3. ASSUME ~ HasUpsert
      PROVE  db'.links = db.links
    <2>1. Ref.op # "upsert" /\ db \in Tables
        BY <1>1, <1>3, ItemIsNamed DEF IInv, TypeOK, HasUpsert
    <2> QED
        BY <2>1 DEF Item, SkipItem, CreateItem, UpdateItem, UpsertItem, NoteItem, Tables
<1> QED
    BY <1>1, <1>2, <1>3 DEF LossInv

\* The step that matters: a failure among the items finds the links as they
\* were, and one that finds a row gone finds all the rest done.
LEMMA FailKeepsLossInv ==
    ASSUME IInv, EndInv, LossInv, Fail
    PROVE  LossInv'
<1>1. /\ stage' = "failed" /\ stage \notin {"done", "failed"}
      /\ UNCHANGED <<list, guard, base, moved, pos, toAdd, toRemove, toDelete>>
      /\ db' = IF HasUpsert THEN base ELSE db
    BY DEF Fail, collected, Savepoint
<1>2. Rows \subseteq base.live
    BY DEF IInv, TypeOK
<1>3. CASE HasUpsert
    BY <1>1, <1>2, <1>3 DEF LossInv
<1>4. CASE ~ HasUpsert
    <2>1. db' = db
        BY <1>1, <1>4
    <2>2. ASSUME pos <= Len(list)
          PROVE  db.links = base.links /\ Rows \subseteq db.live
        <3>1. Len(list) \in Nat /\ pos \in Nat
            BY PositionsAreNumbers DEF IInv, TypeOK
        <3>2. stage = "items"
            BY <1>1, <2>2, <3>1 DEF EndInv, Placed
        <3> QED
            BY <1>4, <3>2 DEF LossInv, EndInv, Linked
    <2>3. ASSUME ~ Rows \subseteq db.live
          PROVE  pos > Len(list) /\ WrittenSoFar /\ LinksAreAdded /\ LinksAreRemoved
        <3>1. stage = "unlinked"
            BY <1>1, <2>3 DEF EndInv, Placed, Linked
        <3> QED
            BY <3>1 DEF EndInv, Placed, Linked, Written
    <2>4. (WrittenSoFar => WrittenSoFar') /\ (LinksAreAdded => LinksAreAdded')
          /\ (LinksAreRemoved => LinksAreRemoved')
        BY <1>1, <2>1, MeaningStays DEF WrittenSoFar, LinksAreAdded, LinksAreRemoved
    <2> QED
        BY <1>1, <2>1, <2>2, <2>3, <2>4 DEF LossInv
<1> QED
    BY <1>3, <1>4

LEMMA NextKeepsLossInv == IInv /\ EndInv /\ LossInv /\ [Next]_vars => LossInv'
<1> SUFFICES ASSUME IInv, EndInv, LossInv, [Next]_vars PROVE LossInv'
    OBVIOUS
<1>1. CASE \E link \in BOOLEAN : Item(link)
    BY <1>1, ItemKeepsLossInv
<1>2. CASE Fail
    BY <1>2, FailKeepsLossInv
<1>3. CASE AddLinks \/ RemoveLinks \/ UnlinkDoomed \/ DeleteRow \/ DeleteRows
    <2>1. stage' \notin {"items", "failed"}
        BY <1>3 DEF AddLinks, RemoveLinks, UnlinkDoomed, DeleteRow, DeleteRows, Statement
    <2> QED
        BY <2>1 DEF LossInv
<1>4. CASE SaCollection \/ SaRefreshedCollection \/ Flush
    <2>1. stage' \notin {"items", "failed"}
        BY <1>4 DEF SaCollection, SaRefreshedCollection, ReadCollection, Flush
    <2> QED
        BY <2>1 DEF LossInv
<1>5. CASE OtherWrites
    <2>1. stage' = stage /\ stage # "failed" /\ list' = list
        BY <1>5 DEF OtherWrites
    <2>2. db \in Tables /\ base \in Tables
        BY DEF IInv, TypeOK
    <2>3. db.links = base.links => db'.links = base'.links
        BY <1>5, <2>2 DEF OtherWrites, Tables
    <2> QED
        BY <2>1, <2>3 DEF LossInv, HasUpsert, Items
<1>6. CASE UNCHANGED vars
    <2>1. UNCHANGED <<list, guard, db, base, moved, pos, toAdd, toRemove, toDelete, stage>>
        BY <1>6 DEF vars
    <2>2. (WrittenSoFar => WrittenSoFar') /\ (LinksAreAdded => LinksAreAdded')
          /\ (LinksAreRemoved => LinksAreRemoved')
        BY <2>1, MeaningStays DEF WrittenSoFar, LinksAreAdded, LinksAreRemoved
    <2>3. HasUpsert' = HasUpsert
        BY <2>1 DEF HasUpsert, Items
    <2> QED
        BY <2>1, <2>2, <2>3 DEF LossInv
<1> QED
    BY <1>1, <1>2, <1>3, <1>4, <1>5, <1>6
    DEF Next, SaApplyRefItems, SaApplyRefItemsAsync, DjApplyRefItems, TtApplyRefItems

\* Whichever item is refused and whichever statement fails, on any backend, no
\* link has moved when an item is refused, and no row is gone before all that
\* the list asks for, but for its deletes, has been done.
THEOREM ListsLoseRowsLast == Spec => []LossesComeLast
<1>1. Init => LossInv
    BY DEF Init, LossInv
<1>2. IInv /\ EndInv /\ LossInv => LossesComeLast
    <2> SUFFICES ASSUME IInv, EndInv, LossInv
                 PROVE  LossesComeLast
        OBVIOUS
    <2>1. ASSUME NamedOnce, ~ Rows \subseteq db.live
          PROVE  AllButDeletes
        <3>1. pos > Len(list) /\ WrittenSoFar /\ LinksAreAdded /\ LinksAreRemoved
            <4>1. CASE stage = "failed"
                BY <2>1, <4>1 DEF LossInv
            <4>2. CASE stage # "failed"
                <5>1. stage \in {"unlinked", "done"}
                    BY <2>1, <4>2 DEF EndInv, Placed, Linked
                <5> QED
                    BY <5>1 DEF EndInv, Placed, Linked, Written
            <4> QED
                BY <4>1, <4>2
        <3> QED
            BY <2>1, <3>1, CollectedIsAsked DEF IInv, EndInv
    <2> QED
        BY <2>1 DEF LossInv, LossesComeLast
<1>3. IInv => TypeOK
    BY DEF IInv
<1> QED
    BY <1>1, <1>2, <1>3, InitIInv, NextKeepsIInv, InitEndInv, NextKeepsEnd,
       NextKeepsLossInv, PTL DEF Spec
=============================================================================
