--------------------------- MODULE ReferenceList ----------------------------
(***************************************************************************)
(* orm.apply_ref_list(): a list of create, update, upsert, unlink and      *)
(* delete items applied to one many-to-many relation of one row. Items are *)
(* taken one by one and collected; what they collect is then written to    *)
(* the relation, in an order that is each backend's own, while another     *)
(* request links and unlinks rows of the same relation.                    *)
(***************************************************************************)
EXTENDS Naturals, Sequences, FiniteSets

CONSTANTS
    Rows,      \* keys of the rows there are
    Hidden,    \* rows that the repo's scope_query leaves out
    Denied,    \* <<operation, row>>: refused by the repo, or by authorize
    Lists,     \* the lists that may be sent: sequences of [op, row]
    Starts,    \* the rows that may be linked when the list arrives
    Backends,
    NotLoaded,
    MaxOthers  \* bound on the rows the other request writes

ASSUME ListAssumption ==
    /\ Rows \subseteq 1 .. 99 /\ Hidden \subseteq Rows
    /\ Starts \subseteq SUBSET Rows /\ MaxOthers \in Nat
    /\ Lists \subseteq Seq([op : {"create", "update", "upsert", "unlink", "delete"},
                            row : Nat])
    /\ Backends \subseteq {"sqlalchemy", "sqlalchemy_async", "django", "tortoise"}

VARIABLES
    backend, list, guard, start,
    db,        \* [live, links, written]: the table as the list's writes leave it
    base,      \* the same without the list's own writes
    moved,     \* history: the rows the other request has linked or unlinked
    pos, toAdd, toRemove, toDelete,
    existing,  \* SQLAlchemy: the collection in memory, or NotLoaded
    stage
vars == <<backend, list, guard, start, db, base, moved,
          pos, toAdd, toRemove, toDelete, existing, stage>>
collected == <<pos, toAdd, toRemove, toDelete>>

Items == {list[i] : i \in DOMAIN list}
HasUpsert == \E ref \in Items : ref.op = "upsert"
Sqlalchemy == backend \in {"sqlalchemy", "sqlalchemy_async"}
NewRow(i) == 100 + i

Table(links) == [live |-> Rows, links |-> links, written |-> {}]
Init ==
    /\ backend \in Backends /\ list \in Lists /\ guard \in {"repo", "authorize"}
    /\ start \in Starts
    /\ db = Table(start) /\ base = Table(start) /\ moved = {}
    /\ pos = 1 /\ toAdd = {} /\ toRemove = {} /\ toDelete = {}
    /\ existing \in {NotLoaded} \cup (IF Sqlalchemy THEN {start} ELSE {})
    /\ stage = "items"

-----------------------------------------------------------------------------
(* One item. With authorize there is no repo: nothing is scoped then, and   *)
(* what authorize refuses is skipped; what a repo refuses raises.           *)

Ref == list[pos]
Refused(ref) == <<ref.op, ref.row>> \in Denied
\* Mutant of Found: rows are looked up without scope_query.
FoundAnywhere(r) == r \in db.live
Found(r) == r \in db.live /\ (guard = "repo" => r \notin Hidden)
\* The link table drops the links of a row that goes.
Without(rs) == [db EXCEPT !.links = @ \ rs, !.live = @ \ rs]
Skips == /\ Ref.op # "upsert"
         /\ \/ guard = "authorize" /\ Refused(Ref)
            \/ Ref.op # "create" /\ ~ Found(Ref.row)
Raises == ~ Skips /\ Refused(Ref)

ItemsLeft == stage = "items" /\ pos <= Len(list)
Taken == /\ pos' = pos + 1
         /\ UNCHANGED <<backend, list, guard, start, base, moved, existing, stage>>

SkipItem == ItemsLeft /\ Skips /\ Taken /\ UNCHANGED <<db, toAdd, toRemove, toDelete>>

CreateItem ==
    /\ ItemsLeft /\ ~ Skips /\ ~ Raises /\ Ref.op = "create"
    /\ Taken
    /\ db' = [db EXCEPT !.live = @ \cup {NewRow(pos)}]
    /\ toAdd' = toAdd \cup {NewRow(pos)}
    /\ UNCHANGED <<toRemove, toDelete>>

UpdateItem ==
    /\ ItemsLeft /\ ~ Skips /\ ~ Raises /\ Ref.op = "update"
    /\ Taken
    /\ db' = [db EXCEPT !.written = @ \cup {Ref.row}]
    /\ toAdd' = toAdd \cup {Ref.row}
    /\ UNCHANGED <<toRemove, toDelete>>

\* apply_ref_upsert: the row is looked for among the parent's, and is created
\* when it is not there; link says whether it is linked here and now.
UpsertItem(link) ==
    LET r == IF Found(Ref.row) /\ Ref.row \in db.links THEN Ref.row ELSE NewRow(pos)
    IN  /\ ItemsLeft /\ ~ Raises /\ Ref.op = "upsert"
        /\ Taken
        /\ db' = [live |-> db.live \cup {r},
                  links |-> IF link THEN db.links \cup {r} ELSE db.links,
                  written |-> db.written \cup ({r} \cap Rows)]
        /\ toAdd' = IF link THEN toAdd ELSE toAdd \cup {r}
        /\ UNCHANGED <<toRemove, toDelete>>

\* Rows to unlink or to delete are only looked up and remembered.
\* Mutant of NoteItem: a row to delete is deleted at once.
NoteItemAtOnce ==
    /\ ItemsLeft /\ ~ Skips /\ ~ Raises /\ Ref.op \in {"unlink", "delete"}
    /\ Taken
    /\ toRemove' = IF Ref.op = "unlink" THEN toRemove \cup {Ref.row} ELSE toRemove
    /\ db' = IF Ref.op = "delete" THEN Without({Ref.row}) ELSE db
    /\ UNCHANGED <<toAdd, toDelete>>
NoteItem ==
    /\ ItemsLeft /\ ~ Skips /\ ~ Raises /\ Ref.op \in {"unlink", "delete"}
    /\ Taken
    /\ toRemove' = IF Ref.op = "unlink" THEN toRemove \cup {Ref.row} ELSE toRemove
    /\ toDelete' = IF Ref.op = "delete" THEN toDelete \cup {Ref.row} ELSE toDelete
    /\ UNCHANGED <<db, toAdd>>

Item(link) == SkipItem \/ CreateItem \/ UpdateItem \/ UpsertItem(link) \/ NoteItem
SaApplyRefItems == backend = "sqlalchemy" /\ Item(FALSE)
SaApplyRefItemsAsync == backend = "sqlalchemy_async" /\ Item(FALSE)
DjApplyRefItems == backend = "django" /\ Item(TRUE)
TtApplyRefItems == backend = "tortoise" /\ Item(TRUE)

\* A refusal, a hook or the database raises; a list with an upsert is in a
\* savepoint or a transaction.
\* Mutant of Savepoint: only the upsert itself is undone.
NoSavepoint == FALSE
Savepoint == HasUpsert
Fail ==
    /\ stage \notin {"done", "failed"}
    /\ stage' = "failed"
    /\ db' = IF Savepoint THEN base ELSE db
    /\ UNCHANGED <<backend, list, guard, start, base, moved, existing>>
    /\ UNCHANGED collected

-----------------------------------------------------------------------------
(* Django and Tortoise: the statements on the relation, one by one. *)

Statement(from, to) ==
    /\ stage = from /\ (from = "items" => pos > Len(list)) /\ ~ Sqlalchemy
    /\ stage' = to
    /\ UNCHANGED <<backend, list, guard, start, base, moved, existing>>
    /\ UNCHANGED collected
AddLinks == Statement("items", "added") /\ db' = [db EXCEPT !.links = @ \cup toAdd]
RemoveLinks == Statement("added", "removed") /\ db' = [db EXCEPT !.links = @ \ toRemove]
UnlinkDoomed == Statement("removed", "unlinked") /\ db' = [db EXCEPT !.links = @ \ toDelete]
\* Behind a repo, Django deletes row by row.
DeletesEach == backend = "django" /\ guard = "repo"
DeleteRow ==
    /\ Statement("unlinked", "unlinked") /\ DeletesEach
    /\ \E r \in toDelete \cap db.live : db' = Without({r})
DeleteRows ==
    /\ Statement("unlinked", "done") /\ (DeletesEach => toDelete \cap db.live = {})
    /\ db' = Without(toDelete)

(* SQLAlchemy: the collection is assigned, and the flush writes what the   *)
(* assignment changed of it.                                               *)

ReadCollection ==
    /\ stage = "items" /\ pos > Len(list)
    /\ stage' = "assigned"
    /\ UNCHANGED <<backend, list, guard, start, db, base, moved>>
    /\ UNCHANGED collected
\* A synchronous session does not read a loaded collection again.
SaCollection ==
    /\ backend = "sqlalchemy" /\ ReadCollection
    /\ existing' = IF existing = NotLoaded THEN db.links ELSE existing
SaRefreshedCollection ==
    /\ backend = "sqlalchemy_async" /\ ReadCollection
    /\ existing' = db.links

Merged == (existing \ (toRemove \cup toDelete)) \cup toAdd
Added == Merged \ existing
Removed == existing \ Merged
\* Mutant of Flushed: the collection is written as a whole.
FlushedWhole == Merged
Flushed == (db.links \ Removed) \cup Added

\* A link that is there already, or gone already, ends the flush, and so does
\* one that still names a row to delete.
FlushCollides == \/ Added \cap db.links # {} \/ ~ Removed \subseteq db.links
                 \/ toDelete \cap Flushed # {}
Flush ==
    /\ stage = "assigned" /\ ~ FlushCollides
    /\ stage' = "done"
    /\ db' = [db EXCEPT !.links = Flushed, !.live = @ \ toDelete]
    /\ UNCHANGED <<backend, list, guard, start, base, moved, existing>>
    /\ UNCHANGED collected

-----------------------------------------------------------------------------
\* The other request; it and the list wait for each other on one link.
OtherWrites ==
    /\ stage \notin {"done", "failed"}
    /\ \E r \in Rows \cap db.live :
        /\ Cardinality(moved \cup {r}) <= MaxOthers
        /\ moved' = moved \cup {r}
        /\ \/ /\ r \notin db.links \cup base.links
              /\ db' = [db EXCEPT !.links = @ \cup {r}]
              /\ base' = [base EXCEPT !.links = @ \cup {r}]
           \/ /\ r \in db.links \cap base.links
              /\ db' = [db EXCEPT !.links = @ \ {r}]
              /\ base' = [base EXCEPT !.links = @ \ {r}]
    /\ UNCHANGED <<backend, list, guard, start, existing, stage>>
    /\ UNCHANGED collected

Next ==
    \/ SaApplyRefItems \/ SaApplyRefItemsAsync \/ DjApplyRefItems \/ TtApplyRefItems
    \/ Fail
    \/ AddLinks \/ RemoveLinks \/ UnlinkDoomed \/ DeleteRow \/ DeleteRows
    \/ SaCollection \/ SaRefreshedCollection \/ Flush
    \/ OtherWrites
Spec == Init /\ [][Next]_vars

-----------------------------------------------------------------------------
\* Tables, and the rows collected of a list, are sets of keys; the other
\* request only links and unlinks.
Tables == [live : SUBSET Nat, links : SUBSET Nat, written : SUBSET Nat]
TypeOK ==
    /\ list \in Lists
    /\ db \in Tables /\ base \in Tables /\ base.live = Rows /\ base.written = {}
    /\ pos \in Nat /\ pos >= 1
    /\ toAdd \in SUBSET Nat /\ toRemove \in SUBSET Nat /\ toDelete \in SUBSET Nat

-----------------------------------------------------------------------------
(* What a list asks for. *)

Named(r) == {ref \in Items : ref.row = r}
Permitted(ref) == ~ Refused(ref) /\ (guard = "repo" => ref.row \notin Hidden)
Asks(op) == {ref.row : ref \in {x \in Items : x.op = op /\ x.row \in Rows /\ Permitted(x)}}
NamedOnce ==
    /\ \A i, j \in DOMAIN list : list[i].row = list[j].row /\ i # j => list[i].row \notin Rows
    /\ \A i, j \in DOMAIN list : list[i].row # NewRow(j)

\* What the list asks for is done, but for the rows it deletes.
AllButDeletes ==
    /\ Asks("update") \ moved \subseteq db.links /\ Asks("update") \subseteq db.written
    /\ (Asks("unlink") \ moved) \cap db.links = {}
    /\ \A i \in DOMAIN list :
          list[i].op = "create" /\ Permitted(list[i]) => NewRow(i) \in db.links \cap db.live

\* A list that names no row twice, and none it creates, ends, on every backend,
\* with the rows it creates or updates linked, those it unlinks or deletes not
\* linked, and the latter gone, but for links that another request writes
\* meanwhile; rows that it does not name stay as the other request leaves them.
ListEndsAsAsked ==
    stage = "done" /\ NamedOnce =>
        /\ AllButDeletes
        /\ Asks("delete") \cap (db.links \cup db.live) = {}
        /\ \A r \in Rows : Named(r) = {} =>
              r \in db.live /\ (r \in db.links) = (r \in base.links)

\* However far a list gets, it writes, links, unlinks and deletes no row that
\* the repo hides or that it may not touch (README.md:1777).
ForbiddenRowsStay ==
    \A r \in Rows : (\A ref \in Named(r) : ~ Permitted(ref)) =>
        r \in db.live /\ r \notin db.written /\ (r \in db.links) = (r \in base.links)

\* What cannot be made good comes last. A list that a refused item ends has
\* linked, unlinked and deleted nothing, though an upsert may link its row before
\* the refusal; and on every backend, whichever step fails, a row is gone only
\* where everything else that the list asks for has been done.
LossesComeLast ==
    /\ stage = "failed" /\ pos <= Len(list) => db.links = base.links /\ Rows \subseteq db.live
    /\ NamedOnce /\ ~ Rows \subseteq db.live => AllButDeletes

=============================================================================
