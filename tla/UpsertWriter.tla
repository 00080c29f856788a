---------------------------- MODULE UpsertWriter ----------------------------
(***************************************************************************)
(* UpsertWriter (upserts.py): a nested payload is validated, and then      *)
(* walked depth first in one transaction, one database call at a time.     *)
(*                                                                         *)
(* The walk is a generator, so its local state is a stack of frames.  The  *)
(* rows are those of one model that refers to itself: "owner" is the       *)
(* foreign key behind its to-many relation, "a" and "b" are single links.  *)
(***************************************************************************)
EXTENDS Naturals, Sequences, FiniteSets

CONSTANTS
  RowIds,      \* bound: primary keys that can be given out
  Keys,        \* values of the column that upserts match on
  None,
  Nodes, Node, \* the operations of the payloads, and what each carries
  Inputs, Input, \* the create and update inputs they carry
  Roots,       \* the upserts a payload may be
  Tables,      \* the tables a write may find
  Orms,        \* the backends that write
  Cascading,   \* the columns whose target takes the row along when deleted
  MaxVisits,   \* maxVisits of the projection
  Sends        \* how often a payload is sent

Links == {"a", "b"}
Columns == Links \cup {"owner"}
Removals == {"unlink", "delete"}

Row ==
  [key : Keys \cup {None}, owner : RowIds \cup {None},
   a : RowIds \cup {None}, b : RowIds \cup {None}]

\* where: the key an upsert matches; skip: onMatchLinks is IGNORE; deletes:
\* onReplace is DELETE; permitted: the projection takes what was sent.
NodeRecord ==
  [op : {"create", "update", "upsert"} \cup Removals, id : RowIds \cup {None},
   where : Keys \cup {None}, create : Inputs \cup {None}, update : Inputs \cup {None},
   onMatch : {"UPDATE", "IGNORE", "APPEND"}, skip : BOOLEAN, deletes : BOOLEAN,
   permitted : BOOLEAN]

InputRecord ==
  [key : Keys \cup {None}, a : Nodes \cup {None}, b : Nodes \cup {None},
   items : Seq(Nodes)]

IsTable(t) == DOMAIN t \subseteq RowIds /\ t \in [DOMAIN t -> Row]

ASSUME PayloadAssumption ==
  /\ None \notin RowIds /\ None \notin Keys /\ None \notin Nodes /\ None \notin Inputs
  /\ Node \in [Nodes -> NodeRecord]
  /\ Input \in [Inputs -> InputRecord]
  /\ Roots \subseteq Nodes
  /\ \A n \in Roots : Node[n].op = "upsert"
  /\ \A n \in Nodes : /\ Node[n].op = "create" => Node[n].create # None
                      /\ Node[n].op = "update" => Node[n].update # None

ASSUME WriterAssumption ==
  /\ Orms \subseteq {"sqlalchemy", "django", "tortoise"}
  /\ \A t \in Tables : IsTable(t)
  /\ IsFiniteSet(RowIds)
  /\ Cascading \subseteq Columns
  /\ MaxVisits \in Nat /\ Sends \in Nat

VARIABLES
  orm,        \* the backend that writes
  committed,  \* the table as other transactions see it
  db,         \* the table as this transaction sees it
  root,       \* the payload
  stack,      \* the frames of the walk, the innermost first
  outcome,    \* how far the write is
  sent,       \* how often the payload was sent
  done,       \* whether it was written by an earlier send
  start       \* history: the table when it was sent last

vars == <<orm, committed, db, root, stack, outcome, sent, done, start>>

-----------------------------------------------------------------------------
(* Validation: the whole payload, before anything is read or written.     *)

ChildrenOf(i) ==
  IF i = None THEN {}
  ELSE ({Input[i].a, Input[i].b} \ {None})
         \cup {Input[i].items[k] : k \in DOMAIN Input[i].items}

\* Nothing deeper is read of a payload: one level more than it may have.
Depths == 1..(MaxVisits + 1)

NestedIn(n) == ChildrenOf(Node[n].create) \cup ChildrenOf(Node[n].update)

\* The operations of the payload r, by how deep they are nested.
Levels(r) ==
  LET Level[d \in Depths] ==
        IF d = 1 THEN {r} ELSE UNION {NestedIn(n) : n \in Level[d - 1]}
  IN  Level

\* _visit, _validate_upsert and _validate_container, for one operation.
Allowed(n, visits) ==
  /\ Node[n].permitted
  /\ Node[n].op \notin Removals => visits <= MaxVisits
  /\ Node[n].op = "upsert" =>
       /\ Node[n].where # None
       /\ Node[n].update # None => Node[n].onMatch = "UPDATE"
       /\ Node[n].create # None =>
            Input[Node[n].create].key \in {None, Node[n].where}

\* Mutant of Valid: a nested operation is looked at when its turn comes.
ValidAtRoot(r) == Allowed(r, 1)

Valid(r) ==
  \A d \in Depths : \A n \in Levels(r)[d] : Allowed(n, d)

-----------------------------------------------------------------------------
(* Frames.                                                                *)

\* as is where the row of a frame is awaited: by the caller, a link or an item;
\* saved, whether it has been inserted, or saved; replaced, the old targets.
Frame(n, parent, as) ==
  [mode |-> "enter", node |-> n, parent |-> parent, as |-> as, row |-> None,
   data |-> [key |-> None, owner |-> None, a |-> None, b |-> None],
   input |-> None, links |-> <<>>, items |-> <<>>, replaced |-> <<>>, saved |-> FALSE]

top == Head(stack)
op == Node[top.node]

Running(mode) == outcome = "running" /\ stack # <<>> /\ top.mode = mode

\* The innermost frame becomes f.
Become(f) == stack' = <<f>> \o Tail(stack)

\* The single links an input sets, in the order of the projection.
LinkOf(i, c) == IF Input[i][c] # None THEN <<c>> ELSE <<>>
LinksOf(i) == LinkOf(i, "a") \o LinkOf(i, "b")

\* All links are set; nothing is left to do.
Linked(f) == f.links = <<>>
Finished(f) == f.saved /\ Linked(f) /\ f.replaced = <<>> /\ f.items = <<>>

Writing == Running("create") \/ Running("update") \/ Running("append")

-----------------------------------------------------------------------------
(* The table.                                                             *)

\* Mutant of Matches: a nested upsert looks at the rows of every parent.
MatchesAnywhere(k, parent) == {r \in DOMAIN db : db[r].key = k}

\* What find() sees: with a parent, only the rows below it.
Matches(k, parent) ==
  {r \in DOMAIN db : db[r].key = k /\ (parent # None => db[r].owner = parent)}

\* Foreign keys are enforced.
RefersToRows(t, row) == \A c \in Columns : row[c] \in DOMAIN t \cup {None}

ASSUME TablesAssumption == \A t \in Tables : \A r \in DOMAIN t : RefersToRows(t, t[r])

\* The rows of s, and those that refer to them by these columns.
Reaching(t, columns, s) ==
  LET After[n \in 0..Cardinality(DOMAIN t)] ==
        IF n = 0 THEN s
        ELSE LET before == After[n - 1]
             IN  before \cup {x \in DOMAIN t : \E c \in columns : t[x][c] \in before}
  IN  After[Cardinality(DOMAIN t)]

\* The rows that go when r is deleted.
Takes(t, r) == Reaching(t, Cascading, {r})

Deleted(t, r) ==
  [x \in DOMAIN t \ Takes(t, r) |->
     [t[x] EXCEPT !.owner = IF @ \in Takes(t, r) THEN None ELSE @,
                  !.a = IF @ \in Takes(t, r) THEN None ELSE @,
                  !.b = IF @ \in Takes(t, r) THEN None ELSE @]]

With(t, r, row) == [x \in DOMAIN t \cup {r} |-> IF x = r THEN row ELSE t[x]]

NewId == CHOOSE r \in RowIds : r \notin DOMAIN db

\* SQLAlchemy flushes what was set before each query, and only that; the other
\* backends write the row they hold in memory when it is saved, every column.
SetNow(r, c, v) ==
  IF orm = "sqlalchemy" /\ r \in DOMAIN db THEN [db EXCEPT ![r][c] = v] ELSE db

\* The row of a frame as the program holds it.  SQLAlchemy has one object per row.
Held(f) == IF orm = "sqlalchemy" /\ f.row \in DOMAIN db THEN db[f.row] ELSE f.data

walkVars == <<orm, root, sent, done, start>>

-----------------------------------------------------------------------------
(* The write begins and ends.                                             *)

Init ==
  /\ orm \in Orms
  /\ committed \in Tables
  /\ db = committed
  /\ root \in Roots
  /\ stack = <<>>
  /\ outcome = "new"
  /\ sent = 0
  /\ done = FALSE
  /\ start = committed

\* apply_upsert; a client that has seen no answer sends its payload again.
Send ==
  /\ outcome # "running" /\ sent < Sends
  /\ sent' = sent + 1
  /\ done' = (done \/ outcome = "ok")
  /\ start' = committed
  /\ IF Valid(root)
       THEN outcome' = "running" /\ stack' = <<Frame(root, None, "root")>>
       ELSE outcome' = "rejected" /\ stack' = <<>>
  /\ UNCHANGED <<orm, committed, db, root>>

\* The outermost frame returns: the transaction commits.
Commit ==
  /\ Writing /\ Finished(top) /\ top.as = "root"
  /\ outcome' = "ok"
  /\ committed' = db
  /\ stack' = <<>>
  /\ UNCHANGED <<db, walkVars>>

\* Mutant of Fail: what was written before the error stays.
FailKeepsWrites ==
  /\ outcome = "running"
  /\ outcome' = "failed"
  /\ committed' = db
  /\ stack' = <<>>
  /\ UNCHANGED <<db, walkVars>>

\* A hook denies or raises, a statement fails, a row is missing, several rows
\* match: the error leaves the walk, and the transaction rolls back.
Fail ==
  /\ outcome = "running"
  /\ outcome' = "failed"
  /\ db' = committed
  /\ stack' = <<>>
  /\ UNCHANGED <<committed, walkVars>>

-----------------------------------------------------------------------------
(* The walk.                                                              *)

\* Mutant of Seeded: what was looked for is not what is created.
Unseeded(i, where) == Input[i].key

\* The scalars of create, and what was looked for.
Seeded(i, where) == IF Input[i].key # None THEN Input[i].key ELSE where

CreateFrame(i, where) ==
  [top EXCEPT !.mode = "create", !.input = i, !.links = LinksOf(i),
     !.items = Input[i].items, !.data.key = Seeded(i, where)]

NewKey(i, r) == IF Input[i].key # None THEN Input[i].key ELSE db[r].key

\* The row is loaded, and its scalars are set.
UpdateFrame(i, r) ==
  [top EXCEPT !.mode = "update", !.input = i, !.row = r, !.links = LinksOf(i),
     !.items = Input[i].items, !.data = [db[r] EXCEPT !.key = NewKey(i, r)]]

\* A matched row that is left alone, and its nested rows.
AppendFrame(r, items) ==
  [top EXCEPT !.mode = "append", !.row = r, !.data = db[r], !.items = items,
     !.saved = TRUE]

\* The create operation of _apply_item and _link_target.
EnterCreate ==
  /\ Running("enter") /\ op.op = "create"
  /\ Become(CreateFrame(op.create, None))
  /\ UNCHANGED <<committed, db, outcome, walkVars>>

\* _update_by_id.
EnterUpdate ==
  /\ Running("enter") /\ op.op = "update"
  /\ op.id \in DOMAIN db
  /\ Become(UpdateFrame(op.update, op.id))
  /\ db' = SetNow(op.id, "key", NewKey(op.update, op.id))
  /\ UNCHANGED <<committed, outcome, walkVars>>

\* _upsert matches nothing.
UpsertMisses ==
  /\ Running("enter") /\ op.op = "upsert"
  /\ Matches(op.where, top.parent) = {}
  /\ op.create # None
  /\ Become(CreateFrame(op.create, op.where))
  /\ UNCHANGED <<committed, db, outcome, walkVars>>

\* _upsert matches one row.
Matched(r) ==
  Running("enter") /\ op.op = "upsert" /\ Matches(op.where, top.parent) = {r}

UpsertUpdates(r) ==
  /\ Matched(r)
  /\ op.onMatch = "UPDATE" /\ op.update # None
  /\ Become(UpdateFrame(op.update, r))
  /\ db' = SetNow(r, "key", NewKey(op.update, r))
  /\ UNCHANGED <<committed, outcome, walkVars>>

\* _append: links of a matched row are an error, or skipped.
UpsertAppends(r) ==
  /\ Matched(r)
  /\ op.onMatch = "APPEND" /\ op.create # None
  /\ op.skip \/ LinksOf(op.create) = <<>>
  /\ Become(AppendFrame(r, Input[op.create].items))
  /\ UNCHANGED <<committed, db, outcome, walkVars>>

UpsertStays(r) ==
  /\ Matched(r)
  /\ \/ op.onMatch = "IGNORE"
     \/ op.onMatch = "APPEND" /\ op.create = None
     \/ op.onMatch = "UPDATE" /\ op.update = None
  /\ Become(AppendFrame(r, <<>>))
  /\ UNCHANGED <<committed, db, outcome, walkVars>>

\* The next single link: its target is resolved first.
BeginLink ==
  /\ Writing /\ ~Linked(top)
  /\ LET c == Head(top.links)
     IN  stack' = <<Frame(Input[top.input][c], None, c),
                    [top EXCEPT !.links = Tail(@)]>> \o Tail(stack)
  /\ UNCHANGED <<committed, db, outcome, walkVars>>

\* _create: the row is inserted, below its parent.
Insert ==
  /\ Running("create") /\ Linked(top) /\ ~top.saved
  /\ RowIds \ DOMAIN db # {}
  /\ LET row == [top.data EXCEPT !.owner = top.parent]
     IN  /\ RefersToRows(db, row)
         /\ db' = With(db, NewId, row)
         /\ Become([top EXCEPT !.row = NewId, !.data = row, !.saved = TRUE])
  /\ UNCHANGED <<committed, outcome, walkVars>>

\* What save() writes.  For a row that has gone, Django inserts it again, and
\* Tortoise updates nothing.
Saved ==
  IF orm = "sqlalchemy" \/ (orm = "tortoise" /\ top.row \notin DOMAIN db)
    THEN db ELSE With(db, top.row, top.data)

Save ==
  /\ Running("update") /\ Linked(top) /\ ~top.saved
  /\ orm = "sqlalchemy" => top.row \in DOMAIN db
  /\ RefersToRows(Saved, Held(top))
  /\ db' = Saved
  /\ Become([top EXCEPT !.saved = TRUE])
  /\ UNCHANGED <<committed, outcome, walkVars>>

\* Mutant of Replaceable: the old targets go before the row is saved.
ReplaceableEarly(f) == f.mode = "update" /\ Linked(f) /\ f.replaced # <<>>

\* The old targets of links whose onReplace is DELETE go after the row is saved.
Replaceable(f) == f.mode = "update" /\ f.saved /\ f.replaced # <<>>

DeleteReplaced ==
  /\ outcome = "running" /\ stack # <<>> /\ Replaceable(top)
  /\ LET r == Head(top.replaced)
     IN  /\ orm = "sqlalchemy" => r \in DOMAIN db
         /\ db' = IF r \in DOMAIN db THEN Deleted(db, r) ELSE db
  /\ Become([top EXCEPT !.replaced = Tail(@)])
  /\ UNCHANGED <<committed, outcome, walkVars>>

\* Mutant of BeginItem: the item stays the next one.
BeginItemAgain ==
  /\ Writing /\ top.saved /\ Linked(top) /\ top.replaced = <<>> /\ top.items # <<>>
  /\ stack' = <<Frame(Head(top.items), top.row, "item")>> \o stack
  /\ UNCHANGED <<committed, db, outcome, walkVars>>

\* _apply_to_many: the next item of the row's list.
BeginItem ==
  /\ Writing /\ top.saved /\ Linked(top) /\ top.replaced = <<>> /\ top.items # <<>>
  /\ stack' = <<Frame(Head(top.items), top.row, "item"),
                [top EXCEPT !.items = Tail(@)]>> \o Tail(stack)
  /\ UNCHANGED <<committed, db, outcome, walkVars>>

\* get() and is_member() of _remove_member.
Member(r, parent) == r \in DOMAIN db /\ db[r].owner = parent

FindMember ==
  /\ Running("enter") /\ op.op \in Removals
  /\ Member(op.id, top.parent)
  /\ Become([top EXCEPT !.mode = "remove", !.row = op.id, !.data = db[op.id]])
  /\ UNCHANGED <<committed, db, outcome, walkVars>>

RemoveMember ==
  /\ Running("remove") /\ top.row \in DOMAIN db
  /\ db' = IF op.op = "unlink" THEN [db EXCEPT ![top.row].owner = None]
                              ELSE Deleted(db, top.row)
  /\ stack' = Tail(stack)
  /\ UNCHANGED <<committed, outcome, walkVars>>

\* A link's target returns to the frame that sets it.
ReturnLink ==
  /\ Writing /\ Finished(top) /\ top.as \in Links
  /\ LET caller == stack[2]
         previous == Held(caller)[top.as]
         goes == caller.mode = "update" /\ op.deletes /\ previous \notin {None, top.row}
     IN  /\ previous \in DOMAIN db \cup {None}
         /\ stack' = <<[caller EXCEPT
                          !.data[top.as] = top.row,
                          !.replaced = IF goes THEN Append(@, previous) ELSE @]>>
                       \o Tail(Tail(stack))
         /\ db' = IF caller.mode = "update" THEN SetNow(caller.row, top.as, top.row)
                                            ELSE db
  /\ UNCHANGED <<committed, outcome, walkVars>>

\* An item's row returns, and is linked to its parent unless it is there.
ReturnItem ==
  /\ Writing /\ Finished(top) /\ top.as = "item"
  /\ IF Held(top).owner = top.parent
       THEN UNCHANGED db
       ELSE /\ {top.row, top.parent} \subseteq DOMAIN db
            /\ db' = [db EXCEPT ![top.row] =
                        [(IF orm = "tortoise" THEN top.data ELSE @)
                           EXCEPT !.owner = top.parent]]
  /\ stack' = Tail(stack)
  /\ UNCHANGED <<committed, outcome, walkVars>>

Step ==
  \/ EnterCreate \/ EnterUpdate \/ UpsertMisses
  \/ \E r \in RowIds : UpsertUpdates(r) \/ UpsertAppends(r) \/ UpsertStays(r)
  \/ BeginLink \/ Insert \/ Save \/ DeleteReplaced \/ BeginItem
  \/ FindMember \/ RemoveMember \/ ReturnLink \/ ReturnItem
  \/ Commit \/ Fail

Next ==
  \/ Send
  \/ Step

Spec == Init /\ [][Next]_vars

\* A write that has begun goes on: the database answers, or fails it.
FairSpec == Spec /\ WF_vars(Step)

-----------------------------------------------------------------------------
(* Properties.                                                            *)

FrameType ==
  [mode : {"enter", "create", "update", "append", "remove"}, node : Nodes,
   parent : RowIds \cup {None}, as : Links \cup {"root", "item"},
   row : RowIds \cup {None}, data : Row, input : Inputs \cup {None},
   links : Seq(Links), items : Seq(Nodes), replaced : Seq(RowIds), saved : BOOLEAN]

TypeOK ==
  /\ orm \in Orms
  /\ IsTable(committed) /\ IsTable(db) /\ IsTable(start)
  /\ root \in Roots
  /\ stack \in Seq(FrameType)
  /\ outcome \in {"new", "running", "ok", "failed", "rejected"}
  /\ sent \in 0..Sends /\ done \in BOOLEAN

Payload == UNION {Levels(root)[d] : d \in Depths}

\* "The whole payload is validated before the first write" (README.md:1883): what
\* the walk applies, however deep, is what the projection takes at that depth.
EveryFrameWasValidated ==
  \A k \in DOMAIN stack : Allowed(stack[k].node, Len(stack) - k + 1)

\* No projection of the payload lets a row that is there be changed.
Immutable ==
  \A n \in Payload :
    \/ Node[n].op = "create"
    \/ Node[n].op = "upsert" /\ Node[n].onMatch # "UPDATE"

\* "Re-sending a person who already exists only adds their new events"
\* (README.md:1855): what the first write created, the second one matches.
ResendAddsNothing ==
  done /\ Immutable /\ (\A n \in Payload : Node[n].op = "upsert")
    => DOMAIN db = DOMAIN start

\* No operation of the payload names a row without its parent.
Nested ==
  \A n \in Payload :
    /\ Node[n].op # "update"
    /\ \A i \in {Node[n].create, Node[n].update} \ {None} : LinksOf(i) = <<>>

\* The rows outside of the tree below the row that the root of a payload matches.
Elsewhere ==
  LET matched == {r \in DOMAIN start : start[r].key = Node[root].where}
  IN  DOMAIN start \ Reaching(start, Columns, matched)

\* A nested item is looked for below its parent: a payload changes, re-parents
\* and removes no row outside of the tree below the row its root matches.
RowsElsewhereAreUntouched ==
  Nested => \A r \in Elsewhere : r \in DOMAIN db /\ db[r] = start[r]

\* "Saved before the old targets go, so a cascade cannot take this row too"
\* (upserts.py:480): a row that was saved is there until its frame returns.
UpdatedRowsSurvive ==
  \A k \in DOMAIN stack :
    stack[k].mode = "update" /\ stack[k].saved => stack[k].row \in DOMAIN db

\* A write takes effect as a whole when it commits, or not at all.
Atomic == INSTANCE AtomicWrite WITH table <- committed

AllOrNothing == Atomic!Spec

\* Every write ends.
WriteEnds == outcome = "running" ~> outcome # "running"
=============================================================================
