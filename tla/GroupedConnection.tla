------------------------ MODULE GroupedConnection -------------------------
(***************************************************************************)
(* Connections of one model that are asked for groups, items of groups and *)
(* aggregates. The field's extension leaves the filtered query on the      *)
(* context of the operation; once the page is read the connection takes it *)
(* from there, has the backend group it, reads the items of every group    *)
(* with one windowed statement, and attaches both by the columns of the    *)
(* grouping, which the backend leaves on the model's one AggregateMeta.    *)
(***************************************************************************)
EXTENDS Naturals, Sequences, FiniteSets, Functions, Sorting

CONSTANTS
    Rows,        \* primary keys
    Columns,     \* columns one can group by
    Table,       \* [row -> [column -> value, n -> number]]
    Allowed,     \* rows the type's scope_rows lets through
    Fields,
    OperationOf, \* [field -> operation]
    Async,       \* operations whose fields run concurrently
    Backends,
    Requests,    \* [wanted, sorted, connection, page, by, groups, items, order]
    Null, None

ASSUME TableAssumption ==
    /\ Rows \subseteq Nat /\ IsFiniteSet(Rows) /\ Allowed \subseteq Rows
    /\ DOMAIN Table = Rows /\ Null \notin Nat
    /\ \A r \in Rows, col \in Columns \cup {"n"} : Table[r][col] \in Nat \cup {Null}
ASSUME BackendAssumption == Backends \subseteq {"sqlalchemy", "django", "tortoise"}
ASSUME RequestAssumption ==
    \A q \in Requests :
        /\ q.wanted \subseteq Rows /\ q.page \in Nat
        /\ {q.sorted, q.connection, q.groups} \subseteq BOOLEAN
        /\ q.by # None => q.by \in Seq([col : Columns,
                                       interval : {None, "DAY", "QUARTER", "YEAR"}])
        /\ q.items # None => q.items \in [start : Nat, limit : Nat]
        /\ q.order \in Seq([col : Columns \cup {"n"}, desc : BOOLEAN])

VARIABLES
    backend, request,
    ctx,        \* what is stashed on the context of each operation
    keyFields,  \* AggregateMeta.group_key_fields of the model
    fld,        \* each field: where it is and what it has
    disturbed   \* ghost: fields whose context or columns another one replaced
vars == <<backend, request, ctx, keyFields, fld, disturbed>>

-----------------------------------------------------------------------------
(* Aggregates. *)

Present(rows) == {r \in rows : Table[r].n # Null}
Numbers(rows) == {Table[r].n : r \in Present(rows)}
Total(rows) == IF Present(rows) = {} THEN Null
               ELSE SumFunction([r \in Present(rows) |-> Table[r].n])
Lowest(rows) == IF Numbers(rows) = {} THEN Null
                ELSE CHOOSE n \in Numbers(rows) : \A k \in Numbers(rows) : n <= k

\* SQL's COUNT(*), SUM and MIN; avg and max are computed beside them alike.
BuildAggregates(rows) ==
    [count |-> Cardinality(rows), sum |-> Total(rows), min |-> Lowest(rows)]

\* The numbers of the nodes that have one.
PageNumbers(edges) ==
    [i \in {i \in DOMAIN edges : Table[edges[i]].n # Null} |-> Table[edges[i]].n]

\* Mutant of PageAggregates: nodes without a number are not counted.
PageAggregatesOfNumbers(edges) ==
    LET vals == PageNumbers(edges)
    IN  [count |-> Cardinality(DOMAIN vals),
         sum |-> IF DOMAIN vals = {} THEN Null ELSE SumFunction(vals),
         min |-> IF DOMAIN vals = {} THEN Null
                 ELSE CHOOSE v \in Range(vals) : \A w \in Range(vals) : v <= w]

\* _compute_page_aggregates: the same over the nodes of the page, in Python.
PageAggregates(edges) ==
    LET vals == PageNumbers(edges)
    IN  [count |-> Len(edges),
         sum |-> IF DOMAIN vals = {} THEN Null ELSE SumFunction(vals),
         min |-> IF DOMAIN vals = {} THEN Null
                 ELSE CHOOSE v \in Range(vals) : \A w \in Range(vals) : v <= w]

-----------------------------------------------------------------------------
(* Group keys. A column counts once, its first entry decides; the key of a *)
(* row is text, of the value or of the date that SQLite's strftime makes.  *)

Raw(r, col) == IF Table[r][col] = Null THEN Null ELSE <<"raw", Table[r][col]>>
FirstEntries(by) ==
    LET first == {i \in DOMAIN by : \A j \in 1 .. i - 1 : by[j].col # by[i].col}
        at == Arranged(first, {p \in first \X first : p[1] < p[2]})
    IN  [k \in DOMAIN at |-> by[at[k]]]
Cols(entries) == [i \in DOMAIN entries |-> entries[i].col]

\* A date is year * 100 + day; "%Y-Q" prints the letter and no quarter.
SaGroupColumns(r, entries) == [i \in DOMAIN entries |->
    LET e == entries[i]
    IN  IF Table[r][e.col] = Null \/ e.interval \in {None, "DAY"} THEN Raw(r, e.col)
        ELSE <<e.interval, Table[r][e.col] \div 100>>]
DjGroupColumns(r, entries) == [i \in DOMAIN entries |-> Raw(r, entries[i].col)]
TtGroupColumns(r, entries) == [i \in DOMAIN entries |-> Raw(r, entries[i].col)]

BuildGroupKey(values, entries) ==
    [col \in Columns |->
        IF \E i \in DOMAIN entries : entries[i].col = col
        THEN values[CHOOSE i \in DOMAIN entries : entries[i].col = col]
        ELSE Null]

\* values: each row's, of the entries; split tells rows of one key apart that
\* the statement groups apart.
GroupsBy(values, split, entries) ==
    LET rows == DOMAIN values
        Key(r) == [key |-> BuildGroupKey(values[r], entries), split |-> split[r]]
    IN  IF entries = <<>> THEN {}
        ELSE {[key |-> k.key, split |-> k.split,
               aggregates |-> BuildAggregates({r \in rows : Key(r) = k}),
               edgeIndices |-> {}, items |-> None] : k \in {Key(r) : r \in rows}}

\* The columns a Django queryset is ordered by join its GROUP BY. SQLAlchemy
\* groups a subquery, and Tortoise's order_by() drops the order first.
AsOne(base) == [r \in base.rows |-> None]
ByOrder(base) == [r \in base.rows |-> Raw(r, "n")]
SaApplyGrouping(base) ==
    LET by == FirstEntries(base.by)
    IN  GroupsBy([r \in base.rows |-> SaGroupColumns(r, by)], AsOne(base), by)
DjApplyGrouping(base) ==
    LET by == FirstEntries(base.by)
    IN  GroupsBy([r \in base.rows |-> DjGroupColumns(r, by)],
                 IF base.sorted THEN ByOrder(base) ELSE AsOne(base), by)
TtApplyGrouping(base) ==
    LET by == FirstEntries(base.by)
    IN  GroupsBy([r \in base.rows |-> TtGroupColumns(r, by)], AsOne(base), by)
ApplyGrouping(base) ==
    CASE backend = "sqlalchemy" -> SaApplyGrouping(base)
      [] backend = "django" -> DjApplyGrouping(base)
      [] backend = "tortoise" -> TtApplyGrouping(base)

-----------------------------------------------------------------------------
(* The items of the groups: rows are numbered within the values of the     *)
(* key columns, in the order asked for and then by primary key.            *)

Worth(r, col) == IF Table[r][col] = Null THEN 0 ELSE Table[r][col]
Precedes(order, r, s) ==
    LET Same(j) == Worth(r, order[j].col) = Worth(s, order[j].col)
    IN  \/ \E i \in DOMAIN order :
              /\ \A j \in 1 .. i - 1 : Same(j)
              /\ ~ Same(i)
              /\ order[i].desc = (Worth(r, order[i].col) > Worth(s, order[i].col))
        \/ (\A i \in DOMAIN order : Same(i)) /\ r < s

Ordered(order) == {p \in Rows \X Rows : Precedes(order, p[1], p[2])}

\* Mutant of InWindow: rows are numbered from 0.
InWindowFromZero(number, w) == number >= w.start /\ number < w.start + w.limit
InWindow(number, w) == number > w.start /\ number <= w.start + w.limit

KeyTuple(r, cols) == [i \in DOMAIN cols |-> Raw(r, cols[i])]
Window(rows, cols, order, w) ==
    LET Part(r) == {s \in rows : KeyTuple(s, cols) = KeyTuple(r, cols)}
        Number(r) == Cardinality({s \in Part(r) : s = r \/ Precedes(order, s, r)})
        read == {r \in rows : InWindow(Number(r), w)}
        Of(k) == {r \in read : KeyTuple(r, cols) = k}
    IN  [k \in {KeyTuple(r, cols) : r \in read} |->
            Arranged(Of(k), {p \in rows \X rows : Number(p[1]) < Number(p[2])})]

\* One statement each; Tortoise wraps the SQL of the query by hand.
SaGroupItems(rows, cols, order, w) == Window(rows, cols, order, w)
DjGroupItems(rows, cols, order, w) == Window(rows, cols, order, w)
TtGroupItems(rows, cols, order, w) == Window(rows, cols, order, w)
BatchGroupItems(rows, cols, order, w) ==
    CASE backend = "sqlalchemy" -> SaGroupItems(rows, cols, order, w)
      [] backend = "django" -> DjGroupItems(rows, cols, order, w)
      [] backend = "tortoise" -> TtGroupItems(rows, cols, order, w)

-----------------------------------------------------------------------------
\* _assign_edge_indices: a key without a value matches whatever the node has.
NodeMatches(r, key, cols) ==
    \A i \in DOMAIN cols : key[cols[i]] # Null => Raw(r, cols[i]) = key[cols[i]]
EdgeIndices(key, edges, cols) == {i \in DOMAIN edges : NodeMatches(edges[i], key, cols)}

\* _attach_groups, with the columns the model's meta has by then; items are
\* attached when they were asked for.
AttachGroups(groups, edges, asked, byKey, cols) ==
    LET ItemsOf(key) ==
            LET t == [i \in DOMAIN cols |-> key[cols[i]]]
            IN  IF asked = None THEN None ELSE IF t \in DOMAIN byKey THEN byKey[t] ELSE <<>>
    IN  {[key |-> g.key, split |-> g.split, aggregates |-> g.aggregates,
          edgeIndices |-> EdgeIndices(g.key, edges, cols), items |-> ItemsOf(g.key)]
         : g \in groups}

-----------------------------------------------------------------------------
(* The fields. *)

NoStash == [rows |-> {}, by |-> None, sorted |-> FALSE]
Waiting == [stage |-> "waiting", edges |-> <<>>, base |-> NoStash, cols |-> <<>>,
            groups |-> {}, aggregates |-> None, page |-> None]

Init ==
    /\ backend \in Backends
    /\ request \in [Fields -> Requests]
    /\ ctx = [o \in {OperationOf[f] : f \in Fields} |-> NoStash]
    /\ keyFields = <<>>
    /\ fld = [f \in Fields |-> Waiting]
    /\ disturbed = {}

Ended(f) == fld[f].stage \in {"waiting", "done"}
Siblings(f) == {g \in Fields \ {f} : OperationOf[g] = OperationOf[f]}

\* The resolver's query, filtered; what the connection computes from it later
\* is scoped here. Fields of an operation that is not asynchronous take turns.
StashContext(f) ==
    LET o == OperationOf[f]
        stash == [rows |-> request[f].wanted \cap Allowed, by |-> request[f].by,
                  sorted |-> request[f].sorted]
    IN  /\ fld[f].stage = "waiting"
        /\ o \notin Async => \A g \in Siblings(f) : Ended(g)
        /\ ctx' = [ctx EXCEPT ![o] = stash]
        /\ fld' = [fld EXCEPT ![f].stage = "paging"]
        /\ disturbed' = disturbed \cup
              {g \in Siblings(f) : fld[g].stage = "paging" /\ ctx[o] # stash}
        /\ UNCHANGED <<backend, request, keyFields>>

\* The page has been read: what _post_process_connection finds on the context
\* is aggregated, and grouped when there is a grouping.
PostProcess(f) ==
    LET q == request[f]
        base == ctx[OperationOf[f]]
        order == IF q.sorted THEN <<[col |-> "n", desc |-> FALSE]>> ELSE <<>>
        rows == Arranged(q.wanted \cap Allowed, Ordered(order))
        edges == SubSeq(rows, 1, IF q.page < Len(rows) THEN q.page ELSE Len(rows))
        read == [fld[f] EXCEPT !.edges = edges, !.base = base,
                               !.aggregates = BuildAggregates(base.rows),
                               !.page = PageAggregates(edges)]
        cols == Cols(FirstEntries(base.by))
    IN  /\ fld[f].stage = "paging"
        /\ IF ~ q.connection
           THEN /\ fld' = [fld EXCEPT ![f].stage = "done", ![f].edges = rows]
                /\ UNCHANGED <<keyFields, disturbed>>
           ELSE IF ~ q.groups \/ base.by = None
           THEN /\ fld' = [fld EXCEPT ![f] = [read EXCEPT !.stage = "done"]]
                /\ UNCHANGED <<keyFields, disturbed>>
           ELSE /\ fld' = [fld EXCEPT ![f] = [read EXCEPT !.stage = "grouping"]]
                /\ keyFields' = cols
                /\ disturbed' = disturbed \cup
                      {g \in Fields \ {f} : /\ fld[g].stage \in {"grouping", "items"}
                                            /\ keyFields # cols}
        /\ UNCHANGED <<backend, request, ctx>>

\* The groups have been read; their items are read by the columns known now.
ReadGroups(f) ==
    LET w == fld[f]
        groups == ApplyGrouping(w.base)
    IN  /\ w.stage = "grouping"
        /\ IF request[f].items = None
           THEN fld' = [fld EXCEPT ![f].stage = "done",
                            ![f].groups = AttachGroups(groups, w.edges, None, <<>>, keyFields)]
           ELSE fld' = [fld EXCEPT ![f].stage = "items", ![f].groups = groups,
                                   ![f].cols = keyFields]
        /\ UNCHANGED <<backend, request, ctx, keyFields, disturbed>>

ReadItems(f) ==
    LET w == fld[f]
        byKey == BatchGroupItems(w.base.rows, w.cols, request[f].order, request[f].items)
    IN  /\ w.stage = "items"
        /\ fld' = [fld EXCEPT ![f].stage = "done",
                       ![f].groups = AttachGroups(w.groups, w.edges, request[f].items, byKey, keyFields)]
        /\ UNCHANGED <<backend, request, ctx, keyFields, disturbed>>

Next == \E f \in Fields :
    StashContext(f) \/ PostProcess(f) \/ ReadGroups(f) \/ ReadItems(f)
Spec == Init /\ [][Next]_vars

-----------------------------------------------------------------------------
(* Properties. *)

Own(f) == request[f].wanted \cap Allowed
Truncates(f) == backend = "sqlalchemy" /\ \E i \in DOMAIN request[f].by :
                    request[f].by[i].interval \notin {None, "DAY"}
Grouped(f) == fld[f].stage = "done" /\ request[f].connection /\ request[f].groups
              /\ request[f].by \notin {None, <<>>}

OrZero(n) == IF n = Null THEN 0 ELSE n

\* Groups count every row of the field's query once, and their sums add up to
\* the sum of the connection.
CountsEveryRow(f) ==
    /\ SumFunction([g \in fld[f].groups |-> g.aggregates.count]) = Cardinality(Own(f))
    /\ SumFunction([g \in fld[f].groups |-> OrZero(g.aggregates.sum)]) = OrZero(Total(Own(f)))

RowsOf(f, g) ==
    LET cols == Cols(FirstEntries(request[f].by))
    IN  {r \in Own(f) : \A i \in DOMAIN cols : Raw(r, cols[i]) = g.key[cols[i]]}

\* A group's items are rows it counts, in the order asked for, as many as the
\* window has room for, and its edge indices name the nodes that are its rows.
HoldsItsRows(f, g) ==
    LET cols == Cols(FirstEntries(request[f].by))
        mine == RowsOf(f, g)
        w == request[f].items
    IN  /\ request[f].items # None =>
            /\ Range(g.items) \subseteq mine
            /\ \A i \in 1 .. Len(g.items) - 1 :
                  Precedes(request[f].order, g.items[i], g.items[i + 1])
            /\ \A r \in mine \ Range(g.items) :
                  Cardinality({s \in mine : Precedes(request[f].order, s, r)})
                     \notin w.start .. w.start + w.limit - 1
        /\ (\A i \in DOMAIN cols : g.key[cols[i]] # Null) =>
              g.edgeIndices = {i \in DOMAIN fld[f].edges : fld[f].edges[i] \in mine}

GroupsArePartition(f) ==
    CountsEveryRow(f) /\ (~ Truncates(f) => \A g \in fld[f].groups : HoldsItsRows(f, g))

\* A field whose context and columns nobody replaced while it was reading
\* answers its own groups, each once and with the aggregates of its rows, whatever
\* other requests group at the same time. (A Django queryset that its resolver
\* ordered splits them, and SQLAlchemy's truncated dates are keys of no row.)
UndisturbedGroupsAreExact ==
    \A f \in Fields : Grouped(f) /\ f \notin disturbed =>
        /\ GroupsArePartition(f)
        /\ ~ (backend = "django" /\ request[f].sorted) =>
              /\ \A g, h \in fld[f].groups : g.key = h.key => g = h
              /\ ~ Truncates(f) =>
                    \A g \in fld[f].groups : g.aggregates = BuildAggregates(RowsOf(f, g))

\* The aggregates of a page that holds all its rows are those of the query, and
\* those of the query are over rows one may see.
AggregatesAgree ==
    \A f \in Fields : fld[f].stage = "done" /\ request[f].connection /\ f \notin disturbed =>
        /\ fld[f].aggregates = BuildAggregates(Own(f))
        /\ Range(fld[f].edges) = Own(f) => fld[f].page = fld[f].aggregates

\* A field answers the groups of its own query (README.md:1517-1521).
GroupsAreTheFieldsOwn == \A f \in Fields : Grouped(f) => GroupsArePartition(f)
=============================================================================
