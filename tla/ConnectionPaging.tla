-------------------------- MODULE ConnectionPaging --------------------------
(***************************************************************************)
(* ORMListConnection (relay/connection.py) and the page a windowed read    *)
(* keeps for one parent (batching.py): which rows of a query a connection  *)
(* reads, in how many statements, and what it makes of them, while other   *)
(* clients write to the table between the statements.                      *)
(*                                                                         *)
(* Strawberry's SliceMetadata and ListConnection are external: a window is *)
(* what SliceMetadata computes from the arguments, and Answer is what      *)
(* ListConnection makes of the slice [start:overfetch] of its nodes.       *)
(***************************************************************************)
EXTENDS Integers, SequencesExt

CONSTANTS
  Rows,          \* primary keys
  RankOf,        \* the client's order: rows of one rank tie
  Queries,       \* what resolvers return: [kind, sorted, skip, limit]
  Windows,       \* windows asked for: [start, end, last]
  PageSizes,     \* bound: sizes of the pages a client walks through
  LastPosition,  \* _LAST_POSITION, which is also sys.maxsize
  MaxWrites,     \* bound: writes during one request or walk
  None           \* no last, no limit, no total

Kinds == {"cut", "sliced", "whole"}

ASSUME PagingAssumption ==
  /\ Rows \subseteq Nat /\ IsFiniteSet(Rows) /\ RankOf \in [Rows -> Nat]
  /\ LastPosition \in Nat /\ LastPosition > Cardinality(Rows)
  /\ None \notin Int
  /\ Queries \subseteq [kind : Kinds, sorted : BOOLEAN, skip : {0, 1},
                  limit : Nat \cup {None}]
  /\ Windows \subseteq [start : Int, end : Int, last : Nat \cup {None}]
  /\ PageSizes \subseteq Nat \ {0} /\ MaxWrites \in Nat

VARIABLES
  table,    \* the rows there are
  writes,   \* writes since the request, or the walk, began
  query,    \* the query the resolver returned
  asked,    \* the request: its window, what it selects, how it is read
  stage,    \* the statement it waits for
  listing,  \* every row of the query, as the page's statement found it
  page,     \* the connection without its total
  total,    \* the total the connection carries
  sizes,    \* ghost: how many rows the query had, since the request began
  raced,    \* ghost: a write came since the request began
  walk      \* the pages a client has walked through

reading == <<listing, page, total>>
vars == <<table, writes, query, asked, stage, reading, sizes, raced, walk>>

-----------------------------------------------------------------------------
(* Strawberry.                                                             *)

Least(a, b) == IF a < b THEN a ELSE b
Most(a, b) == IF a < b THEN b ELSE a

\* s[from:to] in Python, where a negative position counts from the end.
PySlice(s, from, to) ==
  LET position(i) == IF i < 0 THEN Most(Len(s) + i, 0) ELSE i
  IN SubSeq(s, position(from) + 1, Least(position(to), Len(s)))

\* A window up to LastPosition has no end: it is `last` without `before`.
Endless(w) == w.end = LastPosition
Overfetch(w) == IF Endless(w) THEN w.end ELSE w.end + 1

NoAnswer == [edges |-> <<>>, hasNext |-> FALSE, hasPrevious |-> FALSE]

\* ListConnection.resolve_connection, given nodes[start:overfetch].
Answer(w, nodes) ==
  LET more == ~Endless(w) /\ Len(nodes) = w.end - w.start + 1
      tail == Endless(w) /\ w.last # None
      from == IF tail /\ w.last > 0 THEN Most(Len(nodes) - w.last, 0) ELSE 0
      kept == IF more THEN SubSeq(nodes, 1, Len(nodes) - 1)
                      ELSE SubSeq(nodes, from + 1, Len(nodes))
  IN [edges |-> [i \in 1..Len(kept) |->
                   [cursor |-> w.start + from + i - 1, row |-> kept[i]]],
      hasNext |-> more,
      hasPrevious |-> IF tail THEN from > 0 ELSE w.start > 0]

\* Every row sliced in Python: what a page must be indistinguishable from.
Sliced(w, rows) == Answer(w, PySlice(rows, w.start, Overfetch(w)))

\* Mutant: the page is a list of its own.
SlicedAlone(w, rows, offset) ==
  Answer([w EXCEPT !.start = w.start - offset, !.end = w.end - offset],
         PySlice(rows, w.start - offset, Overfetch(w) - offset))

\* _PageRows: rows that begin at position `offset` of the whole result.
SlicedAt(w, rows, offset) ==
  Answer(w, PySlice(rows, w.start - offset, Overfetch(w) - offset))

-----------------------------------------------------------------------------
(* The queries a resolver returns, and what the database makes of them.    *)

\* On Tortoise an order that places nulls is no part of the statement: it is
\* remembered beside the query, and left behind when the page is cut.
RankIn(q, r) == IF q.sorted THEN RankOf[r] ELSE 0

\* Rows that tie come in any order, and in another at the next statement,
\* unless the order goes down to the row.
Ordered(q, a, b, toTheRow) ==
  \/ RankIn(q, a) < RankIn(q, b)
  \/ RankIn(q, a) = RankIn(q, b) /\ (toTheRow => a < b)

Listings(q, toTheRow) ==
  {s \in SetToSeqs(table) :
     \A i, j \in 1..Len(s) : i < j => Ordered(q, s[i], s[j], toTheRow)}

\* The rows of q, of a listing of the table.
RowsOf(q, s) ==
  SubSeq(s, q.skip + 1,
         IF q.limit = None THEN Len(s) ELSE Least(q.skip + q.limit, Len(s)))

SizeOf(q, t) ==
  LET n == Most(Cardinality(t) - q.skip, 0)
  IN IF q.limit = None THEN n ELSE Least(n, q.limit)

\* Rows already read, and joins that repeat a row, are not cut.
CanCut(q) == q.kind # "whole"

\* Mutant: the order stays as the client gave it.
OrdersAsAsked(q) == FALSE

\* Django cannot reorder a queryset the resolver has sliced.
OrdersToTheRow(q) == q.kind = "cut"

\* Mutant: a cut forgets the limit the query has.
CutAfresh(q, s, offset, limit) ==
  SubSeq(s, q.skip + offset + 1, Least(q.skip + offset + limit, Len(s)))

\* A cut composes with the limit and the offset the query has.
Cut(q, s, offset, limit) ==
  LET n == IF q.limit = None THEN limit
                             ELSE Most(0, Least(limit, q.limit - offset))
  IN SubSeq(s, q.skip + offset + 1, Least(q.skip + offset + n, Len(s)))

-----------------------------------------------------------------------------
(* A request.                                                              *)

NoWalk == [way |-> "none", size |-> 0, seen |-> <<>>]

\* `how` is "query" for a resolver's query, "batch" for the page that a
\* windowed read keeps for a parent.
Request(w, how, edges, counts) ==
  [window |-> w, how |-> how, edges |-> edges, counts |-> counts]

\* The first n rows from a position, and the last n.
Forward(n, position) == [start |-> position, end |-> position + n, last |-> None]
Backward(n) == [start |-> 0, end |-> LastPosition, last |-> n]
Before(n, position) ==
  [start |-> Most(0, position - n), end |-> position, last |-> n]

Window == asked.window
FromTheEnd(w) == w.start < 0 \/ w.end < 0
Limit(w) == Least(Overfetch(w), LastPosition) - w.start

\* A windowed read sends no position past the last one.
WindowStart(w) == Least(w.start, LastPosition)
WindowLimit(w) == Most(Least(Overfetch(w), LastPosition) - WindowStart(w), 0)

\* No edges are built unless they are selected.
PageOf(r, answer) == IF r.edges THEN answer ELSE NoAnswer

\* The requests that are answered with no page: nothing to show, or a window
\* that holds nothing.
NeedsNoPage(r) ==
  /\ r.how = "query" /\ ~FromTheEnd(r.window)
  /\ r.edges => ~Endless(r.window) /\ Limit(r.window) <= 0

\* The requests that read every row of q.
ReadsWhole(r, q) ==
  LET w == r.window IN
  \/ FromTheEnd(w)
  \/ /\ r.how = "query" /\ r.edges
     /\ IF Endless(w) THEN w.last \in {0, None} ELSE Limit(w) > 0 /\ ~CanCut(q)

FirstStage(r, q) ==
  IF ReadsWhole(r, q) THEN "whole"
  ELSE IF NeedsNoPage(r) THEN (IF r.counts THEN "count" ELSE "answered")
  ELSE IF r.how = "batch" THEN "window"
  ELSE IF Endless(r.window) THEN "locate" ELSE "page"

Begin(r, q) ==
  /\ asked' = r /\ query' = q
  /\ stage' = FirstStage(r, q)
  /\ listing' \in {RowsOf(q, s) : s \in Listings(q, TRUE)}
  /\ page' = IF NeedsNoPage(r)
               THEN PageOf(r, SlicedAt(r.window, <<>>, r.window.start))
               ELSE NoAnswer
  /\ total' = None
  /\ sizes' = {SizeOf(q, table)} /\ raced' = FALSE

Plain == [kind |-> "cut", sorted |-> TRUE, skip |-> 0, limit |-> None]

\* A window is read for many parents only where `first` sizes the page, and
\* the query of a relation has no limit of its own.
CanBatch(w, q) == q = Plain /\ w.end >= w.start /\ ~FromTheEnd(w) /\ w.last = None

Ask ==
  /\ stage = "idle"
  /\ \E q \in Queries, w \in Windows, how \in {"query", "batch"},
        edges, counts \in BOOLEAN :
       /\ how = "batch" => CanBatch(w, q)
       /\ Begin(Request(w, how, edges, counts), q)
  /\ UNCHANGED <<table, writes, walk>>

\* A client begins to walk through the pages of a connection.
StartWalk ==
  /\ stage = "idle"
  /\ \E q \in Queries, n \in PageSizes, way \in {"forward", "backward"},
        how \in {"query", "batch"} :
       LET w == IF way = "forward" THEN Forward(n, 0) ELSE Backward(n) IN
       /\ how = "batch" => way = "forward" /\ CanBatch(w, q)
       /\ walk' = [way |-> way, size |-> n, seen |-> <<>>]
       /\ Begin(Request(w, how, TRUE, FALSE), q)
  /\ UNCHANGED <<table, writes>>

PageRows == [i \in DOMAIN page.edges |-> page.edges[i].row]
Walked == IF walk.way = "backward" THEN PageRows \o walk.seen
                                   ELSE walk.seen \o PageRows

\* Bound: a walk remembers so many rows, more than there can be.
Remembered(rows) == SubSeq(rows, 1, Least(Len(rows), Cardinality(Rows) + 1))

MoreToWalk ==
  /\ page.edges # <<>>
  /\ \/ walk.way = "forward" /\ page.hasNext
     \/ walk.way = "backward" /\ page.hasPrevious

\* It asks for the page after endCursor, or before startCursor.
Continue ==
  /\ stage = "answered" /\ MoreToWalk
  /\ LET w == IF walk.way = "forward"
                THEN Forward(walk.size, Last(page.edges).cursor + 1)
                ELSE Before(walk.size, page.edges[1].cursor)
     IN Begin([asked EXCEPT !.window = w], query)
  /\ walk' = [walk EXCEPT !.seen = Remembered(Walked)]
  /\ UNCHANGED <<table, writes>>

Rest ==
  /\ stage = "answered" /\ ~MoreToWalk
  /\ stage' = "idle" /\ writes' = 0 /\ walk' = NoWalk
  /\ query' = Plain /\ asked' = Request(Forward(1, 0), "query", TRUE, FALSE)
  /\ listing' = <<>> /\ page' = NoAnswer /\ total' = None
  /\ sizes' = {} /\ raced' = FALSE
  /\ UNCHANGED table

-----------------------------------------------------------------------------
(* The statements, each of which sees the table as it is by then.          *)

asking == <<table, writes, query, asked, sizes, raced, walk>>

\* _resolve_rows: every row is read, and the page sliced in Python.
ReadWhole ==
  /\ stage = "whole"
  /\ \E s \in Listings(query, FALSE) : listing' = RowsOf(query, s)
  /\ page' = PageOf(asked, Sliced(Window, listing'))
  /\ total' = IF asked.counts THEN Len(listing') ELSE None
  /\ stage' = "answered"
  /\ UNCHANGED asking

\* Mutant: a page that starts past the end is taken for the end.
AnyShortPage(rows) == Len(rows) < Limit(Window)

\* A short page is the end of the result, unless it started past the end.
ShortPage(rows) ==
  Len(rows) < Limit(Window) /\ (rows # <<>> \/ Window.start = 0)

\* The page, cut by the database.
ReadPage ==
  /\ stage = "page"
  /\ \E s \in Listings(query, OrdersToTheRow(query)) :
       LET rows == Cut(query, s, Window.start, Limit(Window)) IN
       /\ listing' = RowsOf(query, s)
       /\ page' = SlicedAt(Window, rows, Window.start)
       /\ IF asked.counts /\ ~ShortPage(rows)
            THEN stage' = "count" /\ total' = None
            ELSE /\ stage' = "answered"
                 /\ total' = IF asked.counts THEN Window.start + Len(rows)
                                             ELSE None
  /\ UNCHANGED asking

CountTotal ==
  /\ stage = "count"
  /\ total' = SizeOf(query, table)
  /\ stage' = "answered"
  /\ UNCHANGED <<asking, listing, page>>

\* Where the last rows begin, and how many to read.
TailOffset == Most(Window.start, total - Window.last)
\* Mutant: the last rows are every row from where they begin.
TailUnlimited == LastPosition - TailOffset

TailLimit == Least(TailOffset + Window.last, LastPosition) - TailOffset

\* `last` without `before`: the total locates the window ...
Locate ==
  /\ stage = "locate"
  /\ UNCHANGED <<asking, listing, page>>
  /\ total' = SizeOf(query, table)
  /\ stage' = IF TailLimit' > 0 /\ ~CanCut(query) THEN "whole" ELSE "tail"

\* ... and the page found is sliced again as the plain page it now is.
ReadTail ==
  /\ stage = "tail"
  /\ \E s \in Listings(query, OrdersToTheRow(query)) :
       LET rows == IF TailLimit <= 0 THEN <<>>
                   ELSE Cut(query, s, TailOffset, TailLimit)
       IN /\ listing' = RowsOf(query, s)
          /\ page' = [SlicedAt(Forward(Len(rows), TailOffset), rows, TailOffset)
                        EXCEPT !.hasPrevious = TailOffset > Window.start]
  /\ total' = IF asked.counts THEN total ELSE None
  /\ stage' = "answered"
  /\ UNCHANGED asking

\* _fetch_pages: the rows numbered within the parent, from and to a number.
ReadWindow ==
  /\ stage = "window"
  /\ \E s \in Listings(query, TRUE) :
       LET from == WindowStart(Window)
           rows == SubSeq(s, from + 1, Least(from + WindowLimit(Window), Len(s)))
       IN /\ listing' = s
          /\ page' = PageOf(asked, SlicedAt(Window, rows, from))
  /\ stage' = "tally"
  /\ UNCHANGED <<asking, total>>

CountGroups ==
  /\ stage = "tally"
  /\ total' = IF asked.counts THEN SizeOf(query, table) ELSE None
  /\ stage' = "answered"
  /\ UNCHANGED <<asking, listing, page>>

\* Another client adds a row or removes one.
Write ==
  /\ stage # "idle" /\ writes < MaxWrites
  /\ \E r \in Rows : table' = IF r \in table THEN table \ {r} ELSE table \cup {r}
  /\ writes' = writes + 1
  /\ raced' = TRUE /\ sizes' = sizes \cup {SizeOf(query, table')}
  /\ UNCHANGED <<query, asked, stage, reading, walk>>

-----------------------------------------------------------------------------
Init ==
  /\ table \in SUBSET Rows
  /\ stage = "idle" /\ writes = 0 /\ walk = NoWalk
  /\ query = Plain /\ asked = Request(Forward(1, 0), "query", TRUE, FALSE)
  /\ listing = <<>> /\ page = NoAnswer /\ total = None
  /\ sizes = {} /\ raced = FALSE

Serve ==
  \/ ReadWhole \/ ReadPage \/ CountTotal \/ Locate \/ ReadTail
  \/ ReadWindow \/ CountGroups

Next == Ask \/ StartWalk \/ Continue \/ Rest \/ Serve \/ Write

\* Every request that was begun is served, and a client that began to walk
\* through the pages does not stop.
Spec == Init /\ [][Next]_vars /\ WF_vars(Serve) /\ WF_vars(Continue)

-----------------------------------------------------------------------------
(* Properties.                                                             *)

Stages == {"idle", "whole", "page", "count", "locate", "tail", "window",
           "tally", "answered"}

\* Every variable has its type, and the rows of a listing are distinct.
TypeOK ==
  /\ table \subseteq Rows /\ writes \in 0..MaxWrites
  /\ stage \in Stages /\ asked.how \in {"query", "batch"}
  /\ asked.edges \in BOOLEAN /\ asked.counts \in BOOLEAN
  /\ asked.window \in [start : Int, end : Int, last : Nat \cup {None}]
  /\ query \in Queries \cup {Plain}
  /\ listing \in Seq(Rows) /\ IsInjective(listing)
  /\ page.hasNext \in BOOLEAN /\ page.hasPrevious \in BOOLEAN
  /\ \A i \in DOMAIN page.edges : page.edges[i] \in [cursor : Int, row : Rows]
  /\ total \in Nat \cup {None} /\ sizes \subseteq Nat /\ raced \in BOOLEAN
  /\ walk.way \in {"none", "forward", "backward"} /\ walk.seen \in Seq(Rows)

IsTail == Endless(Window) /\ Window.last \notin {0, None}

\* A page that the database cut is what slicing every row in Python gives:
\* the same rows, cursors and flags (README.md:1974).  The last rows are
\* located by an earlier statement, so theirs are if nobody wrote meanwhile.
AnswersLikeSlicing ==
  stage = "answered" /\ (IsTail => ~raced)
    => page = PageOf(asked, Sliced(Window, listing))

\* Whoever writes meanwhile, the row of an edge is at its cursor's position
\* among the rows its statement saw, one after the other, and there are never
\* more than were asked for.
CursorsAreTrue ==
  stage = "answered" /\ ~FromTheEnd(Window) =>
    /\ \A i \in DOMAIN page.edges :
         /\ page.edges[i].cursor + 1 \in DOMAIN listing
         /\ listing[page.edges[i].cursor + 1] = page.edges[i].row
         /\ i > 1 => page.edges[i].cursor = page.edges[i - 1].cursor + 1
    /\ IsTail => Len(page.edges) <= Window.last

\* A total that was selected is a number of rows the query really had while
\* the request was answered, whether it was counted or read off a short page.
TotalIsReal ==
  stage = "answered" =>
    IF asked.counts THEN total \in sizes ELSE total = None

\* A client that walks through the pages of a query that is cut, either way,
\* sees every row once and in order, though rows tie and every page is a
\* statement of its own, if nobody writes meanwhile (README.md:1974).
WalkSeesEveryRow ==
  stage = "answered" /\ walk.way # "none" /\ ~MoreToWalk
    /\ query.kind = "cut" /\ writes = 0
    => \A s \in Listings(query, TRUE) : Walked = RowsOf(query, s)

\* A client that walks on comes to a page with nothing after it.
WalkEnds == stage # "idle" ~> stage = "answered" /\ ~MoreToWalk
=============================================================================
