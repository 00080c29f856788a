------------------------------ MODULE Ordering ------------------------------
(***************************************************************************)
(* The order a client asks for and the order the three backends answer in. *)
(* An order is a sequence of terms; a term is a column of the row or of    *)
(* the row it belongs to, ascending or descending, and may say where NULLs *)
(* go. SQLAlchemy and Django write all of it into the statement. Tortoise  *)
(* cannot write where NULLs go: it leaves such terms out of the statement, *)
(* remembers the whole order beside the query, in a memory all queries of  *)
(* the process share, and sorts again in Python: when a list is            *)
(* materialized, but not when the optimizer has fetched it.                *)
(***************************************************************************)
EXTENDS Naturals, Sequences, FiniteSets, SequencesExt, Sorting

CONSTANTS
    NoValue,         \* a NULL
    OrderTables,     \* [row -> its columns, and under "up" the columns of the
                     \*         row it belongs to, or NoValue]
    Terms,           \* records [up, col, desc, nulls]
    Orders,          \* sequences of terms
    OtherQueries,    \* other queries that are ordered meanwhile
    OtherOrder,      \* the order they are given
    MaxRemembered    \* _MAX_REMEMBERED_ORDERINGS

VARIABLES question,  \* who is asked for which order of which table
          phase,     \* how far the query has come
          memory,    \* _QUERY_ORDERINGS, the oldest first
          since,     \* other queries ordered until this one's order is read
          taken,     \* the order that was read from memory
          answer,    \* the rows, in their order
          pass       \* terms of taken the rows are still to be sorted by
orderVars == <<question, phase, memory, since, taken, answer, pass>>

Column(tb, r, t) ==
    IF ~ t.up THEN tb[r][t.col]
    ELSE IF tb[r].up = NoValue THEN NoValue ELSE tb[r].up[t.col]
\* getattr(item, "relation__column") is no attribute of the row.
PythonColumn(tb, r, t) == IF t.up THEN NoValue ELSE tb[r][t.col]

ASSUME OrderAssumption ==
    /\ MaxRemembered \in Nat
    /\ \A t \in Terms : t.up \in BOOLEAN /\ t.desc \in BOOLEAN
    /\ Orders \subseteq Seq(Terms)
    /\ IsFiniteSet(OtherQueries) /\ {"own", "prepared"} \cap OtherQueries = {}
    /\ NoValue \notin Nat
    /\ \A tb \in OrderTables :
          /\ IsFiniteSet(DOMAIN tb)
          /\ \A r \in DOMAIN tb, t \in Terms : Column(tb, r, t) \in Nat \cup {NoValue}

-----------------------------------------------------------------------------
(* ORDER BY, as the databases read it: without a word NULL is the least.   *)

NullsFirst(t) == t.nulls = "first" \/ (t.nulls = "default" /\ ~ t.desc)
Sooner(v, w, t) ==
    IF v = NoValue THEN w # NoValue /\ NullsFirst(t)
    ELSE IF w = NoValue THEN ~ NullsFirst(t)
    ELSE IF t.desc THEN v > w ELSE v < w
\* r comes before s by those of the terms whose places are in K.
Comes(tb, terms, K, r, s) ==
    \E k \in K :
        /\ Sooner(Column(tb, r, terms[k]), Column(tb, s, terms[k]), terms[k])
        /\ \A m \in K : m < k => Column(tb, r, terms[m]) = Column(tb, s, terms[m])
InOrder(tb, terms, K, rows) ==
    \A i, j \in DOMAIN rows : i < j => ~ Comes(tb, terms, K, rows[j], rows[i])
Listings(tb, terms, K) ==
    {rows \in SetToSeqs(DOMAIN tb) : InOrder(tb, terms, K, rows)}

-----------------------------------------------------------------------------
(* A relation whose rows are scoped is not ordered through, unless the     *)
(* order type allows it.                                                   *)

RejectScopedOrderTraversal(t, scoped, allowed) == t.up /\ scoped /\ ~ allowed
IsRefused(terms, scoped, allowed) ==
    \E k \in DOMAIN terms : RejectScopedOrderTraversal(terms[k], scoped, allowed)

-----------------------------------------------------------------------------
(* Tortoise: orders remembered by query, the oldest forgotten first.       *)

OwnQuery == "own"            \* the query that is ordered
PreparedQuery == "prepared"  \* the query the optimizer makes of it

Places(query) == {i \in DOMAIN memory : memory[i].query = query}
RememberQueryOrdering(query, terms) ==
    LET kept == IF Places(query) = {} THEN memory
                ELSE RemoveAt(memory, CHOOSE i \in Places(query) : TRUE)
        all == Append(kept, [query |-> query, terms |-> terms])
    IN  memory' = IF Len(all) > MaxRemembered THEN Tail(all) ELSE all
QueryOrderings(query) ==
    IF Places(query) = {} THEN <<>>
    ELSE memory[CHOOSE i \in Places(query) : TRUE].terms

Written(terms) == {k \in DOMAIN terms : terms[k].nulls = "default"}

\* One pass: values are sorted, keeping the order of ties, NULLs put aside.
\* Mutant of SortedOnce: ties change places in a descending pass.
SortedOnceReversing(t, rows, tb) ==
    LET Value(i) == PythonColumn(tb, rows[i], t)
        Earlier(i, j) == \/ Sooner(Value(i), Value(j), t)
                         \/ Value(i) = Value(j) /\ IF t.desc THEN i > j ELSE i < j
        places == DOMAIN rows
        sorted == Arranged(places, {p \in places \X places : Earlier(p[1], p[2])})
    IN  [i \in places |-> rows[sorted[i]]]
SortedOnce(t, rows, tb) ==
    LET Value(i) == PythonColumn(tb, rows[i], t)
        Earlier(i, j) == \/ Sooner(Value(i), Value(j), t)
                         \/ Value(i) = Value(j) /\ i < j
        places == DOMAIN rows
        sorted == Arranged(places, {p \in places \X places : Earlier(p[1], p[2])})
    IN  [i \in places |-> rows[sorted[i]]]

-----------------------------------------------------------------------------
(* A query is ordered and answered. *)

NoQuestion == [tb |-> <<>>, terms |-> <<>>, backend |-> "none"]
OrderInit ==
    /\ question = NoQuestion /\ phase = "asking"
    /\ memory = <<>> /\ since = {} /\ taken = <<>> /\ answer = <<>> /\ pass = 0

SaApplyOrdering(terms) == UNCHANGED memory
DjApplyOrdering(terms) == UNCHANGED memory
TtApplyOrdering(terms) ==
    IF terms = <<>> THEN UNCHANGED memory ELSE RememberQueryOrdering(OwnQuery, terms)
ApplyOrdering(tb, terms, backend, scoped, allowed) ==
    /\ phase = "asking"
    /\ IF IsRefused(terms, scoped, allowed)
         THEN phase' = "refused" /\ UNCHANGED <<question, memory>>
         ELSE /\ phase' = "ordered"
              /\ question' = [tb |-> tb, terms |-> terms, backend |-> backend]
              /\ CASE backend = "sqlalchemy" -> SaApplyOrdering(terms)
                   [] backend = "django" -> DjApplyOrdering(terms)
                   [] backend = "tortoise" -> TtApplyOrdering(terms)
    /\ UNCHANGED <<since, taken, answer, pass>>

\* Another query of the process is ordered, before this one or while this one
\* is awaited.
OrderAnother(q) ==
    /\ \/ phase = "asking"
       \/ phase \in {"ordered", "prepared", "arrived"} /\ question.backend = "tortoise"
    /\ RememberQueryOrdering(q, OtherOrder)
    /\ since' = IF phase \in {"ordered", "arrived"} THEN since \cup {q} ELSE since
    /\ UNCHANGED <<question, phase, taken, answer, pass>>

\* SQLAlchemy and Django: the rows of the statement are the answer.
ListRows ==
    /\ phase = "ordered" /\ question.backend # "tortoise"
    /\ answer' \in Listings(question.tb, question.terms, DOMAIN question.terms)
    /\ phase' = "answering"
    /\ UNCHANGED <<question, memory, since, taken, pass>>

\* The optimizer takes the order, and gives it to the query it makes, before
\* it waits for the rows. It does not sort them.
ApplyOptimizerHints ==
    /\ phase = "ordered" /\ question.backend = "tortoise"
    /\ phase' = "prepared" /\ taken' = QueryOrderings(OwnQuery)
    /\ IF taken' = <<>> THEN UNCHANGED memory ELSE RememberQueryOrdering(PreparedQuery, taken')
    /\ UNCHANGED <<question, since, answer, pass>>
RowsArrive ==
    /\ phase \in {"ordered", "prepared"} /\ question.backend = "tortoise"
    /\ answer' \in Listings(question.tb, question.terms, Written(question.terms))
    /\ phase' = IF phase = "prepared" THEN "optimized" ELSE "arrived"
    /\ UNCHANGED <<question, memory, since, taken, pass>>
\* Without the optimizer the order is looked up when the rows are there.
MaterializeQuery ==
    /\ phase = "arrived"
    /\ phase' = "answering"
    /\ taken' = QueryOrderings(OwnQuery) /\ pass' = Len(taken')
    /\ UNCHANGED <<question, memory, since, answer>>
\* One term after the other, the last one first.
ApplyPythonOrdering ==
    /\ phase = "answering" /\ pass > 0
    /\ answer' = SortedOnce(taken[pass], answer, question.tb)
    /\ pass' = pass - 1
    /\ UNCHANGED <<question, phase, memory, since, taken>>

OrderNext ==
    \/ \E tb \in OrderTables, terms \in Orders, scoped, allowed \in BOOLEAN,
          backend \in {"sqlalchemy", "django", "tortoise"} :
             ApplyOrdering(tb, terms, backend, scoped, allowed)
    \/ \E q \in OtherQueries : OrderAnother(q)
    \/ ListRows
    \/ ApplyOptimizerHints
    \/ RowsArrive
    \/ MaterializeQuery
    \/ ApplyPythonOrdering
OrderSpec == OrderInit /\ [][OrderNext]_orderVars

-----------------------------------------------------------------------------
Answered == phase = "optimized" \/ (phase = "answering" /\ pass = 0)

\* Rows the optimizer fetched are in the database's order, which knows nothing
\* of the terms that say where NULLs go. Rows that were sorted are in theirs if
\* the memory still had it when it was read, and no column of a related row
\* comes before one of the row or says where its NULLs go.
TortoiseCanSort ==
    IF phase = "optimized"
      THEN \A k \in DOMAIN question.terms : question.terms[k].nulls = "default"
      ELSE /\ Cardinality(since) < MaxRemembered
           /\ \A k \in DOMAIN question.terms :
                 LET t == question.terms[k]
                 IN  t.up => k = Len(question.terms) /\ t.nulls = "default"

\* Whatever the database does with ties, and whichever queries are ordered
\* meanwhile, rows come in the order asked for, each of them once. On Tortoise
\* that takes an order that it can sort by.
OrdersAsAsked ==
    Answered /\ (question.backend = "tortoise" => TortoiseCanSort) =>
        /\ InOrder(question.tb, question.terms, DOMAIN question.terms, answer)
        /\ answer \in SetToSeqs(DOMAIN question.tb)

\* What the documentation says: ordering is the same on all backends, and an
\* order by the row's own columns may say where NULLs go. (No other query is
\* ordered meanwhile.)
OrdersAreTheSameOnAll ==
    Answered /\ since = {} /\ (\A k \in DOMAIN question.terms : ~ question.terms[k].up) =>
        InOrder(question.tb, question.terms, DOMAIN question.terms, answer)
=============================================================================
