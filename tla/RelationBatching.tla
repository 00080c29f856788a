-------------------------- MODULE RelationBatching --------------------------
(***************************************************************************)
(* BatchingExtension (batching.py): the resolver of a relation field is    *)
(* run for every sibling at once, the parent's key is taken out of each    *)
(* query, and the queries that are equal without it cost one statement.    *)
(*                                                                         *)
(* The resolve() of one place is one action: neither it nor anything it    *)
(* calls awaits.  The places of different groups may come in any order,    *)
(* for an asynchronous extension of the application may delay each field.  *)
(***************************************************************************)
EXTENDS ParentRows

CONSTANTS
  Rows,        \* the rows of the related table
  Columns,     \* its foreign key columns
  ValueOf,     \* the value of each row in each of them
  Outcomes,    \* what the resolver may do for the parent of each key
  MaxFaults,   \* bound: statements that fail
  Missing, Unanswered, Failed

Keys == {PkOf[p] : p \in Parents}

(***************************************************************************)
(* A query: equality conditions on foreign keys, and the rows that all of  *)
(* its other conditions let through.  It is not rewritable when it is      *)
(* sliced, or mentions the parent in an OR arm or through a join.          *)
(***************************************************************************)
Query ==
  [eq : SUBSET [col : Columns, val : Keys], rest : SUBSET Rows,
   rewritable : BOOLEAN]

Outcome == [kind : {"query", "rows", "raises"}, query : Query]

ASSUME RelationAssumption ==
  /\ ValueOf \in [Rows -> [Columns -> Keys]]
  /\ Outcomes \in [Keys -> SUBSET Outcome]
  /\ MaxFaults \in Nat

ASSUME MarkersAssumption ==
  /\ \A s \in SUBSET Rows : Missing # s /\ Unanswered # s /\ Failed # s
  /\ Unanswered # Failed

VARIABLES
  resolver,      \* what the resolver of each parent does
  cache,         \* results[key], by address: the rows a batch read
  unbatchable,   \* results[key] is _UNBATCHABLE
  bailed,        \* the bail recorded for the path
  answer,        \* what each field answered
  alone,         \* history: the fields that used a query of their own
  batched,       \* history: the groups that one batch read
  statements,    \* history: the batched statements run for each group
  faults         \* statements that failed

vars == <<at, stash, resolver, cache, unbatchable, bailed, answer, alone,
          batched, statements, faults>>

TypeOK ==
  /\ RowsTypeOK
  /\ resolver \in [Parents -> Outcome]
  /\ cache \in [Addresses -> (SUBSET Rows) \cup {Missing}]
  /\ unbatchable \in BOOLEAN
  /\ bailed \in {"no", "ran its own query", "not rewritten"}
  /\ answer \in [Parents -> (SUBSET Rows) \cup {Unanswered, Failed}]
  /\ alone \subseteq Parents
  /\ batched \subseteq Groups
  /\ statements \in [Groups -> Nat]
  /\ faults \in 0..MaxFaults

Init ==
  /\ RowsInit
  /\ \E f \in [Keys -> UNION {Outcomes[k] : k \in Keys}] :
       /\ \A k \in Keys : f[k] \in Outcomes[k]
       /\ resolver = [p \in Parents |-> f[PkOf[p]]]
  /\ cache = [a \in Addresses |-> Missing]
  /\ unbatchable = FALSE
  /\ bailed = "no"
  /\ answer = [p \in Parents |-> Unanswered]
  /\ alone = {}
  /\ batched = {}
  /\ statements = [g \in Groups |-> 0]
  /\ faults = 0

-----------------------------------------------------------------------------
(* The rewrite.                                                           *)

\* The rows a query reads.
Matching(q) ==
  {r \in q.rest : \A c \in q.eq : ValueOf[r][c.col] = c.val}

OwnAnswer(p) ==
  IF resolver[p].kind = "raises" THEN Failed ELSE Matching(resolver[p].query)

\* The conditions that compare a foreign key with the parent's key.
ParentConditions(q, pk) == {c \in q.eq : c.val = pk}

\* split_parent_predicate succeeds on exactly one such condition.
Splits(q, pk) == q.rewritable /\ \E c \in q.eq : ParentConditions(q, pk) = {c}

ParentCondition(q, pk) == CHOOSE c \in ParentConditions(q, pk) : TRUE

\* query_signature, with the column's name: what the queries of a batch share.
Signature(q, pk) ==
  LET hit == ParentCondition(q, pk)
  IN  [col |-> hit.col, eq |-> q.eq \ {hit}, rest |-> q.rest]

\* apply_key_filter: one query for the keys of all the parents of a signature.
BatchedRows(s, keys) ==
  {r \in s.rest : /\ \A c \in s.eq : ValueOf[r][c.col] = c.val
                  /\ ValueOf[r][s.col] \in keys}

SignatureOf(p) == Signature(resolver[p].query, PkOf[p])

\* The keys of the siblings whose query has signature s.
KeysOf(s, siblings) == {PkOf[p] : p \in {q \in siblings : SignatureOf(q) = s}}

\* Mutant of Grouped: the rows are not grouped by the parent's key.
Ungrouped(p, siblings) ==
  BatchedRows(SignatureOf(p), KeysOf(SignatureOf(p), siblings))

\* The rows of one parent, by the key they were filtered on.
Grouped(p, siblings) ==
  {r \in BatchedRows(SignatureOf(p), KeysOf(SignatureOf(p), siblings)) :
     ValueOf[r][SignatureOf(p).col] = PkOf[p]}

Rewritable(p) ==
  /\ resolver[p].kind = "query"
  /\ Splits(resolver[p].query, PkOf[p])

-----------------------------------------------------------------------------
(* resolve() of one place.                                                *)

Waiting(p) == Loaded(p) /\ answer[p] = Unanswered

\* Mutant of Cached: nothing that was batched is found again.
CachedNever(p) == FALSE

\* The path has been batched for this row.
Cached(p) == ~unbatchable /\ cache[at[p]] # Missing

\* The field runs plain: its resolver's own query, or its own failure.
Alone(p) ==
  /\ alone' = alone \cup {p}
  /\ \/ answer' = [answer EXCEPT ![p] = OwnAnswer(p)] /\ UNCHANGED faults
     \/ /\ faults < MaxFaults
        /\ answer' = [answer EXCEPT ![p] = Failed]
        /\ faults' = faults + 1

\* Nothing can be batched: the path bailed, or the row has no siblings.
ResolveAlone(p) ==
  /\ Waiting(p) /\ ~Cached(p)
  /\ unbatchable \/ Siblings(p) = {}
  /\ Alone(p)
  /\ UNCHANGED <<at, stash, resolver, cache, unbatchable, bailed, batched, statements>>

ServeCached(p) ==
  /\ Waiting(p) /\ Cached(p)
  /\ answer' = [answer EXCEPT ![p] = cache[at[p]]]
  /\ UNCHANGED <<at, stash, resolver, cache, unbatchable, bailed, alone, batched,
                 statements, faults>>

\* This parent is the first of its siblings to be resolved.
Leads(p) == Waiting(p) /\ ~Cached(p) /\ ~unbatchable /\ Siblings(p) # {}

\* Its resolver raises, as it would alone.
LeadRaises(p) ==
  /\ Leads(p)
  /\ resolver[p].kind = "raises"
  /\ Alone(p)
  /\ UNCHANGED <<at, stash, resolver, cache, unbatchable, bailed, batched, statements>>

\* setdefault: the first reason stays.
RecordBail(reason) == bailed' = IF bailed = "no" THEN reason ELSE bailed

\* Its resolver returns rows, or an awaitable: there is no query to rewrite.
\* Rows that were loaded with the parent owe no report.
LeadRanOwnQuery(p) ==
  /\ Leads(p)
  /\ resolver[p].kind = "rows"
  /\ unbatchable' = TRUE
  /\ RecordBail("ran its own query") \/ UNCHANGED bailed
  /\ Alone(p)
  /\ UNCHANGED <<at, stash, resolver, cache, batched, statements>>

\* Mutant of Abandon: the error of a sibling is this field's, too.
AbandonFails(p) ==
  /\ Leads(p)
  /\ resolver[p].kind = "query"
  /\ \E q \in Siblings(p) : ~Rewritable(q)
  /\ answer' = [answer EXCEPT ![p] = Failed]
  /\ UNCHANGED <<at, stash, resolver, cache, unbatchable, bailed, alone, batched,
                 statements, faults>>

\* A sibling cannot be rewritten, or raises: every parent resolves alone.
Abandon(p) ==
  /\ Leads(p)
  /\ resolver[p].kind = "query"
  /\ \E q \in Siblings(p) : ~Rewritable(q)
  /\ unbatchable' = TRUE
  /\ RecordBail("not rewritten")
  /\ Alone(p)
  /\ UNCHANGED <<at, stash, resolver, cache, batched, statements>>

\* The rows of the siblings are added to those of earlier groups.
Merged(siblings) ==
  [a \in Addresses |->
     IF \E q \in siblings : at[q] = a
       THEN Grouped(CHOOSE q \in siblings : at[q] = a, siblings)
       ELSE cache[a]]

Shapes(siblings) == {SignatureOf(q) : q \in siblings}

\* The batch is read, one statement per shape, and this parent's part returned.
RunAhead(p) ==
  /\ Leads(p)
  /\ \A q \in Siblings(p) : Rewritable(q)
  /\ resolver[p].kind = "query"
  /\ cache' = Merged(Siblings(p))
  /\ answer' = [answer EXCEPT ![p] = IF cache'[at[p]] = Missing THEN {}
                                                               ELSE cache'[at[p]]]
  /\ batched' = batched \cup {stash}
  /\ statements' = [statements EXCEPT ![stash] = @ + Cardinality(Shapes(Siblings(p)))]
  /\ UNCHANGED <<at, stash, resolver, unbatchable, bailed, alone, faults>>

\* A statement of the batch fails: this field fails and nothing is cached.
RunAheadFails(p) ==
  /\ Leads(p)
  /\ \A q \in Siblings(p) : Rewritable(q)
  /\ faults < MaxFaults
  /\ faults' = faults + 1
  /\ answer' = [answer EXCEPT ![p] = Failed]
  /\ UNCHANGED <<at, stash, resolver, cache, unbatchable, bailed, alone, batched,
                 statements>>

Resolve(p) ==
  \/ ResolveAlone(p)
  \/ ServeCached(p)
  \/ LeadRaises(p)
  \/ LeadRanOwnQuery(p)
  \/ Abandon(p)
  \/ RunAhead(p)
  \/ RunAheadFails(p)

LoadGroup(g) ==
  /\ \A p \in Members(g) : ~Loaded(p) /\ answer[p] = Unanswered
  /\ Load(g)
  /\ UNCHANGED <<resolver, cache, unbatchable, bailed, answer, alone, batched,
                 statements, faults>>

\* The fields of a group have answered and its list is completed.
ReleaseGroup(g) ==
  /\ \E p \in Members(g) : Loaded(p)
  /\ \A p \in Members(g) : answer[p] # Unanswered
  /\ Release(g)
  /\ UNCHANGED <<resolver, cache, unbatchable, bailed, answer, alone, batched,
                 statements, faults>>

Next ==
  \/ \E g \in Groups : LoadGroup(g) \/ ReleaseGroup(g)
  \/ \E p \in Parents : Resolve(p)

Spec == Init /\ [][Next]_vars

-----------------------------------------------------------------------------
(* Properties.                                                            *)

\* "It falls back to per-row resolution -- never to wrong rows" (README.md):
\* whatever was batched, cached or abandoned, a field answers its own rows.
NeverWrongRows ==
  \A p \in Parents : answer[p] \in {Unanswered, Failed, OwnAnswer(p)}

\* A group costs one statement per query shape, however its parents interleave
\* with those of other groups.
OneStatementPerShape ==
  \A g \in batched : statements[g] <= Cardinality(Shapes(Members(g)))

\* Every field is answered as if it were resolved alone.
AsIfAlone == INSTANCE PerParentResolution
               WITH own <- [p \in Parents |-> OwnAnswer(p)]

ResolvesAsIfAlone == AsIfAlone!Spec
=============================================================================
