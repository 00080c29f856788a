----------------------------- MODULE RowScoping -----------------------------
(***************************************************************************)
(* Row scoping while one operation is resolved: which rows a field may     *)
(* answer, and which relation caches on a row in memory may be trusted.    *)
(*                                                                         *)
(* A resolver returns a query or rows it already holds. The optimizer      *)
(* extension scopes them with the type's scope_rows, loads the selected    *)
(* relations onto them and marks what it loaded; a relation field then     *)
(* either trusts the mark or reads the relation again with the scope.      *)
(* An instance is a row and the way it was loaded: SQLAlchemy's identity   *)
(* map keeps one instance per row, Django and Tortoise make new ones with  *)
(* every load.                                                             *)
(***************************************************************************)
EXTENDS Naturals, Sequences

CONSTANTS
    Rows,         \* rows of the one model, which is related to itself
    Unsaved,      \* rows that have no primary key yet
    ToOne, ToMany,
    Links,        \* [relation -> [row -> set of related rows]]
    TypeAllows,   \* rows the type's scope_rows lets through
    EdgeScoped,   \* relations whose field has a scope= of its own
    EdgeAllows,   \* [relation -> rows that scope= lets through]
    Selections,   \* [relations selected -> relations selected below them]
    RowSets,      \* rows a resolver may return
    OwnLoads,     \* relations a resolver may load by itself, unscoped
    Backends,
    Shared,       \* backends whose resolvers may return an instance in use
    Fields,
    MaxLoads

Rels == ToOne \cup ToMany

ASSUME RowsAssumption ==
    /\ Unsaved \subseteq Rows /\ TypeAllows \subseteq Rows
    /\ ToOne \cap ToMany = {} /\ EdgeScoped \subseteq Rels
    /\ Links \in [Rels -> [Rows -> SUBSET Rows]]
    /\ EdgeAllows \in [Rels -> SUBSET Rows]
    /\ Backends \subseteq {"sqlalchemy", "django", "tortoise"}
    /\ RowSets \subseteq SUBSET Rows /\ OwnLoads \subseteq SUBSET Rels
    /\ MaxLoads \in Nat
    /\ \A sel \in Selections : /\ DOMAIN sel \subseteq Rels
                              /\ \A rel \in DOMAIN sel : sel[rel] \subseteq Rels

\* On Tortoise a field that holds an instance another one is loading onto may
\* read a forward relation that is not hidden yet.
ASSUME SharedAssumption == Shared \subseteq {"sqlalchemy", "django"}

VARIABLES env, obj, fld, served, loads
vars == <<env, obj, fld, served, loads>>

-----------------------------------------------------------------------------
\* relation_scope: the related type's scope_rows, then the edge's own scope=.
Restricted(rel) == env.typed \/ rel \in EdgeScoped
Visible(rows, rel) ==
    {r \in rows : /\ env.typed => r \in TypeAllows
                  /\ rel \in EdgeScoped => r \in EdgeAllows[rel]}
ReadAs(rel, r) == Visible(Links[rel][r], rel)
Unscoped(rel, r) == Links[rel][r]
ScopedReads == [rel \in Rels |-> [r \in Rows |-> ReadAs(rel, r)]]

\* apply_type_scope: the type's scope_rows, when it declares one.
ApplyTypeScope(rows) == IF env.typed THEN rows \cap TypeAllows ELSE rows

-----------------------------------------------------------------------------
At(r, via) == [row |-> r, via |-> IF env.backend = "sqlalchemy" THEN <<>> ELSE via]
RowsOf(I) == {i.row : i \in I}

Blank == [loaded |-> {}, cache |-> [rel \in Rels |-> {}], trusted |-> {},
          scoped |-> FALSE, prepared |-> FALSE]

With(o, I) == [i \in DOMAIN o \cup I |-> IF i \in DOMAIN o THEN o[i] ELSE Blank]

\* Read each job's relation onto its instance; got gives the related rows.
Fill(o, jobs, got) ==
    LET Kids(j) == {At(r, Append(j.via, j.rel)) : r \in got[j.rel][j.onto.row]}
        all == With(o, UNION {Kids(j) : j \in jobs})
        Of(i, rel) == {j \in jobs : j.onto = i /\ j.rel = rel}
    IN  [i \in DOMAIN all |->
            [all[i] EXCEPT
                !.loaded = @ \cup {rel \in Rels : Of(i, rel) # {}},
                !.cache = [rel \in Rels |->
                    IF Of(i, rel) = {} THEN @[rel]
                    ELSE UNION {Kids(j) : j \in Of(i, rel)}]]]

Job(i, rel, via) == [onto |-> i, rel |-> rel, via |-> via]
Missing(o, jobs) == {j \in jobs : j.rel \notin o[j.onto].loaded}
RootJobs(I, rels, n) == {Job(i, rel, <<n>>) : i \in I, rel \in rels}
UnderJobs(o, I, sel, n) ==
    UNION {{Job(k, rel2, <<n, rel>>) : k \in o[i].cache[rel], rel2 \in sel[rel]}
           : i \in I, rel \in DOMAIN sel}

Planned(sel) == DOMAIN sel \cup UNION {sel[rel] : rel \in DOMAIN sel}
Trust(o, edges) == [i \in DOMAIN o |->
    [o[i] EXCEPT !.trusted = @ \cup {e[2] : e \in {x \in edges : x[1] = i}}]]
ScopedEdges(o, I, sel) ==
    {<<i, rel>> : i \in I, rel \in DOMAIN sel \cap {r \in Rels : Restricted(r)}}
    \cup UNION {{<<k, rel2>> : k \in o[i].cache[rel],
                               rel2 \in sel[rel] \cap {r \in Rels : Restricted(r)}}
                : i \in I, rel \in DOMAIN sel}

-----------------------------------------------------------------------------
(* SQLAlchemy. Loaders fill only what an instance has not loaded.          *)

SaRelationLoads(o, I, sel, own, got, n) ==
    LET roots == Missing(o, RootJobs(I, DOMAIN sel \cup own, n))
        o1 == Fill(o, roots, got)
        ran == {j \in roots : j.rel \in DOMAIN sel}
        under == UNION {{Job(k, rel2, <<n, j.rel>>) :
                            k \in o1[j.onto].cache[j.rel], rel2 \in sel[j.rel]} : j \in ran}
    IN  Fill(o1, Missing(o1, under), ScopedReads)

\* Mutant of SaUnloadedSnapshot: what was loaded before counts as loaded now.
SaNoSnapshot(o) == <<>>
\* An instance the snapshot does not know was made by this load; any other is
\* marked for the relations that went from unloaded to loaded.
SaUnloadedSnapshot(o) == [i \in DOMAIN o |-> Rels \ o[i].loaded]
SaMarkScopedEdges(o, names, before) ==
    Trust(o, {e \in (DOMAIN o) \X names :
                /\ e[2] \in o[e[1]].loaded
                /\ e[1] \in DOMAIN before => e[2] \in before[e[1]]})

SaScopedNames(sel) == {rel \in Planned(sel) : Restricted(rel)}

\* A statement that brings options of its own is executed and nothing is
\* marked; where both load one relation, either loader may win.
SaApplyHints(o, I, sel, own, won, n) ==
    LET got == [rel \in Rels |->
                   IF rel \in own /\ (rel \notin DOMAIN sel \/ rel \in won)
                   THEN Links[rel] ELSE ScopedReads[rel]]
        o1 == SaRelationLoads(With(o, I), I, sel, own, got, n)
    IN  IF own # {} THEN o1
        ELSE SaMarkScopedEdges(o1, SaScopedNames(sel), SaUnloadedSnapshot(o))

SaLoadRelations(o, I, sel, n) ==
    SaMarkScopedEdges(SaRelationLoads(o, I, sel, {}, ScopedReads, n),
                      SaScopedNames(sel), SaUnloadedSnapshot(o))

-----------------------------------------------------------------------------
(* Django. A prefetch skips what is cached, so the caches that a scoped    *)
(* prefetch has to replace are dropped first.                              *)

DjScopedHeads(sel) ==
    {rel \in DOMAIN sel : Restricted(rel) \/ \E rel2 \in sel[rel] : Restricted(rel2)}
\* Mutant of DjClearCaches: a prefetch meets whatever the resolver has cached.
DjKeepCaches(o, I, rels) == o
DjClearCaches(o, I, rels) == [i \in DOMAIN o |->
    IF i \in I THEN [o[i] EXCEPT !.loaded = @ \ rels] ELSE o[i]]

DjRelationLookups(o, I, sel, n) ==
    LET o1 == Fill(o, Missing(o, RootJobs(I, DOMAIN sel, n)), ScopedReads)
    IN  Fill(o1, Missing(o1, UnderJobs(o1, I, sel, n)), ScopedReads)
DjMarkScopedPrefetches(o, I, sel) == Trust(o, ScopedEdges(o, I, sel))

\* The caller's own select_related goes where a scoped prefetch takes over.
DjApplyHints(o, I, sel, own, n) ==
    LET kept == own \ (ToOne \cap DjScopedHeads(sel))
        o1 == Fill(With(o, I), RootJobs(I, kept, n), Links)
    IN  DjMarkScopedPrefetches(DjRelationLookups(o1, I, sel, n), I, sel)
\* Django refuses two different querysets for one prefetched relation.
DjQueryFails(sel, own) == \E rel \in own \cap ToMany \cap DOMAIN sel : Restricted(rel)

DjLoadRelations(o, I, sel, n) ==
    DjMarkScopedPrefetches(
        DjRelationLookups(DjClearCaches(o, I, DjScopedHeads(sel)), I, sel, n), I, sel)

-----------------------------------------------------------------------------
(* Tortoise. A prefetch replaces what is cached; a forward relation is     *)
(* read whole, and what its scope rejects is hidden afterwards.            *)

TtPrefetched == [rel \in Rels |-> IF rel \in ToOne THEN Links[rel] ELSE ScopedReads[rel]]
TtPrefetchOnto(o, I, sel, n) ==
    LET o1 == Fill(o, RootJobs(I, DOMAIN sel, n), TtPrefetched)
    IN  Fill(o1, UnderJobs(o1, I, sel, n), TtPrefetched)

TtHideScopedOut(o, edges) == [i \in DOMAIN o |->
    [o[i] EXCEPT !.cache = [rel \in Rels |->
        IF <<i, rel>> \in edges /\ rel \in ToOne
        THEN {k \in @[rel] : k.row \in Visible({k.row}, rel)} ELSE @[rel]]]]
TtFinishPrefetches(o, I, sel) ==
    LET top == ScopedEdges(o, I, [rel \in DOMAIN sel |-> {}])
        o1 == TtHideScopedOut(o, top)
        all == ScopedEdges(o1, I, sel)
    IN  Trust(TtHideScopedOut(o1, all), all)

TtApplyHints(o, I, sel, own, n) ==
    LET o1 == Fill(With(o, I), RootJobs(I, own \ DOMAIN sel, n), Links)
    IN  TtFinishPrefetches(TtPrefetchOnto(o1, I, sel, n), I, sel)

-----------------------------------------------------------------------------
(* The resolver of a relation field: the rows it answers. wanted is what   *)
(* the filter argument asks for, Rows when no argument is given.           *)

Cached(i, rel) == RowsOf(obj[i].cache[rel])
Held(i, rel) == IF rel \in obj[i].loaded THEN Cached(i, rel) ELSE Unscoped(rel, i.row)
CacheIsScoped(i, rel) == rel \in obj[i].trusted

SaScopedRelation(i, rel) ==
    IF ~ Restricted(rel) \/ (rel \in obj[i].loaded /\ CacheIsScoped(i, rel))
    THEN Held(i, rel) ELSE ReadAs(rel, i.row)
SaRelField(i, rel, args, wanted) ==
    IF ~ args THEN SaScopedRelation(i, rel) ELSE ReadAs(rel, i.row) \cap wanted

DjScopedRelatedQueryset(i, rel) ==
    IF rel \in obj[i].loaded /\ (~ Restricted(rel) \/ CacheIsScoped(i, rel))
    THEN Cached(i, rel) ELSE ReadAs(rel, i.row)
DjScopedRelatedInstance(i, rel) ==
    IF ~ Restricted(rel) \/ (rel \in obj[i].loaded /\ CacheIsScoped(i, rel))
    THEN Held(i, rel) ELSE Visible(Held(i, rel), rel)
DjRelField(i, rel, args, wanted) ==
    IF args THEN ReadAs(rel, i.row) \cap wanted
    ELSE IF rel \in ToOne THEN DjScopedRelatedInstance(i, rel)
    ELSE DjScopedRelatedQueryset(i, rel)

TtToOneField(i, rel) ==
    IF ~ Restricted(rel) \/ (rel \in obj[i].loaded /\ CacheIsScoped(i, rel))
    THEN Held(i, rel) ELSE ReadAs(rel, i.row)
TtManyField(i, rel) ==
    IF rel \in obj[i].loaded /\ (~ Restricted(rel) \/ CacheIsScoped(i, rel))
    THEN Cached(i, rel) ELSE ReadAs(rel, i.row)
TtRelField(i, rel, args, wanted) ==
    IF args THEN ReadAs(rel, i.row) \cap wanted
    ELSE IF rel \in ToOne THEN TtToOneField(i, rel) ELSE TtManyField(i, rel)

RelField(i, rel, args, wanted) ==
    CASE env.backend = "sqlalchemy" -> SaRelField(i, rel, args, wanted)
      [] env.backend = "django" -> DjRelField(i, rel, args, wanted)
      [] env.backend = "tortoise" -> TtRelField(i, rel, args, wanted)

FromCache(i, rel) ==
    rel \in obj[i].loaded /\ (~ Restricted(rel) \/ CacheIsScoped(i, rel))

-----------------------------------------------------------------------------
(* The fields of one operation. *)

Idle == [stage |-> "idle", sel |-> <<>>, result |-> {}, cand |-> {}]

Init ==
    /\ env \in [backend : Backends, optimizer : BOOLEAN, typed : BOOLEAN]
    /\ obj = <<>>
    /\ fld = [f \in Fields |-> Idle]
    /\ served = {}
    /\ loads = 0

Answer(f, I, o) ==
    /\ obj' = o
    /\ fld' = [fld EXCEPT ![f].stage = "done", ![f].result = I, ![f].cand = {}]
    /\ served' = served \cup I
Fail(f) ==
    /\ fld' = [fld EXCEPT ![f] = [Idle EXCEPT !.stage = "failed"]]
    /\ UNCHANGED <<obj, served>>

Prepare(o, I) == [i \in DOMAIN o |->
    IF i \in I THEN [o[i] EXCEPT !.prepared = TRUE] ELSE o[i]]

ApplyHints(o, I, sel, own, won, n) ==
    CASE env.backend = "sqlalchemy" -> SaApplyHints(o, I, sel, own, won, n)
      [] env.backend = "django" -> DjApplyHints(o, I, sel, own, n)
      [] env.backend = "tortoise" -> TtApplyHints(o, I, sel, own, n)

\* A resolver returns a query, with eager loads of its own on it or none. With
\* the optimizer off it is only scoped, and read when the answer is completed.
ReturnQuery(f) ==
    \E wanted \in RowSets, sel \in Selections, own \in OwnLoads :
    \E won \in SUBSET (own \cap DOMAIN sel) :
        /\ fld[f].stage = "idle" /\ loads < MaxLoads
        /\ wanted \cap Unsaved = {}
        /\ LET n == loads + 1
               I == {At(r, <<n>>) : r \in ApplyTypeScope(wanted)}
           IN  /\ loads' = n
               /\ IF ~ env.optimizer
                  THEN Answer(f, I, Fill(With(obj, I),
                                    Missing(With(obj, I), RootJobs(I, own, n)), Links))
                  ELSE IF env.backend = "django" /\ DjQueryFails(sel, own) THEN Fail(f)
                  ELSE Answer(f, I, Prepare(ApplyHints(obj, I, sel, own, won, n), I))
        /\ UNCHANGED env

\* _load_rows: what an optimized load has prepared is left alone, every other
\* row has to pass scope_rows first.
Receive(f, I, sel, o) ==
    LET rows == IF env.optimizer THEN {i \in I : ~ o[i].prepared} ELSE I
    IN  IF rows = {} THEN Answer(f, I, o)
        ELSE /\ obj' = o
             /\ fld' = [fld EXCEPT ![f] = [stage |-> "scoping", sel |-> sel,
                                           result |-> I, cand |-> rows]]
             /\ UNCHANGED served

\* A resolver hands over rows it has read itself, one relation loaded or none.
ReturnFreshRows(f) ==
    \E wanted \in RowSets, sel \in Selections, own \in OwnLoads :
        /\ fld[f].stage = "idle" /\ loads < MaxLoads
        /\ LET n == loads + 1
               I == {At(r, <<n>>) : r \in wanted}
               o == With(obj, I)
           IN  /\ loads' = n
               /\ Receive(f, I, sel, Fill(o, Missing(o, RootJobs(I, own, n)), Links))
        /\ UNCHANGED env

\* A resolver hands over rows that another field has been given already.
ReturnHeldRows(f) ==
    \E i \in DOMAIN obj, sel \in Selections :
        /\ fld[f].stage = "idle" /\ env.backend \in Shared
        /\ Receive(f, {i}, sel, obj)
        /\ UNCHANGED <<env, loads>>

\* scope_instances: rows that passed before pass, a row without a key fails.
Unchecked(I) == IF env.typed THEN {i \in I : ~ obj[i].scoped} ELSE {}
\* Mutant of Kept: every row with a key passes.
KeptWithSaved(I) == {i \in I : obj[i].scoped \/ i.row \notin Unsaved}
Kept(I) == {i \in I : obj[i].scoped \/ i.row \in TypeAllows}
MarkRowsScoped(I) == [i \in DOMAIN obj |->
    IF i \in I THEN [obj[i] EXCEPT !.scoped = TRUE] ELSE obj[i]]

ScopeInstances(f) ==
    LET cand == fld[f].cand
        kept == IF Unchecked(cand) = {} THEN cand ELSE Kept(cand)
        o == IF Unchecked(cand) = {} THEN obj ELSE MarkRowsScoped(kept)
        result == fld[f].result \ (cand \ kept)
    IN  /\ fld[f].stage = "scoping"
        /\ IF \E i \in Unchecked(cand) : i.row \in Unsaved THEN Fail(f)
           ELSE IF kept = {} \/ ~ env.optimizer THEN Answer(f, result, o)
           ELSE /\ obj' = o
                /\ fld' = [fld EXCEPT ![f].stage = "loading",
                                      ![f].result = result, ![f].cand = kept]
                /\ UNCHANGED served
        /\ UNCHANGED <<env, loads>>

\* load_relations; on Tortoise the loop runs on between the prefetch and the
\* query that says which of the forward rows to hide.
LoadRelations(f) ==
    LET w == fld[f]
        n == loads + 1
    IN  /\ w.stage = "loading"
        /\ loads' = n
        /\ IF DOMAIN w.sel = {} THEN Answer(f, w.result, obj)
           ELSE IF env.backend = "sqlalchemy"
           THEN Answer(f, w.result, Prepare(SaLoadRelations(obj, w.cand, w.sel, n), w.cand))
           ELSE IF env.backend = "django"
           THEN Answer(f, w.result, Prepare(DjLoadRelations(obj, w.cand, w.sel, n), w.cand))
           ELSE /\ obj' = TtPrefetchOnto(obj, w.cand, w.sel, n)
                /\ fld' = [fld EXCEPT ![f].stage = "finishing"]
                /\ UNCHANGED served
        /\ UNCHANGED env

FinishPrefetches(f) ==
    LET w == fld[f]
    IN  /\ w.stage = "finishing"
        /\ Answer(f, w.result, Prepare(TtFinishPrefetches(obj, w.cand, w.sel), w.cand))
        /\ UNCHANGED <<env, loads>>

\* A relation field of a row in the answer, and what reading it leaves behind:
\* an attribute without a scope is loaded by reading it, Django's to-one
\* resolver reads the attribute before it checks the key, and its to-many one
\* forgets a prefetch it may not trust.
ReadRelation(i, rel) ==
    LET n == loads + 1
        lazy == rel \notin obj[i].loaded
                /\ \/ env.backend = "sqlalchemy" /\ ~ Restricted(rel)
                   \/ env.backend = "django" /\ rel \in ToOne
        o == IF lazy THEN Fill(obj, {Job(i, rel, <<n>>)}, Links)
             ELSE IF env.backend = "django" /\ rel \in ToMany /\ ~ FromCache(i, rel)
             THEN [obj EXCEPT ![i].loaded = @ \ {rel}]
             ELSE obj
        given == IF FromCache(i, rel) THEN obj[i].cache[rel]
                 ELSE {At(r, <<n, rel>>) : r \in RelField(i, rel, FALSE, Rows)}
    IN  /\ i \in served /\ loads < MaxLoads
        /\ loads' = n
        /\ obj' = With(o, given)
        /\ served' = served \cup given
        /\ UNCHANGED <<env, fld>>

Next ==
    \/ \E f \in Fields : \/ ReturnQuery(f) \/ ReturnFreshRows(f) \/ ReturnHeldRows(f)
                         \/ ScopeInstances(f) \/ LoadRelations(f) \/ FinishPrefetches(f)
    \/ \E i \in served, rel \in Rels : ReadRelation(i, rel)

Spec == Init /\ [][Next]_vars

-----------------------------------------------------------------------------
InstanceRecord == [loaded : SUBSET Rels, cache : [Rels -> SUBSET DOMAIN obj],
                   trusted : SUBSET Rels, scoped : BOOLEAN, prepared : BOOLEAN]

\* Caches, answers and fields speak only of instances there are.
TypeOK ==
    /\ \A i \in DOMAIN obj : i.row \in Rows /\ obj[i] \in InstanceRecord
    /\ served \subseteq DOMAIN obj
    /\ \A f \in Fields : fld[f].cand \subseteq fld[f].result
                         /\ fld[f].result \subseteq DOMAIN obj

\* No field answers a row that the type's scope_rows rejects, whether its
\* resolver returned a query, rows of its own or rows another field has.
RootsAreReadable ==
    \A f \in Fields : fld[f].stage = "done" =>
        RowsOf(fld[f].result) \subseteq ApplyTypeScope(Rows)

\* A relation field of a row in the answer gives the related rows its scopes
\* let through, all of them and no other, whoever loaded the cache it reads
\* and whenever; with arguments it gives those of them the arguments select.
RelationsReadAsScoped ==
    \A i \in served, rel \in Rels, wanted \in {Rows, TypeAllows} :
        /\ RelField(i, rel, FALSE, Rows) = ReadAs(rel, i.row)
        /\ RelField(i, rel, TRUE, wanted) = ReadAs(rel, i.row) \cap wanted

\* What a mark stands for: a marked cache holds what a scoped read gives, and
\* a row marked as scoped, or as loaded onto, is one scope_rows lets through.
MarksAreTrue ==
    \A i \in DOMAIN obj :
        /\ \A rel \in obj[i].trusted \cap obj[i].loaded :
              Restricted(rel) => Cached(i, rel) = ReadAs(rel, i.row)
        /\ obj[i].scoped \/ obj[i].prepared => i.row \in ApplyTypeScope(Rows)

=============================================================================
