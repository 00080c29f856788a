--------------------------- MODULE LazyResolution ---------------------------
(***************************************************************************)
(* The diagnostics of relations that no plan has loaded, during one        *)
(* operation. A relation field is noted when its relation is not loaded;   *)
(* any other field of a row is watched while its resolver runs: a probe    *)
(* counts the statements, and the relations its row has loaded meanwhile   *)
(* are the resolver's. Asynchronous resolvers run between each other's     *)
(* steps, on rows and a database client that they share.                   *)
(***************************************************************************)
EXTENDS Naturals, Sequences, FiniteSets, SequencesExt

CONSTANTS
    RelationFields,   \* [field -> <<row, relation>>] that only reads it
    Computed,         \* [field -> row] whose resolver is the application's
    RowRelations,     \* the relations of a row's model
    Planned0,         \* <<row, relation>> pairs that plans may load
    Settings,         \* records [backend, async] that are run
    MaxStatements

ASSUME LazyAssumption ==
    DOMAIN RelationFields \cap DOMAIN Computed = {} /\ MaxStatements \in Nat
ASSUME SettingsAssumption ==
    Settings \subseteq [backend : {"sqlalchemy", "django", "tortoise"}, async : BOOLEAN]

VARIABLES setting, loaded, at, before, client, saved, counted, issued,
          loads, queries, lazily, report
lazyVars == <<setting, loaded, at, before, client, saved, counted, issued,
              loads, queries, lazily, report>>

FieldNames == DOMAIN RelationFields \cup DOMAIN Computed
Running == {f \in DOMAIN Computed : at[f] = "running"}
\* Without await, a resolver runs to its end before the next field starts.
MayRun(f) == at[f] = "waiting" /\ (setting.async \/ Running = {})
NotYet == [loads |-> {}, queries |-> {}, at |-> "no time"]

UnloadedRelations(row) == {rel \in RowRelations : <<row, rel>> \notin loaded}

LazyInit ==
    /\ setting \in Settings
    /\ loaded \in SUBSET Planned0
    /\ at = [f \in FieldNames |-> "waiting"]
    /\ before = [f \in DOMAIN Computed |-> {}]
    /\ client = <<>> /\ saved = [f \in DOMAIN Computed |-> <<>>]
    /\ counted = [f \in DOMAIN Computed |-> 0]
    /\ issued = [f \in DOMAIN Computed |-> 0]
    /\ loads = {} /\ queries = {} /\ lazily = {} /\ report = NotYet

-----------------------------------------------------------------------------
(* A probe: how each backend counts, and how it stops. client is what a    *)
(* statement passes on its way to the database, the innermost first.       *)

Opened(f) == Append(client, f)
\* Mutant of Closed: SQLAlchemy's listener stays where it is.
ClosedNever(f) == client
\* SQLAlchemy removes this listener, Django pops the last wrapper, Tortoise
\* puts back the methods the probe has found.
Closed(f) ==
    CASE setting.backend = "sqlalchemy" ->
           RemoveAt(client, CHOOSE i \in DOMAIN client : client[i] = f)
      [] setting.backend = "django" -> Front(client)
      [] setting.backend = "tortoise" -> saved[f]
\* One statement more for every probe it passes.
Count == counted' = [g \in DOMAIN counted |->
                        IF g \in ToSet(client) THEN counted[g] + 1 ELSE counted[g]]

-----------------------------------------------------------------------------
\* A relation field; reading it may leave the relation on the row, or not.
RecordRelationAccess(f) ==
    LET edge == RelationFields[f]
    IN  /\ MayRun(f)
        /\ at' = [at EXCEPT ![f] = "ended"]
        /\ IF edge \in loaded THEN UNCHANGED <<loaded, loads, lazily, counted, issued>>
           ELSE /\ loads' = loads \cup {<<f, edge>>}
                /\ lazily' = lazily \cup {<<f, edge>>}
                /\ loaded' \in {loaded, loaded \cup {edge}}
                /\ Count
                /\ issued' = [g \in DOMAIN issued |->
                                 IF g \in Running THEN issued[g] + 1 ELSE issued[g]]
        /\ UNCHANGED <<setting, before, client, saved, queries, report>>

\* Any other field of a row of a registered type: the probe opens, and stays
\* open for as long as the resolver is awaited.
StartProbed(f) ==
    /\ MayRun(f)
    /\ at' = [at EXCEPT ![f] = "running"]
    /\ before' = [before EXCEPT ![f] = UnloadedRelations(Computed[f])]
    /\ saved' = [saved EXCEPT ![f] = client]
    /\ client' = Opened(f)
    /\ UNCHANGED <<setting, loaded, counted, issued, loads, queries, lazily, report>>

\* The resolver sends a statement: one that loads a relation of its row, or
\* one that loads none of it.
Statement(f) ==
    /\ at[f] = "running"
    /\ issued[f] < MaxStatements
    /\ Count
    /\ issued' = [g \in DOMAIN issued |->
                     IF g \in Running THEN issued[g] + 1 ELSE issued[g]]
    /\ \/ \E rel \in UnloadedRelations(Computed[f]) :
             /\ loaded' = loaded \cup {<<Computed[f], rel>>}
             /\ lazily' = lazily \cup {<<f, <<Computed[f], rel>>>>}
       \/ UNCHANGED <<loaded, lazily>>
    /\ UNCHANGED <<setting, at, before, client, saved, loads, queries, report>>

\* Mutant of NewlyLoaded: what was loaded before the resolver ran.
LoadedAtAll(f) == RowRelations \ UnloadedRelations(Computed[f])
NewlyLoaded(f) == before[f] \ UnloadedRelations(Computed[f])

RecordResolverQueries(f) ==
    /\ at[f] = "running"
    /\ at' = [at EXCEPT ![f] = "ended"]
    /\ client' = Closed(f)
    /\ queries' = IF NewlyLoaded(f) = {} THEN queries
                  ELSE queries \cup {[field |-> f, relations |-> NewlyLoaded(f),
                                      count |-> counted[f]]}
    /\ UNCHANGED <<setting, loaded, before, saved, counted, issued, loads, lazily, report>>

\* The probe is closed, and what the resolver has read is not recorded.
ResolverRaises(f) ==
    /\ at[f] = "running"
    /\ at' = [at EXCEPT ![f] = "raised"]
    /\ client' = Closed(f)
    /\ UNCHANGED <<setting, loaded, before, saved, counted, issued, loads, queries, lazily, report>>

FlushLoads ==
    /\ \A f \in FieldNames : at[f] \in {"ended", "raised"}
    /\ report = NotYet
    /\ report' = [loads |-> loads, queries |-> queries, at |-> "the end"]
    /\ UNCHANGED <<setting, loaded, at, before, client, saved, counted, issued,
                   loads, queries, lazily>>

LazyNext ==
    \/ \E f \in DOMAIN RelationFields : RecordRelationAccess(f)
    \/ \E f \in DOMAIN Computed : \/ StartProbed(f) \/ Statement(f)
                                  \/ RecordResolverQueries(f) \/ ResolverRaises(f)
    \/ FlushLoads
LazySpec == LazyInit /\ [][LazyNext]_lazyVars

-----------------------------------------------------------------------------
\* The report at the end names every relation that a field has loaded lazily,
\* with that field, unless its resolver raised; and it names no relation of a
\* row that no field has loaded lazily.
EveryLazyLoadIsReported ==
    report # NotYet =>
        /\ \A load \in lazily : LET f == load[1]  edge == load[2] IN
              \/ f \in DOMAIN RelationFields /\ load \in report.loads
              \/ f \in DOMAIN Computed
                 /\ \/ at[f] = "raised"
                    \/ \E q \in report.queries : q.field = f /\ edge[2] \in q.relations
        /\ \A q \in report.queries, rel \in RowRelations :
              rel \in q.relations =>
                 \E load \in lazily : load[2] = <<Computed[q.field], rel>>

\* A probe counts the statements issued while its resolver runs: those and no
\* other, as long as resolvers that are awaited at the same time do not share
\* a client whose methods the probes replace, or a stack that they pop.
ProbesCountTheirResolver ==
    (setting.backend = "sqlalchemy" \/ ~ setting.async) =>
        /\ \A f \in DOMAIN Computed : counted[f] = issued[f]
        /\ Running = {} => client = <<>>
=============================================================================
