----------------------------- MODULE FieldProofs -----------------------------
(***************************************************************************)
(* Proofs about what becomes of the fields of an operation, however they   *)
(* are interleaved. LazyResolution: every lazy load is reported.           *)
(* GroupedConnection: a field that nobody disturbed answers the groups and *)
(* the aggregates of its own query; the lemmas about sums, sorting and the *)
(* order of rows that it takes come first. Ordering: rows come in the      *)
(* order asked for, though Tortoise sorts them once for each term.         *)
(***************************************************************************)
EXTENDS GroupedConnection, LazyResolution, Ordering, FiniteSetTheorems, WellFoundedInduction, TLAPS

-----------------------------------------------------------------------------
(* LazyResolution.                                                         *)

Stages == {"waiting", "running", "ended", "raised"}
TypeInv ==
    /\ at \in [FieldNames -> Stages]
    /\ before \in [DOMAIN Computed -> SUBSET RowRelations]

\* What is not loaded yet was not when a resolver under way started; what is
\* by now, and was not then, some field has loaded lazily.
LoadedLazily(edge) == \E load \in lazily : load[2] = edge
BeforeInv ==
    \A f \in DOMAIN Computed : at[f] = "running" =>
        /\ UnloadedRelations(Computed[f]) \subseteq before[f]
        /\ \A rel \in before[f] :
              <<Computed[f], rel>> \in loaded => LoadedLazily(<<Computed[f], rel>>)

\* What a resolver has recorded, or will record when it ends.
Recorded(load) ==
    \E q \in queries : q.field = load[1] /\ load[2][2] \in q.relations
Accounted(load) ==
    \/ load[1] \in DOMAIN RelationFields /\ load \in loads
    \/ /\ load[1] \in DOMAIN Computed
       /\ load[2] \in loaded /\ load[2] = <<Computed[load[1]], load[2][2]>>
       /\ \/ at[load[1]] = "running" /\ load[2][2] \in before[load[1]]
          \/ at[load[1]] = "raised"
          \/ at[load[1]] = "ended" /\ Recorded(load)
LoadsInv == \A load \in lazily : Accounted(load)
QueriesInv ==
    \A q \in queries, rel \in RowRelations :
        rel \in q.relations => LoadedLazily(<<Computed[q.field], rel>>)

AllEnded == \A f \in FieldNames : at[f] \in {"ended", "raised"}
Reported == [loads |-> loads, queries |-> queries, at |-> "the end"]
ReportInv == report # NotYet => AllEnded /\ report = Reported

IInv == TypeInv /\ BeforeInv /\ LoadsInv /\ QueriesInv /\ ReportInv

-----------------------------------------------------------------------------
LEMMA InitIInv == LazyInit => IInv
BY DEF LazyInit, IInv, TypeInv, BeforeInv, LoadsInv, QueriesInv, ReportInv,
       FieldNames, Stages

\* A field that has not ended has not been reported.
LEMMA NotReportedYet ==
    ASSUME IInv, NEW f \in FieldNames, at[f] \in {"waiting", "running"}
    PROVE  report = NotYet
BY DEF IInv, ReportInv, AllEnded

LEMMA UnchangedKeepsIInv ==
    ASSUME IInv, UNCHANGED <<loaded, at, before, loads, queries, lazily, report>>
    PROVE  IInv'
<1>1. TypeInv'
    BY DEF IInv, TypeInv
<1>2. BeforeInv'
    BY DEF IInv, BeforeInv, UnloadedRelations, LoadedLazily
<1>3. LoadsInv'
    BY DEF IInv, LoadsInv, Accounted, Recorded
<1>4. QueriesInv'
    BY DEF IInv, QueriesInv, LoadedLazily
<1>5. ReportInv'
    BY DEF IInv, ReportInv, AllEnded, Reported
<1> QED
    BY <1>1, <1>2, <1>3, <1>4, <1>5 DEF IInv

LEMMA RelationFieldsKeepIInv ==
    ASSUME IInv, NEW f \in DOMAIN RelationFields, RecordRelationAccess(f)
    PROVE  IInv'
<1> DEFINE edge == RelationFields[f]
<1>1. /\ f \in FieldNames /\ f \notin DOMAIN Computed
      /\ at[f] = "waiting" /\ at' = [at EXCEPT ![f] = "ended"]
      /\ UNCHANGED <<before, queries, report>>
    BY LazyAssumption DEF RecordRelationAccess, MayRun, FieldNames
<1>2. /\ \/ UNCHANGED <<loaded, loads, lazily>>
         \/ /\ loads' = loads \cup {<<f, edge>>} /\ lazily' = lazily \cup {<<f, edge>>}
            /\ loaded' \in {loaded, loaded \cup {edge}}
    BY DEF RecordRelationAccess
<1>3. report = NotYet
    BY <1>1, NotReportedYet
<1>4. TypeInv' /\ \A g \in DOMAIN Computed : at'[g] = at[g]
    BY <1>1 DEF IInv, TypeInv, Stages
<1>5. \A e : LoadedLazily(e) => LoadedLazily(e)'
    BY <1>2 DEF LoadedLazily
<1>6. \A e : e \in loaded' => e \in loaded \/ LoadedLazily(e)'
    <2>1. ASSUME <<f, edge>> \in lazily' PROVE LoadedLazily(edge)'
        <3>1. <<f, edge>>[2] = edge
            OBVIOUS
        <3> QED
            BY <2>1, <3>1 DEF LoadedLazily
    <2> QED
        BY <1>2, <2>1
<1>7. BeforeInv'
    BY <1>1, <1>2, <1>4, <1>5, <1>6 DEF IInv, BeforeInv, UnloadedRelations
<1>8. \A load \in lazily : Accounted(load)'
    BY <1>1, <1>2, <1>4 DEF IInv, LoadsInv, Accounted, Recorded
<1>9. LoadsInv'
    <2>1. <<f, edge>> \in loads' => Accounted(<<f, edge>>)'
        BY DEF Accounted
    <2> QED
        BY <1>2, <1>8, <2>1 DEF LoadsInv
<1>10. QueriesInv'
    BY <1>1, <1>5 DEF IInv, QueriesInv
<1> QED
    BY <1>1, <1>3, <1>4, <1>7, <1>9, <1>10 DEF IInv, ReportInv

LEMMA StartKeepsIInv ==
    ASSUME IInv, NEW f \in DOMAIN Computed, StartProbed(f)
    PROVE  IInv'
<1>1. /\ f \in FieldNames /\ at[f] = "waiting"
      /\ at' = [at EXCEPT ![f] = "running"]
      /\ before' = [before EXCEPT ![f] = UnloadedRelations(Computed[f])]
      /\ UNCHANGED <<loaded, loads, queries, lazily, report>>
    BY DEF StartProbed, MayRun, FieldNames
<1>2. report = NotYet
    BY <1>1, NotReportedYet
<1>3. TypeInv'
    BY <1>1 DEF IInv, TypeInv, Stages, UnloadedRelations
<1>4. BeforeInv'
    <2> SUFFICES ASSUME NEW g \in DOMAIN Computed, at'[g] = "running"
                 PROVE  /\ UnloadedRelations(Computed[g])' \subseteq before'[g]
                        /\ \A rel \in before'[g] : <<Computed[g], rel>> \in loaded' =>
                              LoadedLazily(<<Computed[g], rel>>)'
        BY DEF BeforeInv
    <2>1. UnloadedRelations(Computed[g])' = UnloadedRelations(Computed[g])
        BY <1>1 DEF UnloadedRelations
    <2>2. CASE g = f
        <3>1. before'[g] = UnloadedRelations(Computed[g])
            BY <1>1, <2>2 DEF IInv, TypeInv
        <3> QED
            BY <1>1, <2>1, <3>1 DEF UnloadedRelations
    <2>3. CASE g # f
        <3>1. before'[g] = before[g] /\ at[g] = "running"
            BY <1>1, <2>3 DEF IInv, TypeInv, FieldNames
        <3> QED
            BY <1>1, <2>1, <3>1 DEF IInv, BeforeInv, LoadedLazily
    <2> QED
        BY <2>2, <2>3
<1>5. LoadsInv'
    <2> SUFFICES ASSUME NEW load \in lazily PROVE Accounted(load)'
        BY <1>1 DEF LoadsInv
    <2>1. Accounted(load)
        BY DEF IInv, LoadsInv
    <2>2. CASE load[1] \in DOMAIN RelationFields /\ load \in loads
        BY <1>1, <2>2 DEF Accounted
    <2>3. CASE ~ (load[1] \in DOMAIN RelationFields /\ load \in loads)
        <3>1. load[1] \in DOMAIN Computed /\ load[1] # f
            BY <1>1, <2>1, <2>3 DEF Accounted
        <3>2. at'[load[1]] = at[load[1]] /\ before'[load[1]] = before[load[1]]
            BY <1>1, <3>1 DEF IInv, TypeInv, FieldNames
        <3> QED
            BY <1>1, <2>1, <2>3, <3>1, <3>2 DEF Accounted, Recorded
    <2> QED
        BY <2>2, <2>3
<1>6. QueriesInv'
    BY <1>1 DEF IInv, QueriesInv, LoadedLazily
<1> QED
    BY <1>1, <1>2, <1>3, <1>4, <1>5, <1>6 DEF IInv, ReportInv

LEMMA StatementKeepsIInv ==
    ASSUME IInv, NEW f \in DOMAIN Computed, Statement(f)
    PROVE  IInv'
<1>1. /\ f \in FieldNames /\ at[f] = "running"
      /\ UNCHANGED <<at, before, loads, queries, report>>
    BY DEF Statement, FieldNames
<1>2. report = NotYet
    BY <1>1, NotReportedYet
<1>3. CASE UNCHANGED <<loaded, lazily>>
    BY <1>1, <1>3, UnchangedKeepsIInv
<1>4. CASE ~ UNCHANGED <<loaded, lazily>>
    <2>1. PICK rel \in UnloadedRelations(Computed[f]) :
              /\ loaded' = loaded \cup {<<Computed[f], rel>>}
              /\ lazily' = lazily \cup {<<f, <<Computed[f], rel>>>>}
        BY <1>4 DEF Statement
    <2> DEFINE edge == <<Computed[f], rel>>
    <2>2. \A e : LoadedLazily(e) => LoadedLazily(e)'
        BY <2>1 DEF LoadedLazily
    <2>3. LoadedLazily(edge)'
        <3>1. <<f, edge>>[2] = edge /\ <<f, edge>> \in lazily'
            BY <2>1
        <3> QED
            BY <3>1 DEF LoadedLazily
    <2>4. BeforeInv'
        BY <1>1, <2>1, <2>2, <2>3 DEF IInv, BeforeInv, UnloadedRelations
    <2>5. \A load \in lazily : Accounted(load)'
        BY <1>1, <2>1 DEF IInv, LoadsInv, Accounted, Recorded
    <2>6. rel \in before[f]
        BY <1>1, <2>1 DEF IInv, BeforeInv
    <2>7. Accounted(<<f, edge>>)'
        BY <1>1, <2>1, <2>6 DEF Accounted
    <2>8. LoadsInv'
        BY <2>1, <2>5, <2>7 DEF LoadsInv
    <2>9. QueriesInv'
        BY <1>1, <2>2 DEF IInv, QueriesInv
    <2>10. TypeInv'
        BY <1>1 DEF IInv, TypeInv
    <2> QED
        BY <1>1, <1>2, <2>4, <2>8, <2>9, <2>10 DEF IInv, ReportInv
<1> QED
    BY <1>3, <1>4

\* Ending: what the row has loaded meanwhile is recorded under the field.
LEMMA RecordKeepsIInv ==
    ASSUME IInv, NEW f \in DOMAIN Computed, RecordResolverQueries(f)
    PROVE  IInv'
<1> DEFINE entry == [field |-> f, relations |-> NewlyLoaded(f), count |-> counted[f]]
<1>1. /\ f \in FieldNames /\ at[f] = "running" /\ at' = [at EXCEPT ![f] = "ended"]
      /\ UNCHANGED <<loaded, before, loads, lazily, report>>
    BY DEF RecordResolverQueries, FieldNames
<1>2. queries' = IF NewlyLoaded(f) = {} THEN queries ELSE queries \cup {entry}
    BY DEF RecordResolverQueries
<1>3. report = NotYet
    BY <1>1, NotReportedYet
<1>4. TypeInv'
    BY <1>1 DEF IInv, TypeInv, Stages
<1>5. BeforeInv'
    BY <1>1 DEF IInv, TypeInv, BeforeInv, UnloadedRelations, LoadedLazily, FieldNames
<1>6. LoadsInv'
    <2> SUFFICES ASSUME NEW load \in lazily PROVE Accounted(load)'
        BY <1>1 DEF LoadsInv
    <2>1. Accounted(load)
        BY DEF IInv, LoadsInv
    <2>2. queries \subseteq queries'
        BY <1>2
    <2>3. CASE load[1] \in DOMAIN RelationFields
        <3>1. load \in loads
            BY <2>1, <2>3, LazyAssumption DEF Accounted
        <3> QED
            BY <1>1, <2>3, <3>1 DEF Accounted
    <2>4. CASE load[1] = f
        <3>1. /\ load[2] \in loaded /\ load[2] = <<Computed[f], load[2][2]>>
              /\ load[2][2] \in before[f]
            BY <1>1, <2>1, <2>4, LazyAssumption DEF Accounted
        <3>2. load[2][2] \in NewlyLoaded(f)
            BY <3>1 DEF NewlyLoaded, UnloadedRelations
        <3>3. entry \in queries'
            BY <1>2, <3>2
        <3>4. Recorded(load)'
            BY <2>4, <3>2, <3>3 DEF Recorded
        <3>5. at'[f] = "ended"
            BY <1>1 DEF IInv, TypeInv
        <3> QED
            BY <1>1, <2>4, <3>1, <3>4, <3>5 DEF Accounted
    <2>5. CASE load[1] \notin DOMAIN RelationFields /\ load[1] # f
        <3>1. load[1] \in DOMAIN Computed /\ at'[load[1]] = at[load[1]]
            BY <1>1, <2>1, <2>5 DEF Accounted, IInv, TypeInv, FieldNames
        <3>2. Recorded(load) => Recorded(load)'
            BY <2>2 DEF Recorded
        <3> QED
            BY <1>1, <2>1, <2>5, <3>1, <3>2 DEF Accounted
    <2> QED
        BY <2>3, <2>4, <2>5
<1>7. QueriesInv'
    <2>1. \A rel \in NewlyLoaded(f) \cap RowRelations :
              LoadedLazily(<<Computed[f], rel>>)'
        BY <1>1 DEF IInv, BeforeInv, NewlyLoaded, UnloadedRelations, LoadedLazily
    <2>2. \A e : LoadedLazily(e) => LoadedLazily(e)'
        BY <1>1 DEF LoadedLazily
    <2> SUFFICES ASSUME NEW q \in queries', NEW rel \in RowRelations, rel \in q.relations
                 PROVE  LoadedLazily(<<Computed[q.field], rel>>)'
        BY DEF QueriesInv
    <2>3. CASE q \in queries
        BY <2>2, <2>3 DEF IInv, QueriesInv
    <2>4. CASE q = entry
        <3>1. q.field = f /\ q.relations = NewlyLoaded(f)
            BY <2>4
        <3> QED
            BY <2>1, <3>1
    <2> QED
        BY <1>2, <2>3, <2>4
<1> QED
    BY <1>1, <1>3, <1>4, <1>5, <1>6, <1>7 DEF IInv, ReportInv

LEMMA RaiseKeepsIInv ==
    ASSUME IInv, NEW f \in DOMAIN Computed, ResolverRaises(f)
    PROVE  IInv'
<1>1. /\ f \in FieldNames /\ at[f] = "running" /\ at' = [at EXCEPT ![f] = "raised"]
      /\ UNCHANGED <<loaded, before, loads, queries, lazily, report>>
    BY DEF ResolverRaises, FieldNames
<1>2. report = NotYet
    BY <1>1, NotReportedYet
<1>3. TypeInv'
    BY <1>1 DEF IInv, TypeInv, Stages
<1>4. BeforeInv'
    BY <1>1 DEF IInv, TypeInv, BeforeInv, UnloadedRelations, LoadedLazily, FieldNames
<1>5. LoadsInv'
    <2> SUFFICES ASSUME NEW load \in lazily PROVE Accounted(load)'
        BY <1>1 DEF LoadsInv
    <2>1. Accounted(load) /\ (Recorded(load) => Recorded(load)')
        BY <1>1 DEF IInv, LoadsInv, Recorded
    <2>2. load[1] \in DOMAIN Computed =>
              at'[load[1]] = IF load[1] = f THEN "raised" ELSE at[load[1]]
        BY <1>1 DEF IInv, TypeInv, FieldNames
    <2> QED
        BY <1>1, <2>1, <2>2 DEF Accounted
<1>6. QueriesInv'
    BY <1>1 DEF IInv, QueriesInv, LoadedLazily
<1> QED
    BY <1>1, <1>2, <1>3, <1>4, <1>5, <1>6 DEF IInv, ReportInv

LEMMA FlushKeepsIInv ==
    ASSUME IInv, FlushLoads
    PROVE  IInv'
<1>1. /\ AllEnded /\ report' = Reported
      /\ UNCHANGED <<loaded, at, before, loads, queries, lazily>>
    BY DEF FlushLoads, AllEnded, Reported
<1>2. AllEnded' /\ Reported' = Reported
    BY <1>1 DEF AllEnded, Reported
<1> QED
    BY <1>1, <1>2 DEF IInv, TypeInv, BeforeInv, LoadsInv, Accounted, Recorded,
                      QueriesInv, LoadedLazily, ReportInv, UnloadedRelations

LEMMA NextKeepsIInv == IInv /\ [LazyNext]_lazyVars => IInv'
<1>1. IInv /\ UNCHANGED lazyVars => IInv'
    BY UnchangedKeepsIInv DEF lazyVars
<1> QED
    BY <1>1, RelationFieldsKeepIInv, StartKeepsIInv, StatementKeepsIInv,
       RecordKeepsIInv, RaiseKeepsIInv, FlushKeepsIInv DEF LazyNext

-----------------------------------------------------------------------------
\* Every relation that a field has loaded lazily is in the report at the end,
\* with that field unless its resolver raised, and the report names no other:
\* for all fields and rows, however their resolvers are interleaved.
THEOREM LazyLoadsAreReported == LazySpec => []EveryLazyLoadIsReported
<1>1. IInv => EveryLazyLoadIsReported
    <2> SUFFICES ASSUME IInv, report # NotYet PROVE EveryLazyLoadIsReported
        BY DEF EveryLazyLoadIsReported
    <2>0. AllEnded /\ report = [loads |-> loads, queries |-> queries, at |-> "the end"]
        BY DEF IInv, ReportInv, Reported
    <2>1. AllEnded /\ report.loads = loads /\ report.queries = queries
        BY <2>0
    <2>2. \A load \in lazily :
              \/ load[1] \in DOMAIN RelationFields /\ load \in loads
              \/ load[1] \in DOMAIN Computed /\ (at[load[1]] = "raised" \/ Recorded(load))
        BY <2>1 DEF IInv, LoadsInv, Accounted, AllEnded, FieldNames
    <2>3. \A q \in queries, rel \in RowRelations :
              rel \in q.relations => \E load \in lazily : load[2] = <<Computed[q.field], rel>>
        BY DEF IInv, QueriesInv, LoadedLazily
    <2> QED
        BY <2>1, <2>2, <2>3 DEF EveryLazyLoadIsReported, Recorded
<1> QED
    BY InitIInv, NextKeepsIInv, <1>1, PTL DEF LazySpec
-----------------------------------------------------------------------------
(* What the probes count.                                                   *)

\* The probe of every resolver under way is passed once, and no other.
Passes(c, f) == \E i \in 1 .. Len(c) : c[i] = f
OnceEach(c) == \A i, j \in 1 .. Len(c) : c[i] = c[j] => i = j
Listening ==
    /\ client \in Seq(DOMAIN Computed)
    /\ \A f \in DOMAIN Computed : at[f] = "running" <=> Passes(client, f)
    /\ OnceEach(client)

\* Without await there is one resolver at a time, and it has found the client bare.
OneAtATime ==
    \/ (\A f \in DOMAIN Computed : at[f] # "running") /\ client = <<>>
    \/ \E f \in DOMAIN Computed :
          /\ \A g \in DOMAIN Computed : at[g] = "running" <=> g = f
          /\ client = <<f>> /\ saved[f] = <<>>

TellsApart == setting.backend = "sqlalchemy" \/ ~ setting.async

ProbeInv ==
    /\ setting \in Settings
    /\ at \in [FieldNames -> Stages]
    /\ DOMAIN saved = DOMAIN Computed
    /\ DOMAIN counted = DOMAIN Computed /\ DOMAIN issued = DOMAIN Computed
    /\ ~ setting.async => OneAtATime
    /\ setting.backend = "sqlalchemy" => Listening
    /\ TellsApart => counted = issued

\* A statement passes the probes of the resolvers that are under way.
LEMMA RunningArePassed ==
    ASSUME ProbeInv, TellsApart
    PROVE  Running = ToSet(client)
<1>1. CASE setting.backend = "sqlalchemy"
    BY <1>1 DEF ProbeInv, Listening, Passes, Running, ToSet
<1>2. CASE ~ setting.async
    <2>1. CASE (\A f \in DOMAIN Computed : at[f] # "running") /\ client = <<>>
        BY <2>1 DEF Running, ToSet
    <2>2. ASSUME NEW f \in DOMAIN Computed,
                 \A g \in DOMAIN Computed : at[g] = "running" <=> g = f,
                 client = <<f>>
          PROVE  Running = ToSet(client)
        <3>1. Running = {f}
            BY <2>2 DEF Running
        <3>2. ToSet(client) = {f}
            BY <2>2 DEF ToSet
        <3> QED
            BY <3>1, <3>2
    <2> QED
        BY <1>2, <2>1, <2>2 DEF ProbeInv, OneAtATime
<1> QED
    BY <1>1, <1>2 DEF TellsApart

\* A statement is counted where it is issued.
LEMMA StatementsCountAlike ==
    ASSUME ProbeInv, Count,
           issued' = [g \in DOMAIN issued |->
                         IF g \in Running THEN issued[g] + 1 ELSE issued[g]]
    PROVE  /\ DOMAIN counted' = DOMAIN Computed /\ DOMAIN issued' = DOMAIN Computed
           /\ TellsApart => counted' = issued'
<1>1. DOMAIN counted' = DOMAIN Computed /\ DOMAIN issued' = DOMAIN Computed
    BY DEF ProbeInv, Count
<1>2. ASSUME TellsApart PROVE counted' = issued'
    <2>1. Running = ToSet(client) /\ counted = issued
        BY <1>2, RunningArePassed DEF ProbeInv
    <2> QED
        BY <2>1 DEF Count
<1> QED
    BY <1>1, <1>2

\* A step that starts and ends no resolver leaves the probes alone.
LEMMA ProbesStayOpen ==
    ASSUME ProbeInv, UNCHANGED <<setting, client, saved>>, at' \in [FieldNames -> Stages],
           \A f \in DOMAIN Computed : at'[f] = "running" <=> at[f] = "running",
           DOMAIN counted' = DOMAIN Computed, DOMAIN issued' = DOMAIN Computed,
           TellsApart => counted' = issued'
    PROVE  ProbeInv'
<1>1. ~ setting.async => OneAtATime'
    BY DEF ProbeInv, OneAtATime
<1>2. setting.backend = "sqlalchemy" => Listening'
    BY DEF ProbeInv, Listening
<1> QED
    BY <1>1, <1>2 DEF ProbeInv, TellsApart

LEMMA AccessKeepsProbes ==
    ASSUME ProbeInv, NEW f \in DOMAIN RelationFields, RecordRelationAccess(f)
    PROVE  ProbeInv'
<1>1. /\ at' = [at EXCEPT ![f] = "ended"] /\ f \in FieldNames /\ f \notin DOMAIN Computed
      /\ UNCHANGED <<setting, client, saved>>
    BY LazyAssumption DEF RecordRelationAccess, FieldNames
<1>2. /\ at' \in [FieldNames -> Stages]
      /\ \A g \in DOMAIN Computed : at'[g] = at[g]
    BY <1>1 DEF ProbeInv, Stages, FieldNames
<1>3. /\ DOMAIN counted' = DOMAIN Computed /\ DOMAIN issued' = DOMAIN Computed
      /\ TellsApart => counted' = issued'
    <2>1. CASE UNCHANGED <<counted, issued>>
        BY <2>1 DEF ProbeInv
    <2>2. CASE ~ UNCHANGED <<counted, issued>>
        BY <2>2, StatementsCountAlike DEF RecordRelationAccess
    <2> QED
        BY <2>1, <2>2
<1> QED
    BY <1>1, <1>2, <1>3, ProbesStayOpen

LEMMA StatementKeepsProbes ==
    ASSUME ProbeInv, NEW f \in DOMAIN Computed, Statement(f)
    PROVE  ProbeInv'
<1>1. /\ UNCHANGED <<setting, at, client, saved>> /\ Count
      /\ issued' = [g \in DOMAIN issued |->
                       IF g \in Running THEN issued[g] + 1 ELSE issued[g]]
    BY DEF Statement
<1>2. at' \in [FieldNames -> Stages]
    BY <1>1 DEF ProbeInv
<1> QED
    BY <1>1, <1>2, StatementsCountAlike, ProbesStayOpen

\* A probe opens around a client that no probe of the same resolver is on.
LEMMA StartKeepsProbes ==
    ASSUME ProbeInv, NEW f \in DOMAIN Computed, StartProbed(f)
    PROVE  ProbeInv'
<1>1. /\ at[f] = "waiting" /\ (setting.async \/ Running = {}) /\ f \in FieldNames
      /\ at' = [at EXCEPT ![f] = "running"]
      /\ saved' = [saved EXCEPT ![f] = client]
      /\ client' = Append(client, f)
      /\ UNCHANGED <<setting, counted, issued>>
    BY DEF StartProbed, MayRun, Opened, FieldNames
<1>2. /\ at' \in [FieldNames -> Stages] /\ at'[f] = "running"
      /\ \A g \in DOMAIN Computed : g # f => at'[g] = at[g]
    BY <1>1 DEF ProbeInv, Stages, FieldNames
<1>3. DOMAIN saved' = DOMAIN Computed /\ saved'[f] = client
    BY <1>1 DEF ProbeInv
<1>4. ASSUME ~ setting.async PROVE OneAtATime'
    <2>1. \A g \in DOMAIN Computed : at[g] # "running"
        BY <1>1, <1>4 DEF Running
    <2>2. client = <<>>
        BY <1>4, <2>1 DEF ProbeInv, OneAtATime
    <2>3. client' = <<f>> /\ saved'[f] = <<>>
        BY <1>1, <1>3, <2>2
    <2>4. \A g \in DOMAIN Computed : at'[g] = "running" <=> g = f
        BY <1>2, <2>1
    <2> QED
        BY <2>3, <2>4 DEF OneAtATime
<1>5. ASSUME setting.backend = "sqlalchemy" PROVE Listening'
    <2>1. Listening
        BY <1>5 DEF ProbeInv
    <2>2. client \in Seq(DOMAIN Computed) /\ ~ Passes(client, f)
        BY <1>1, <2>1 DEF Listening
    <2> DEFINE n == Len(client)
    <2>3. /\ client' \in Seq(DOMAIN Computed) /\ Len(client') = n + 1 /\ n \in Nat
          /\ client'[n + 1] = f
          /\ \A i \in 1 .. n : client'[i] = client[i]
        BY <1>1, <2>2
    <2>4. \A g : Passes(client, g)' <=> Passes(client, g) \/ g = f
        BY <2>3 DEF Passes
    <2>5. OnceEach(client)'
        BY <2>1, <2>2, <2>3 DEF Listening, OnceEach, Passes
    <2> QED
        BY <1>2, <2>1, <2>3, <2>4, <2>5 DEF Listening
<1> QED
    BY <1>1, <1>2, <1>3, <1>4, <1>5 DEF ProbeInv, TellsApart

\* What is left of a sequence when one element is taken out, place by place.
LEMMA RemovedAt ==
    ASSUME NEW S, NEW c \in Seq(S), NEW k \in 1 .. Len(c)
    PROVE  /\ RemoveAt(c, k) \in Seq(S) /\ Len(RemoveAt(c, k)) = Len(c) - 1
           /\ \A i \in 1 .. Len(c) - 1 :
                 RemoveAt(c, k)[i] = IF i < k THEN c[i] ELSE c[i + 1]
<1> DEFINE d == RemoveAt(c, k)
           n == Len(c)
<1> DEFINE a == SubSeq(c, 1, k - 1)
           b == SubSeq(c, k + 1, n)
<1>1. n \in Nat /\ k \in Nat /\ 1 <= k /\ k <= n
    OBVIOUS
<1>2. /\ a \in Seq(S) /\ Len(a) = k - 1
      /\ \A i \in 1 .. k - 1 : a[i] = c[i]
    BY <1>1
<1>3. /\ b \in Seq(S) /\ Len(b) = n - k
      /\ \A i \in 1 .. n - k : b[i] = c[k + i]
    BY <1>1
<1>0. d = a \o b
    BY DEF RemoveAt
<1> HIDE DEF a, b, d, n
<1>4. d \in Seq(S) /\ Len(d) = n - 1
    <2>1. d \in Seq(S) /\ Len(d) = Len(a) + Len(b)
        BY <1>0, <1>2, <1>3
    <2>2. Len(a) + Len(b) = n - 1
        BY <1>1, <1>2, <1>3
    <2> QED
        BY <2>1, <2>2
<1>5. \A i \in 1 .. n - 1 : d[i] = IF i < k THEN c[i] ELSE c[i + 1]
    <2> TAKE i \in 1 .. n - 1
    <2>1. i \in 1 .. Len(a) + Len(b) /\ i \in Nat
        BY <1>1, <1>2, <1>3
    <2>2. d[i] = IF i <= Len(a) THEN a[i] ELSE b[i - Len(a)]
        <3>1. a \in Seq(S) /\ b \in Seq(S)
            BY <1>2, <1>3
        <3> QED
            BY <1>0, <2>1, <3>1, SMTT(60)
    <2>3. CASE i < k
        BY <1>1, <1>2, <2>2, <2>3
    <2>4. CASE ~ i < k
        <3>1. i - (k - 1) \in 1 .. n - k /\ k + (i - (k - 1)) = i + 1
            BY <1>1, <2>4
        <3>2. b[i - (k - 1)] = c[i + 1]
            BY <1>3, <3>1
        <3> QED
            BY <1>1, <1>2, <2>2, <2>4, <3>2
    <2> QED
        BY <2>3, <2>4
<1> QED
    BY <1>4, <1>5 DEF d, n

\* And which elements these are.
LEMMA TakenOut ==
    ASSUME NEW S, NEW c \in Seq(S), NEW k \in 1 .. Len(c), OnceEach(c)
    PROVE  /\ RemoveAt(c, k) \in Seq(S)
           /\ OnceEach(RemoveAt(c, k))
           /\ \A g : Passes(RemoveAt(c, k), g) <=> Passes(c, g) /\ g # c[k]
<1> DEFINE d == RemoveAt(c, k)
           n == Len(c)
<1>1. n \in Nat /\ k \in Nat /\ 1 <= k /\ k <= n
    OBVIOUS
<1>4. d \in Seq(S) /\ Len(d) = n - 1
    BY RemovedAt
<1>5. \A i \in 1 .. n - 1 : d[i] = IF i < k THEN c[i] ELSE c[i + 1]
    BY RemovedAt
<1> HIDE DEF d, n
<1>6. OnceEach(d)
    BY <1>1, <1>4, <1>5 DEF OnceEach, n
<1>7. ASSUME NEW g, Passes(d, g) PROVE Passes(c, g) /\ g # c[k]
    BY <1>1, <1>4, <1>5, <1>7 DEF OnceEach, Passes, n
<1>8. ASSUME NEW g, Passes(c, g), g # c[k] PROVE Passes(d, g)
    <2>1. PICK i \in 1 .. n : c[i] = g
        BY <1>8 DEF Passes, n
    <2>2. CASE i < k
        <3>1. i \in 1 .. n - 1 /\ d[i] = g
            BY <1>1, <1>5, <2>1, <2>2 DEF n
        <3> QED
            BY <1>4, <3>1 DEF Passes
    <2>3. CASE ~ i < k
        <3>1. i > k
            BY <1>1, <1>8, <2>1, <2>3 DEF n
        <3>2. i - 1 \in 1 .. n - 1 /\ d[i - 1] = g
            BY <1>1, <1>5, <2>1, <3>1 DEF n
        <3> QED
            BY <1>4, <3>2 DEF Passes
    <2> QED
        BY <2>2, <2>3
<1> QED
    BY <1>4, <1>6, <1>7, <1>8 DEF d

\* A resolver that ends takes its own probe away, and no other.
LEMMA EndKeepsProbes ==
    ASSUME ProbeInv, NEW f \in DOMAIN Computed, at[f] = "running",
           at' \in [FieldNames -> Stages], at'[f] # "running",
           \A g \in DOMAIN Computed : g # f => at'[g] = at[g],
           client' = Closed(f),
           UNCHANGED <<setting, saved, counted, issued>>
    PROVE  ProbeInv'
<1>1. ASSUME setting.backend = "sqlalchemy" PROVE Listening'
    <2>1. Listening
        BY <1>1 DEF ProbeInv
    <2> DEFINE k == CHOOSE i \in DOMAIN client : client[i] = f
    <2>2. k \in 1 .. Len(client) /\ client[k] = f
        BY <2>1 DEF Listening, Passes
    <2>3. client' = RemoveAt(client, k)
        BY <1>1 DEF Closed
    <2> HIDE DEF k
    <2>4. /\ client' \in Seq(DOMAIN Computed) /\ OnceEach(client')
          /\ \A g : Passes(client', g) <=> Passes(client, g) /\ g # f
        BY <2>1, <2>2, <2>3, TakenOut DEF Listening
    <2> QED
        BY <2>1, <2>4 DEF Listening
<1>2. ASSUME ~ setting.async PROVE OneAtATime'
    <2>1. /\ \A g \in DOMAIN Computed : at[g] = "running" <=> g = f
          /\ client = <<f>> /\ saved[f] = <<>>
        BY <1>2 DEF ProbeInv, OneAtATime
    <2>2. \A g \in DOMAIN Computed : at'[g] # "running"
        BY <2>1
    <2>3. client' = <<>>
        <3>1. setting.backend \in {"sqlalchemy", "django", "tortoise"}
            BY SettingsAssumption DEF ProbeInv
        <3>2. CASE setting.backend = "sqlalchemy"
            <4>1. client' \in Seq(DOMAIN Computed) /\ \A g \in DOMAIN Computed : ~ Passes(client', g)
                BY <1>1, <2>2, <3>2 DEF Listening
            <4>2. Len(client') = 0
                BY <4>1 DEF Passes
            <4> QED
                BY <4>1, <4>2
        <3>3. CASE setting.backend = "django"
            BY <2>1, <3>3 DEF Closed, Front
        <3>4. CASE setting.backend = "tortoise"
            BY <2>1, <3>4 DEF Closed
        <3> QED
            BY <3>1, <3>2, <3>3, <3>4
    <2> QED
        BY <2>2, <2>3 DEF OneAtATime
<1> QED
    BY <1>1, <1>2 DEF ProbeInv, TellsApart

LEMMA NextKeepsProbes == ProbeInv /\ [LazyNext]_lazyVars => ProbeInv'
<1> SUFFICES ASSUME ProbeInv, [LazyNext]_lazyVars PROVE ProbeInv'
    OBVIOUS
<1>1. CASE \E f \in DOMAIN RelationFields : RecordRelationAccess(f)
    BY <1>1, AccessKeepsProbes
<1>2. CASE \E f \in DOMAIN Computed : StartProbed(f) \/ Statement(f)
    BY <1>2, StartKeepsProbes, StatementKeepsProbes
<1>3. CASE \E f \in DOMAIN Computed : RecordResolverQueries(f) \/ ResolverRaises(f)
    <2>1. PICK f \in DOMAIN Computed : RecordResolverQueries(f) \/ ResolverRaises(f)
        BY <1>3
    <2>2. /\ at[f] = "running" /\ f \in FieldNames /\ client' = Closed(f)
          /\ \E e \in {"ended", "raised"} : at' = [at EXCEPT ![f] = e]
          /\ UNCHANGED <<setting, saved, counted, issued>>
        BY <2>1 DEF RecordResolverQueries, ResolverRaises, FieldNames
    <2>3. /\ at' \in [FieldNames -> Stages] /\ at'[f] # "running"
          /\ \A g \in DOMAIN Computed : g # f => at'[g] = at[g]
        BY <2>2 DEF ProbeInv, Stages, FieldNames
    <2> QED
        BY <2>2, <2>3, EndKeepsProbes
<1>4. CASE FlushLoads \/ UNCHANGED lazyVars
    <2>1. UNCHANGED <<setting, at, client, saved, counted, issued>>
        BY <1>4 DEF FlushLoads, lazyVars
    <2>2. /\ at' \in [FieldNames -> Stages]
          /\ DOMAIN counted' = DOMAIN Computed /\ DOMAIN issued' = DOMAIN Computed
          /\ TellsApart => counted' = issued'
        BY <2>1 DEF ProbeInv
    <2> QED
        BY <2>1, <2>2, ProbesStayOpen
<1> QED
    BY <1>1, <1>2, <1>3, <1>4 DEF LazyNext

LEMMA InitProbes == LazyInit => ProbeInv
<1> SUFFICES ASSUME LazyInit PROVE ProbeInv
    OBVIOUS
<1>1. /\ at = [f \in FieldNames |-> "waiting"] /\ client = <<>>
      /\ saved = [f \in DOMAIN Computed |-> <<>>]
      /\ counted = [f \in DOMAIN Computed |-> 0] /\ issued = [f \in DOMAIN Computed |-> 0]
      /\ setting \in Settings
    BY DEF LazyInit
<1>2. \A f \in DOMAIN Computed : at[f] # "running"
    BY <1>1 DEF FieldNames
<1>3. OneAtATime
    BY <1>1, <1>2 DEF OneAtATime
<1>4. client \in Seq(DOMAIN Computed) /\ OnceEach(client) /\ \A f : ~ Passes(client, f)
    BY <1>1 DEF OnceEach, Passes
<1>5. Listening
    BY <1>2, <1>4 DEF Listening
<1> QED
    BY <1>1, <1>3, <1>5 DEF ProbeInv, Stages

\* Every probe counts the statements issued while its resolver runs and no
\* other, and none is left when no resolver runs: on SQLAlchemy, and on every
\* backend whose resolvers are not awaited.
THEOREM ProbesCountTheirOwn == LazySpec => []ProbesCountTheirResolver
<1>1. ProbeInv => ProbesCountTheirResolver
    <2> SUFFICES ASSUME ProbeInv, TellsApart
                 PROVE  counted = issued /\ (Running = {} => client = <<>>)
        BY DEF ProbesCountTheirResolver, TellsApart
    <2>1. counted = issued
        BY DEF ProbeInv
    <2>2. ASSUME Running = {} PROVE client = <<>>
        <3>1. CASE setting.backend = "sqlalchemy"
            <4>1. client \in Seq(DOMAIN Computed) /\ ToSet(client) = {}
                BY <2>2, <3>1, RunningArePassed DEF ProbeInv, Listening
            <4>2. Len(client) = 0
                BY <4>1 DEF ToSet
            <4> QED
                BY <4>1, <4>2
        <3>2. CASE ~ setting.async
            BY <2>2, <3>2 DEF ProbeInv, OneAtATime, Running
        <3> QED
            BY <3>1, <3>2 DEF TellsApart
    <2> QED
        BY <2>1, <2>2
<1> QED
    BY InitProbes, NextKeepsProbes, <1>1, PTL DEF LazySpec

-----------------------------------------------------------------------------
(* Induction, over sets.                                                   *)

LEMMA LeastElement ==
  ASSUME NEW T, T \subseteq Nat, T # {}
  PROVE  \E n \in T : \A m \in T : ~ m < n
<1> DEFINE R == OpToRel(<, Nat)
<1>1. IsWellFoundedOn(R, Nat)
  BY NatLessThanWellFounded
<1>2. \A m, n \in Nat : m < n => <<m, n>> \in R
  BY DEF OpToRel
<1> HIDE DEF R
<1>3. \E n \in T : \A m \in T : ~ (<<m, n>> \in R)
  BY <1>1, WFMin
<1> QED BY <1>2, <1>3

\* Induction, for the set of the numbers that have a property.
LEMMA SetInduction ==
  ASSUME NEW S, 0 \in S, \A n \in Nat : n \in S => n + 1 \in S
  PROVE  \A n \in Nat : n \in S
<1> SUFFICES ASSUME NEW k \in Nat, k \notin S PROVE FALSE
  OBVIOUS
<1> DEFINE T == {n \in Nat : n \notin S}
<1>1. PICK n \in T : \A m \in T : ~ m < n
  BY LeastElement
<1>2. n # 0 /\ n - 1 \in Nat
  BY <1>1
<1>3. n - 1 \in S
  BY <1>1, <1>2
<1>4. n - 1 + 1 = n
  BY <1>1
<1> QED BY <1>1, <1>2, <1>3, <1>4

\* And for the family of the subsets of a finite set that have one.
LEMMA SubsetInduction ==
  ASSUME NEW S, IsFiniteSet(S), NEW F, {} \in F,
         \A T \in SUBSET S : \A x \in S \ T : T \in F => T \cup {x} \in F
  PROVE  \A T \in SUBSET S : T \in F
<1> DEFINE G == {n \in Nat : \A T \in SUBSET S : Cardinality(T) = n => T \in F}
<1>1. \A T \in SUBSET S : IsFiniteSet(T) /\ Cardinality(T) \in Nat
  BY FS_Subset, FS_CardinalityType
<1>2. 0 \in G
  BY <1>1, FS_EmptySet
<1>3. ASSUME NEW n \in Nat, n \in G PROVE n + 1 \in G
  <2> SUFFICES ASSUME NEW T \in SUBSET S, Cardinality(T) = n + 1 PROVE T \in F
    OBVIOUS
  <2>1. PICK x : x \in T
    BY <1>1, FS_EmptySet
  <2>6. Cardinality(T \ {x}) = Cardinality(T) - 1
    BY <1>1, <2>1, FS_RemoveElement
  <2>2. T \ {x} \in SUBSET S /\ Cardinality(T \ {x}) = n
    BY <2>6
  <2>3. T \ {x} \in F
    BY <1>3, <2>2
  <2>4. (T \ {x}) \cup {x} \in F
    BY <2>1, <2>2, <2>3
  <2>5. (T \ {x}) \cup {x} = T
    BY <2>1
  <2> QED BY <2>4, <2>5
<1> HIDE DEF G
<1>4. \A n \in Nat : n \in G
  BY <1>2, <1>3, SetInduction
<1> QED BY <1>1, <1>4 DEF G

-----------------------------------------------------------------------------
(* Sums.                                                                   *)

SumStep(f, s, h) ==
  IF s = {} THEN 0
  ELSE f[CHOOSE x \in s : TRUE] + h[s \ {CHOOSE x \in s : TRUE}]
Sums(h, f, S) == h = [s \in SUBSET S |-> SumStep(f, s, h)]

\* h sums f over the subsets of S of at most n members.
UpTo(S, n) == {s \in SUBSET S : Cardinality(s) <= n}
SumsUpTo(h, f, S, n) == h = [s \in UpTo(S, n) |-> SumStep(f, s, h)]

LEMMA SumsExist ==
  ASSUME NEW f, NEW S, IsFiniteSet(S)
  PROVE  \E h : Sums(h, f, S)
<1> DEFINE G == {n \in Nat : \E h : SumsUpTo(h, f, S, n)}
<1>1. \A T \in SUBSET S : /\ IsFiniteSet(T) /\ Cardinality(T) \in Nat
                          /\ Cardinality(T) <= Cardinality(S)
  BY FS_Subset, FS_CardinalityType
<1>7. ASSUME NEW T \in SUBSET S, T # {}
      PROVE  Cardinality(T \ {CHOOSE x \in T : TRUE}) = Cardinality(T) - 1
  <2>1. (CHOOSE x \in T : TRUE) \in T
    BY <1>7
  <2> QED BY <1>1, <2>1, FS_RemoveElement
<1>2. 0 \in G
  <2> DEFINE h == [s \in UpTo(S, 0) |-> 0]
  <2>1. \A s \in UpTo(S, 0) : s = {}
    BY <1>1, FS_EmptySet DEF UpTo
  <2>2. \A s \in UpTo(S, 0) : SumStep(f, s, h) = 0
    BY <2>1 DEF SumStep
  <2>3. SumsUpTo(h, f, S, 0)
    BY <2>2 DEF SumsUpTo
  <2> QED BY <2>3
<1>3. ASSUME NEW n \in Nat, n \in G PROVE n + 1 \in G
  <2>1. PICK h : SumsUpTo(h, f, S, n)
    BY <1>3
  <2> DEFINE k == [s \in UpTo(S, n + 1) |-> SumStep(f, s, h)]
  <2>2. ASSUME NEW s \in UpTo(S, n + 1) PROVE SumStep(f, s, k) = SumStep(f, s, h)
    <3>1. CASE s = {}
      BY <3>1 DEF SumStep
    <3>2. CASE s # {}
      <4> DEFINE t == s \ {CHOOSE x \in s : TRUE}
      <4>0. s \in SUBSET S /\ Cardinality(s) <= n + 1
        BY DEF UpTo
      <4>1. t \in UpTo(S, n) /\ t \in UpTo(S, n + 1)
        BY <1>1, <1>7, <3>2, <4>0 DEF UpTo
      <4>2. h[t] = SumStep(f, t, h)
        BY <2>1, <4>1 DEF SumsUpTo
      <4>3. k[t] = h[t]
        BY <4>1, <4>2
      <4> HIDE DEF k
      <4> QED BY <3>2, <4>3 DEF SumStep
    <3> QED BY <3>1, <3>2
  <2>3. SumsUpTo(k, f, S, n + 1)
    BY <2>2 DEF SumsUpTo
  <2> HIDE DEF k
  <2> QED BY <2>3
<1>4. \A n \in Nat : n \in G
  <2> HIDE DEF G
  <2> QED BY <1>2, <1>3, SetInduction
<1>5. UpTo(S, Cardinality(S)) = SUBSET S
  BY <1>1 DEF UpTo
<1>6. PICK h : SumsUpTo(h, f, S, Cardinality(S))
  BY <1>1, <1>4
<1> QED BY <1>5, <1>6 DEF Sums, SumsUpTo

LEMMA SumIsOne ==
  ASSUME NEW f, NEW S, IsFiniteSet(S)
  PROVE  \E h : Sums(h, f, S) /\ SumFunctionOnSet(f, S) = h[S]
<1> DEFINE h == CHOOSE h : Sums(h, f, S)
<1>1. Sums(h, f, S)
  BY SumsExist
<1>2. SumFunctionOnSet(f, S) = h[S]
  BY DEF SumFunctionOnSet, FoldFunctionOnSet, MapThenFoldSet, Sums, SumStep
<1> HIDE DEF h
<1> QED BY <1>1, <1>2
\* The recursion of a sum does not depend on the set it started from.
LEMMA SumAgree ==
  ASSUME NEW f, NEW S, IsFiniteSet(S), NEW T \in SUBSET S,
         NEW h, Sums(h, f, S), NEW k, Sums(k, f, T)
  PROVE  \A X \in SUBSET T : h[X] = k[X]
<1> DEFINE G == {n \in Nat : \A X \in SUBSET T : Cardinality(X) = n => h[X] = k[X]}
<1>1. \A X \in SUBSET T : X \in SUBSET S /\ IsFiniteSet(X) /\ Cardinality(X) \in Nat
  BY FS_Subset, FS_CardinalityType
<1>2. \A X \in SUBSET T : h[X] = SumStep(f, X, h) /\ k[X] = SumStep(f, X, k)
  BY <1>1 DEF Sums
<1>3. 0 \in G
  BY <1>1, <1>2, FS_EmptySet DEF SumStep
<1>4. ASSUME NEW n \in Nat, n \in G PROVE n + 1 \in G
  <2> SUFFICES ASSUME NEW X \in SUBSET T, Cardinality(X) = n + 1 PROVE h[X] = k[X]
    OBVIOUS
  <2> DEFINE c == CHOOSE x \in X : TRUE
  <2>1. X # {}
    BY FS_EmptySet
  <2>2. c \in X
    BY <2>1
  <2>3. Cardinality(X \ {c}) = Cardinality(X) - 1
    BY <1>1, <2>2, FS_RemoveElement
  <2>4. X \ {c} \in SUBSET T /\ Cardinality(X \ {c}) = n
    BY <2>3
  <2>5. h[X \ {c}] = k[X \ {c}]
    BY <1>4, <2>4
  <2> QED BY <1>2, <2>1, <2>5 DEF SumStep
<1> HIDE DEF G
<1>5. \A n \in Nat : n \in G
  BY <1>3, <1>4, SetInduction
<1> QED BY <1>1, <1>5 DEF G

LEMMA SumEmpty ==
  ASSUME NEW f
  PROVE  SumFunctionOnSet(f, {}) = 0
<1>1. PICK h : Sums(h, f, {}) /\ SumFunctionOnSet(f, {}) = h[{}]
  BY SumIsOne, FS_EmptySet
<1> QED BY <1>1 DEF Sums, SumStep

LEMMA SumUnfolds ==
  ASSUME NEW f, NEW S, IsFiniteSet(S), S # {}
  PROVE  LET c == CHOOSE x \in S : TRUE
         IN  SumFunctionOnSet(f, S) = f[c] + SumFunctionOnSet(f, S \ {c})
<1> DEFINE c == CHOOSE x \in S : TRUE
           T == S \ {c}
<1>1. PICK h : Sums(h, f, S) /\ SumFunctionOnSet(f, S) = h[S]
  BY SumIsOne
<1>2. IsFiniteSet(T) /\ T \in SUBSET S
  BY FS_Subset
<1>3. PICK k : Sums(k, f, T) /\ SumFunctionOnSet(f, T) = k[T]
  BY <1>2, SumIsOne
<1>4. h[T] = k[T]
  BY <1>1, <1>2, <1>3, SumAgree
<1>5. h[S] = f[c] + h[T]
  BY <1>1 DEF Sums, SumStep
<1> HIDE DEF T, c
<1> QED BY <1>1, <1>3, <1>4, <1>5 DEF T, c

\* The members of a finite set can be added in any order.
LEMMA SumAny ==
  ASSUME NEW f, NEW S, IsFiniteSet(S), \A x \in S : f[x] \in Nat
  PROVE  /\ SumFunctionOnSet(f, S) \in Nat
         /\ \A x \in S : SumFunctionOnSet(f, S) = f[x] + SumFunctionOnSet(f, S \ {x})
<1> DEFINE Sum(X) == SumFunctionOnSet(f, X)
           Fine(X) == Sum(X) \in Nat /\ \A x \in X : Sum(X) = f[x] + Sum(X \ {x})
           G == {n \in Nat : \A X \in SUBSET S : Cardinality(X) <= n => Fine(X)}
<1>1. \A X \in SUBSET S : IsFiniteSet(X) /\ Cardinality(X) \in Nat
  BY FS_Subset, FS_CardinalityType
<1>2. 0 \in G
  BY <1>1, FS_EmptySet, SumEmpty
<1>3. ASSUME NEW n \in Nat, n \in G PROVE n + 1 \in G
  <2> SUFFICES ASSUME NEW X \in SUBSET S, Cardinality(X) = n + 1 PROVE Fine(X)
    BY <1>1, <1>3
  <2>0. \A x \in X : \A Y \in SUBSET (X \ {x}) : Y \in SUBSET S /\ Cardinality(Y) <= n
    <3> TAKE x \in X
    <3>1. Cardinality(X \ {x}) = Cardinality(X) - 1 /\ IsFiniteSet(X \ {x})
      BY <1>1, FS_RemoveElement
    <3>2. \A Y \in SUBSET (X \ {x}) : Cardinality(Y) <= Cardinality(X \ {x})
      BY <3>1, FS_Subset
    <3> QED BY <1>1, <3>1, <3>2
  <2>1. X # {}
    BY FS_EmptySet
  <2>2. PICK c \in X : Sum(X) = f[c] + Sum(X \ {c})
    <3> DEFINE c == CHOOSE x \in X : TRUE
    <3>1. c \in X
      BY <2>1
    <3>2. Sum(X) = f[c] + Sum(X \ {c})
      BY <1>1, <2>1, SumUnfolds
    <3> HIDE DEF c, Sum
    <3> QED BY <3>1, <3>2
  <2> HIDE DEF Sum
  <2>3. \A x \in X : Fine(X \ {x})
    BY <1>3, <2>0
  <2>6. \A x, y \in X : Fine((X \ {x}) \ {y})
    <3> TAKE x, y \in X
    <3>1. (X \ {x}) \ {y} \in SUBSET (X \ {x})
      OBVIOUS
    <3> QED BY <1>3, <2>0, <3>1
  <2>4. Sum(X) \in Nat
    BY <2>2, <2>3
  <2>5. ASSUME NEW x \in X, x # c PROVE Sum(X) = f[x] + Sum(X \ {x})
    <3>1. Sum(X \ {c}) = f[x] + Sum((X \ {c}) \ {x})
      BY <2>3, <2>5
    <3>2. Sum(X \ {x}) = f[c] + Sum((X \ {x}) \ {c})
      BY <2>3, <2>5
    <3>3. (X \ {c}) \ {x} = (X \ {x}) \ {c}
      OBVIOUS
    <3>4. Sum((X \ {c}) \ {x}) \in Nat /\ f[x] \in Nat /\ f[c] \in Nat
      BY <2>5, <2>6
    <3>5. Sum(X \ {x}) = f[c] + Sum((X \ {c}) \ {x})
      BY <3>2, <3>3
    <3> QED BY <2>2, <3>1, <3>4, <3>5
  <2> QED BY <2>2, <2>4, <2>5
<1> HIDE DEF G
<1>4. \A n \in Nat : n \in G
  BY <1>2, <1>3, SetInduction
<1> QED BY <1>1, <1>4 DEF G

LEMMA SumAdd ==
  ASSUME NEW f, NEW S, IsFiniteSet(S), NEW x, x \notin S, \A y \in S \cup {x} : f[y] \in Nat
  PROVE  SumFunctionOnSet(f, S \cup {x}) = f[x] + SumFunctionOnSet(f, S)
<1>1. IsFiniteSet(S \cup {x}) /\ (S \cup {x}) \ {x} = S
  BY FS_AddElement
<1>2. x \in S \cup {x}
  OBVIOUS
<1> QED BY <1>1, <1>2, SumAny

LEMMA SumSingle ==
  ASSUME NEW f, NEW x, f[x] \in Nat
  PROVE  SumFunctionOnSet(f, {x}) = f[x]
<1>1. SumFunctionOnSet(f, {} \cup {x}) = f[x] + SumFunctionOnSet(f, {})
  BY FS_EmptySet, SumAdd
<1> QED BY <1>1, SumEmpty

LEMMA SumSame ==
  ASSUME NEW f, NEW g, NEW S, IsFiniteSet(S), \A x \in S : f[x] \in Nat /\ f[x] = g[x]
  PROVE  SumFunctionOnSet(f, S) = SumFunctionOnSet(g, S)
<1> DEFINE F == {T \in SUBSET S : SumFunctionOnSet(f, T) = SumFunctionOnSet(g, T)}
<1>1. {} \in F
  BY SumEmpty
<1>2. ASSUME NEW T \in SUBSET S, NEW x \in S \ T, T \in F PROVE T \cup {x} \in F
  <2>1. IsFiniteSet(T)
    BY FS_Subset
  <2>2. SumFunctionOnSet(f, T \cup {x}) = f[x] + SumFunctionOnSet(f, T)
    BY <2>1, SumAdd
  <2>3. SumFunctionOnSet(g, T \cup {x}) = g[x] + SumFunctionOnSet(g, T)
    BY <2>1, SumAdd
  <2> QED BY <1>2, <2>2, <2>3
<1> HIDE DEF F
<1>3. \A T \in SUBSET S : T \in F
  BY <1>1, <1>2, SubsetInduction
<1> QED BY <1>3 DEF F

LEMMA SumUnion ==
  ASSUME NEW f, NEW A, NEW B, IsFiniteSet(A), IsFiniteSet(B), A \cap B = {},
         \A x \in A \cup B : f[x] \in Nat
  PROVE  SumFunctionOnSet(f, A \cup B) = SumFunctionOnSet(f, A) + SumFunctionOnSet(f, B)
<1> DEFINE Sum(X) == SumFunctionOnSet(f, X)
           F == {T \in SUBSET B : Sum(A \cup T) = Sum(A) + Sum(T)}
<1>1. \A T \in SUBSET B : IsFiniteSet(T) /\ IsFiniteSet(A \cup T)
  BY FS_Subset, FS_Union
<1>2. \A T \in SUBSET B : Sum(T) \in Nat /\ Sum(A \cup T) \in Nat
  BY <1>1, SumAny
<1>3. Sum(A) \in Nat
  BY SumAny
<1>4. {} \in F
  BY <1>3, SumEmpty
<1>5. ASSUME NEW T \in SUBSET B, NEW x \in B \ T, T \in F PROVE T \cup {x} \in F
  <2>1. Sum(T \cup {x}) = f[x] + Sum(T)
    BY <1>1, SumAdd
  <2>2. Sum((A \cup T) \cup {x}) = f[x] + Sum(A \cup T)
    BY <1>1, SumAdd
  <2>3. (A \cup T) \cup {x} = A \cup (T \cup {x}) /\ f[x] \in Nat
    OBVIOUS
  <2>4. Sum(A \cup T) = Sum(A) + Sum(T)
    BY <1>5
  <2>5. T \cup {x} \in SUBSET B
    OBVIOUS
  <2>7. Sum(A) \in Nat /\ Sum(T) \in Nat
    BY <1>2, <1>3
  <2>8. Sum(A \cup (T \cup {x})) = f[x] + Sum(A \cup T)
    BY <2>2, <2>3
  <2> HIDE DEF Sum
  <2>6. Sum(A \cup (T \cup {x})) = Sum(A) + Sum(T \cup {x})
    BY <2>1, <2>3, <2>4, <2>7, <2>8
  <2> QED BY <2>5, <2>6
<1> HIDE DEF F
<1>6. \A T \in SUBSET B : T \in F
  BY <1>4, <1>5, SubsetInduction
<1> QED BY <1>6 DEF F

LEMMA SumOnes ==
  ASSUME NEW f, NEW S, IsFiniteSet(S), \A x \in S : f[x] = 1
  PROVE  SumFunctionOnSet(f, S) = Cardinality(S)
<1> DEFINE F == {T \in SUBSET S : SumFunctionOnSet(f, T) = Cardinality(T)}
<1>1. {} \in F
  BY SumEmpty, FS_EmptySet
<1>2. ASSUME NEW T \in SUBSET S, NEW x \in S \ T, T \in F PROVE T \cup {x} \in F
  <2>1. IsFiniteSet(T) /\ Cardinality(T) \in Nat
    BY FS_Subset, FS_CardinalityType
  <2>2. SumFunctionOnSet(f, T \cup {x}) = f[x] + SumFunctionOnSet(f, T)
    BY <2>1, SumAdd
  <2>3. Cardinality(T \cup {x}) = Cardinality(T) + 1
    BY <2>1, FS_AddElement
  <2> QED BY <1>2, <2>1, <2>2, <2>3
<1> HIDE DEF F
<1>3. \A T \in SUBSET S : T \in F
  BY <1>1, <1>2, SubsetInduction
<1> QED BY <1>3 DEF F

LEMMA SumZeros ==
  ASSUME NEW f, NEW S, IsFiniteSet(S), \A x \in S : f[x] = 0
  PROVE  SumFunctionOnSet(f, S) = 0
<1> DEFINE F == {T \in SUBSET S : SumFunctionOnSet(f, T) = 0}
<1>1. {} \in F
  BY SumEmpty
<1>2. ASSUME NEW T \in SUBSET S, NEW x \in S \ T, T \in F PROVE T \cup {x} \in F
  <2>1. IsFiniteSet(T)
    BY FS_Subset
  <2>2. SumFunctionOnSet(f, T \cup {x}) = f[x] + SumFunctionOnSet(f, T)
    BY <2>1, SumAdd
  <2> QED BY <1>2, <2>2
<1> HIDE DEF F
<1>3. \A T \in SUBSET S : T \in F
  BY <1>1, <1>2, SubsetInduction
<1> QED BY <1>3 DEF F

\* What the parts sum to adds up to the sum of the whole.
PartOf(S, K, k) == {x \in S : K[x] = k}

LEMMA SumParts ==
  ASSUME NEW f, NEW S, IsFiniteSet(S), \A x \in S : f[x] \in Nat,
         NEW P, IsFiniteSet(P), NEW K, \A x \in S : K[x] \in P,
         NEW g, \A k \in P : g[k] = SumFunctionOnSet(f, PartOf(S, K, k))
  PROVE  SumFunctionOnSet(g, P) = SumFunctionOnSet(f, S)
<1> DEFINE In(Q) == {x \in S : K[x] \in Q}
           F == {Q \in SUBSET P : SumFunctionOnSet(g, Q) = SumFunctionOnSet(f, In(Q))}
<1>1. \A Q : IsFiniteSet(In(Q)) /\ In(Q) \in SUBSET S
  BY FS_Subset
<1>2. \A k \in P : In({k}) = PartOf(S, K, k)
  BY DEF PartOf
<1>8. \A Q : SumFunctionOnSet(f, In(Q)) \in Nat
  BY <1>1, SumAny
<1>3. \A k \in P : g[k] = SumFunctionOnSet(f, In({k})) /\ g[k] \in Nat
  <2> TAKE k \in P
  <2>1. g[k] = SumFunctionOnSet(f, In({k}))
    BY <1>2
  <2> HIDE DEF In
  <2> QED BY <1>8, <2>1
<1>4. {} \in F
  <2>1. In({}) = {}
    OBVIOUS
  <2> QED BY <2>1, SumEmpty
<1>5. ASSUME NEW Q \in SUBSET P, NEW k \in P \ Q, Q \in F PROVE Q \cup {k} \in F
  <2>1. In(Q \cup {k}) = In(Q) \cup In({k}) /\ In(Q) \cap In({k}) = {}
    OBVIOUS
  <2> HIDE DEF In
  <2>8. /\ IsFiniteSet(In(Q)) /\ IsFiniteSet(In({k}))
        /\ \A x \in In(Q) \cup In({k}) : f[x] \in Nat
    BY <1>1
  <2>9. SumFunctionOnSet(f, In(Q) \cup In({k})) = SumFunctionOnSet(f, In(Q)) + SumFunctionOnSet(f, In({k}))
    BY <2>1, <2>8, SumUnion
  <2>2. SumFunctionOnSet(f, In(Q \cup {k})) = SumFunctionOnSet(f, In(Q)) + SumFunctionOnSet(f, In({k}))
    BY <2>1, <2>9
  <2>3. IsFiniteSet(Q)
    BY FS_Subset
  <2>4. SumFunctionOnSet(g, Q \cup {k}) = g[k] + SumFunctionOnSet(g, Q)
    BY <1>3, <2>3, SumAdd
  <2>5. SumFunctionOnSet(g, Q) \in Nat
    BY <1>3, <2>3, SumAny
  <2>6. SumFunctionOnSet(g, Q) = SumFunctionOnSet(f, In(Q))
    BY <1>5
  <2>7. SumFunctionOnSet(g, Q \cup {k}) = SumFunctionOnSet(f, In(Q \cup {k}))
    BY <1>3, <2>2, <2>4, <2>5, <2>6
  <2> QED BY <2>7
<1> HIDE DEF F
<1>6. \A Q \in SUBSET P : Q \in F
  BY <1>4, <1>5, SubsetInduction
<1>7. In(P) = S
  OBVIOUS
<1> QED BY <1>6, <1>7 DEF F

\* A sum over the places of a list is one over what the list holds.
LEMMA SumReindex ==
  ASSUME NEW f, NEW S, IsFiniteSet(S), \A x \in S : f[x] \in Nat,
         NEW D, IsFiniteSet(D), NEW q, \A i \in D : q[i] \in S,
         \A i, j \in D : q[i] = q[j] => i = j, \A x \in S : \E i \in D : q[i] = x,
         NEW g, \A i \in D : g[i] = f[q[i]]
  PROVE  SumFunctionOnSet(g, D) = SumFunctionOnSet(f, S)
<1>1. ASSUME NEW x \in S PROVE f[x] = SumFunctionOnSet(g, PartOf(D, q, x))
  <2>1. PICK i \in D : q[i] = x
    OBVIOUS
  <2>2. PartOf(D, q, x) = {i} /\ g[i] = f[x]
    BY <2>1 DEF PartOf
  <2>3. g[i] \in Nat
    BY <2>2
  <2>4. SumFunctionOnSet(g, {i}) = g[i]
    BY <2>3, SumSingle
  <2> QED BY <2>2, <2>4
<1>2. \A i \in D : g[i] \in Nat
  OBVIOUS
<1>3. SumFunctionOnSet(f, S) = SumFunctionOnSet(g, D)
  BY <1>1, <1>2, SumParts
<1> QED BY <1>3
-----------------------------------------------------------------------------
(* Sorting.                                                                *)

Before(S, R, x) == {y \in S : <<y, x>> \in R}
StrictlyOrders(S, R) ==
  /\ \A x \in S : <<x, x>> \notin R
  /\ \A x, y \in S : x # y => <<x, y>> \in R \/ <<y, x>> \in R
  /\ \A x, y, z \in S : <<x, y>> \in R /\ <<y, z>> \in R => <<x, z>> \in R

\* Of two members the earlier one has fewer before it.
LEMMA RankGrows ==
  ASSUME NEW S, IsFiniteSet(S), NEW R, StrictlyOrders(S, R)
  PROVE  /\ \A x \in S : Cardinality(Before(S, R, x)) \in 0 .. Cardinality(S) - 1
         /\ \A x, y \in S : <<x, y>> \in R =>
                Cardinality(Before(S, R, x)) < Cardinality(Before(S, R, y))
<1>1. \A x \in S : Before(S, R, x) \in SUBSET S /\ Before(S, R, x) \in SUBSET (S \ {x})
  BY DEF Before, StrictlyOrders
<1>2. \A x \in S : IsFiniteSet(Before(S, R, x)) /\ Cardinality(Before(S, R, x)) \in Nat
  BY <1>1, FS_Subset, FS_CardinalityType
<1>3. ASSUME NEW x \in S PROVE Cardinality(Before(S, R, x)) \in 0 .. Cardinality(S) - 1
  <2>1. IsFiniteSet(S \ {x}) /\ Cardinality(S \ {x}) = Cardinality(S) - 1
    BY FS_RemoveElement
  <2>2. Cardinality(Before(S, R, x)) <= Cardinality(S \ {x})
    BY <1>1, <2>1, FS_Subset
  <2>3. Cardinality(S) \in Nat
    BY FS_CardinalityType
  <2> QED BY <1>2, <2>1, <2>2, <2>3
<1>4. ASSUME NEW x \in S, NEW y \in S, <<x, y>> \in R
      PROVE  Cardinality(Before(S, R, x)) < Cardinality(Before(S, R, y))
  <2>1. Before(S, R, x) \in SUBSET Before(S, R, y)
    BY <1>4 DEF Before, StrictlyOrders
  <2>2. x \in Before(S, R, y) /\ x \notin Before(S, R, x)
    BY <1>4 DEF Before, StrictlyOrders
  <2>3. Cardinality(Before(S, R, x)) <= Cardinality(Before(S, R, y))
    BY <1>2, <2>1, FS_Subset
  <2>4. Cardinality(Before(S, R, x)) # Cardinality(Before(S, R, y))
    BY <1>2, <2>1, <2>2, FS_Subset
  <2> QED BY <1>2, <2>3, <2>4
<1> QED BY <1>3, <1>4

\* Every place has its member.
LEMMA RankReached ==
  ASSUME NEW S, IsFiniteSet(S), NEW R, StrictlyOrders(S, R)
  PROVE  /\ \A x, y \in S : Cardinality(Before(S, R, x)) = Cardinality(Before(S, R, y)) => x = y
         /\ \A i \in 1 .. Cardinality(S) :
                \E x \in S : Cardinality(Before(S, R, x)) = i - 1
<1> DEFINE n == Cardinality(S)
           rank == [x \in S |-> Cardinality(Before(S, R, x))]
<1>1. n \in Nat
  BY FS_CardinalityType
<1>2. \A x \in S : rank[x] \in 0 .. n - 1
  BY RankGrows
<1>3. ASSUME NEW x \in S, NEW y \in S, rank[x] = rank[y] PROVE x = y
  <2>1. ~ (<<x, y>> \in R) /\ ~ (<<y, x>> \in R)
    <3>1. rank[x] \in Int /\ rank[y] \in Int
      BY <1>1, <1>2
    <3>2. /\ <<x, y>> \in R => rank[x] < rank[y]
          /\ <<y, x>> \in R => rank[y] < rank[x]
      BY RankGrows
    <3> HIDE DEF rank
    <3> QED BY <1>3, <3>1, <3>2
  <2> QED BY <2>1 DEF StrictlyOrders
<1>4. IsFiniteSet(0 .. n - 1) /\ Cardinality(0 .. n - 1) = n
  <2>1. 0 \in Int /\ n - 1 \in Int
    BY <1>1
  <2> QED BY <1>1, <2>1, FS_Interval
<1>5. rank \in Injection(S, 0 .. n - 1)
  BY <1>2, <1>3 DEF Injection, IsInjective
<1>6. rank \in Surjection(S, 0 .. n - 1)
  BY <1>4, <1>5, FS_Injection
<1>7. \A k \in 0 .. n - 1 : \E x \in S : rank[x] = k
  BY <1>6 DEF Surjection
<1>8. \A i \in 1 .. n : i - 1 \in 0 .. n - 1
  BY <1>1
<1> QED BY <1>3, <1>7, <1>8

LEMMA ArrangedIs ==
  ASSUME NEW S, IsFiniteSet(S), NEW R, StrictlyOrders(S, R)
  PROVE  LET q == Arranged(S, R)
             n == Cardinality(S)
         IN  /\ n \in Nat /\ q \in [1 .. n -> S] /\ q \in Seq(S) /\ Len(q) = n
             /\ \A x \in S : \E i \in 1 .. n : q[i] = x
             /\ \A i, j \in 1 .. n : i < j => <<q[i], q[j]>> \in R
             /\ \A i, j \in 1 .. n : q[i] = q[j] => i = j
<1> DEFINE n == Cardinality(S)
           q == Arranged(S, R)
           Rank(x) == Cardinality(Before(S, R, x))
<1>1. n \in Nat
  BY FS_CardinalityType
<1>2. ASSUME NEW i \in 1 .. n PROVE q[i] \in S /\ Rank(q[i]) = i - 1
  <2>1. q[i] = CHOOSE x \in S : Rank(x) = i - 1
    BY DEF Arranged, Before
  <2>2. \E x \in S : Rank(x) = i - 1
    BY RankReached
  <2> QED BY <2>1, <2>2
<1>3. q \in [1 .. n -> S]
  BY <1>2 DEF Arranged
<1>4. \A i, j \in 1 .. n : q[i] = q[j] => i = j
  BY <1>1, <1>2
<1>5. ASSUME NEW x \in S PROVE \E i \in 1 .. n : q[i] = x
  <2>1. Rank(x) \in 0 .. n - 1
    BY RankGrows
  <2>2. PICK i \in 1 .. n : i - 1 = Rank(x)
    <3> HIDE DEF Rank
    <3> QED BY <1>1, <2>1
  <2>3. Rank(q[i]) = Rank(x) /\ q[i] \in S
    BY <1>2, <2>2
  <2>4. q[i] = x
    BY <2>3, RankReached
  <2> QED BY <2>4
<1>6. ASSUME NEW i \in 1 .. n, NEW j \in 1 .. n, i < j PROVE <<q[i], q[j]>> \in R
  <2>1. q[i] # q[j]
    BY <1>4, <1>6
  <2>2. CASE <<q[j], q[i]>> \in R
    <3>1. Rank(q[j]) < Rank(q[i])
      BY <1>2, <2>2, RankGrows
    <3> HIDE DEF q
    <3> QED BY <1>1, <1>2, <1>6, <3>1
  <2> QED BY <1>2, <2>1, <2>2 DEF StrictlyOrders
<1>7. q \in Seq(S) /\ Len(q) = n
  BY <1>1, <1>3
<1> HIDE DEF q, n
<1> QED BY <1>1, <1>3, <1>4, <1>5, <1>6, <1>7 DEF q, n

-----------------------------------------------------------------------------
(* The order of rows.                                                      *)

\* A conflict is decided by the first entry of an order that tells two rows
\* apart, and by their primary keys if none does.
OrderType(order) == order \in Seq([col : Columns \cup {"n"}, desc : BOOLEAN])
SameUpTo(order, r, s, i) ==
  \A j \in 1 .. i - 1 : Worth(r, order[j].col) = Worth(s, order[j].col)
FirstDifference(order, r, s, i) ==
  /\ i \in DOMAIN order /\ SameUpTo(order, r, s, i)
  /\ Worth(r, order[i].col) # Worth(s, order[i].col)

LEMMA WorthType ==
  ASSUME NEW r \in Rows, NEW col \in Columns \cup {"n"}
  PROVE  Worth(r, col) \in Nat
BY TableAssumption DEF Worth

LEMMA OrderWorths ==
  ASSUME NEW order, OrderType(order), NEW r \in Rows
  PROVE  /\ Len(order) \in Nat /\ DOMAIN order = 1 .. Len(order)
         /\ \A i \in DOMAIN order : Worth(r, order[i].col) \in Nat /\ order[i].desc \in BOOLEAN
<1> DEFINE Entries == [col : Columns \cup {"n"}, desc : BOOLEAN]
<1>1. \A i \in DOMAIN order : order[i] \in Entries
  <2>1. order \in Seq(Entries)
    BY DEF OrderType
  <2> HIDE DEF Entries
  <2> QED BY <2>1
<1>2. Len(order) \in Nat /\ DOMAIN order = 1 .. Len(order)
  BY DEF OrderType
<1>3. ASSUME NEW i \in DOMAIN order
      PROVE  Worth(r, order[i].col) \in Nat /\ order[i].desc \in BOOLEAN
  <2>1. order[i].col \in Columns \cup {"n"} /\ order[i].desc \in BOOLEAN
    BY <1>1
  <2> QED BY <2>1, WorthType
<1> QED BY <1>2, <1>3

LEMMA DifferAtOne ==
  ASSUME NEW order, OrderType(order), NEW r \in Rows, NEW s \in Rows
  PROVE  \/ \A i \in DOMAIN order : Worth(r, order[i].col) = Worth(s, order[i].col)
         \/ \E i \in DOMAIN order : FirstDifference(order, r, s, i)
<1> DEFINE T == {i \in DOMAIN order : Worth(r, order[i].col) # Worth(s, order[i].col)}
<1> SUFFICES ASSUME T # {} PROVE \E i \in DOMAIN order : FirstDifference(order, r, s, i)
  OBVIOUS
<1>1. T \subseteq Nat /\ DOMAIN order = 1 .. Len(order) /\ Len(order) \in Nat
  BY OrderWorths
<1>2. PICK i \in T : \A m \in T : ~ m < i
  BY <1>1, LeastElement
<1>3. FirstDifference(order, r, s, i)
  BY <1>1, <1>2 DEF FirstDifference, SameUpTo
<1> QED BY <1>2, <1>3

\* Where two rows first differ decides between them.
LEMMA PrecedesAt ==
  ASSUME NEW order, OrderType(order), NEW r \in Rows, NEW s \in Rows,
         NEW i, FirstDifference(order, r, s, i)
  PROVE  Precedes(order, r, s) <=>
            (order[i].desc = (Worth(r, order[i].col) > Worth(s, order[i].col)))
<1>1. /\ Len(order) \in Nat /\ DOMAIN order = 1 .. Len(order) /\ i \in DOMAIN order
  BY OrderWorths DEF FirstDifference
<1>2. ASSUME NEW k \in DOMAIN order, FirstDifference(order, r, s, k) PROVE k = i
  BY <1>1, <1>2 DEF FirstDifference, SameUpTo
<1>3. ~ (\A k \in DOMAIN order : Worth(r, order[k].col) = Worth(s, order[k].col))
  BY DEF FirstDifference
<1>4. Precedes(order, r, s) <=>
         \E k \in DOMAIN order : /\ FirstDifference(order, r, s, k)
                                 /\ order[k].desc = (Worth(r, order[k].col) > Worth(s, order[k].col))
  BY <1>3 DEF Precedes, FirstDifference, SameUpTo
<1> QED BY <1>1, <1>2, <1>4

\* No entry tells them apart: the primary key does.
LEMMA PrecedesByKey ==
  ASSUME NEW order, NEW r \in Rows, NEW s \in Rows,
         \A i \in DOMAIN order : Worth(r, order[i].col) = Worth(s, order[i].col)
  PROVE  Precedes(order, r, s) <=> r < s
BY DEF Precedes
\* Whatever the order asked for, no two rows are left without an order and no
\* three go round.
LEMMA PrecedesTotal ==
  ASSUME NEW order, OrderType(order), NEW r \in Rows, NEW s \in Rows, r # s
  PROVE  Precedes(order, r, s) <=> ~ Precedes(order, s, r)
<1>1. r \in Nat /\ s \in Nat
  BY TableAssumption
<1>2. CASE \A i \in DOMAIN order : Worth(r, order[i].col) = Worth(s, order[i].col)
  <2>1. (Precedes(order, r, s) <=> r < s) /\ (Precedes(order, s, r) <=> s < r)
    BY <1>2, PrecedesByKey
  <2> QED BY <1>1, <2>1
<1>3. ASSUME NEW i \in DOMAIN order, FirstDifference(order, r, s, i)
      PROVE  Precedes(order, r, s) <=> ~ Precedes(order, s, r)
  <2>1. FirstDifference(order, s, r, i)
    BY <1>3 DEF FirstDifference, SameUpTo
  <2> DEFINE a == Worth(r, order[i].col)
             b == Worth(s, order[i].col)
  <2>2. a \in Nat /\ b \in Nat /\ order[i].desc \in BOOLEAN
    BY OrderWorths
  <2>3. a # b
    BY <1>3 DEF FirstDifference
  <2>4. Precedes(order, r, s) <=> (order[i].desc = (a > b))
    BY <1>3, PrecedesAt
  <2>5. Precedes(order, s, r) <=> (order[i].desc = (b > a))
    BY <2>1, PrecedesAt
  <2> HIDE DEF a, b
  <2>6. (b > a) = ~ (a > b)
    BY <2>2, <2>3
  <2> QED BY <2>2, <2>4, <2>5, <2>6
<1> QED BY <1>2, <1>3, DifferAtOne

LEMMA PrecedesIrreflexive ==
  ASSUME NEW order, NEW r \in Rows
  PROVE  ~ Precedes(order, r, r)
<1>1. r \in Nat
  BY TableAssumption
<1>2. Precedes(order, r, r) <=> r < r
  BY PrecedesByKey
<1> QED BY <1>1, <1>2

LEMMA PrecedesTransitive ==
  ASSUME NEW order, OrderType(order), NEW r \in Rows, NEW s \in Rows, NEW t \in Rows,
         Precedes(order, r, s), Precedes(order, s, t)
  PROVE  Precedes(order, r, t)
<1> DEFINE W(x, i) == Worth(x, order[i].col)
           n == Len(order)
<1>0. n \in Nat /\ DOMAIN order = 1 .. n
  BY OrderWorths
<1>1. \A x \in {r, s, t} : \A i \in 1 .. n : W(x, i) \in Nat
  BY <1>0, OrderWorths
<1>2. \A i \in 1 .. n : order[i].desc \in BOOLEAN
  BY <1>0, OrderWorths
<1>3. CASE \A i \in 1 .. n : W(r, i) = W(s, i)
  <2>1. r < s
    BY <1>0, <1>3, PrecedesByKey
  <2>2. CASE \A i \in 1 .. n : W(s, i) = W(t, i)
    <3>1. s < t
      BY <1>0, <2>2, PrecedesByKey
    <3>2. r < t
      BY <2>1, <3>1, TableAssumption
    <3> QED BY <1>0, <1>3, <2>2, <3>2, PrecedesByKey
  <2>3. ASSUME NEW j \in 1 .. n, FirstDifference(order, s, t, j) PROVE Precedes(order, r, t)
    <3>1. FirstDifference(order, r, t, j)
      BY <1>0, <1>3, <2>3 DEF FirstDifference, SameUpTo
    <3>2. order[j].desc = (W(s, j) > W(t, j))
      BY <2>3, PrecedesAt
    <3>3. order[j].desc = (W(r, j) > W(t, j))
      BY <1>3, <3>2
    <3> QED BY <3>1, <3>3, PrecedesAt
  <2> QED BY <1>0, <2>2, <2>3, DifferAtOne
<1>4. ASSUME NEW i \in 1 .. n, FirstDifference(order, r, s, i) PROVE Precedes(order, r, t)
  <2>1. order[i].desc = (W(r, i) > W(s, i))
    BY <1>4, PrecedesAt
  <2>2. CASE \A j \in 1 .. n : W(s, j) = W(t, j)
    <3>1. FirstDifference(order, r, t, i)
      BY <1>0, <1>4, <2>2 DEF FirstDifference, SameUpTo
    <3>2. order[i].desc = (W(r, i) > W(t, i))
      BY <2>1, <2>2
    <3> QED BY <3>1, <3>2, PrecedesAt
  <2>3. ASSUME NEW j \in 1 .. n, FirstDifference(order, s, t, j) PROVE Precedes(order, r, t)
    <3>1. order[j].desc = (W(s, j) > W(t, j))
      BY <2>3, PrecedesAt
    <3>2. CASE i < j
      <4>1. W(t, i) = W(s, i)
        BY <1>0, <2>3, <3>2 DEF FirstDifference, SameUpTo
      <4>2. FirstDifference(order, r, t, i)
        BY <1>0, <1>4, <2>3, <3>2 DEF FirstDifference, SameUpTo
      <4>3. order[i].desc = (W(r, i) > W(t, i))
        BY <2>1, <4>1
      <4> QED BY <4>2, <4>3, PrecedesAt
    <3>3. CASE j < i
      <4>1. W(r, j) = W(s, j)
        BY <1>0, <1>4, <3>3 DEF FirstDifference, SameUpTo
      <4>2. FirstDifference(order, r, t, j)
        BY <1>0, <1>4, <2>3, <3>3 DEF FirstDifference, SameUpTo
      <4>3. order[j].desc = (W(r, j) > W(t, j))
        BY <3>1, <4>1
      <4> QED BY <4>2, <4>3, PrecedesAt
    <3>4. CASE i = j
      <4> DEFINE a == W(r, i)
                 b == W(s, i)
                 c == W(t, i)
      <4>1. a \in Nat /\ b \in Nat /\ c \in Nat /\ order[i].desc \in BOOLEAN
        BY <1>1, <1>2
      <4>2. a # b /\ b # c
        BY <1>4, <2>3, <3>4 DEF FirstDifference
      <4>3. order[i].desc = (a > b) /\ order[i].desc = (b > c)
        BY <2>1, <3>1, <3>4
      <4>4. SameUpTo(order, r, t, i)
        BY <1>0, <1>4, <2>3, <3>4 DEF FirstDifference, SameUpTo
      <4> HIDE DEF a, b, c
      <4>5. a # c /\ order[i].desc = (a > c)
        <5>1. CASE a > b
          BY <4>1, <4>2, <4>3, <5>1
        <5>2. CASE ~ (a > b)
          BY <4>1, <4>2, <4>3, <5>2
        <5> QED BY <5>1, <5>2
      <4>6. FirstDifference(order, r, t, i)
        BY <1>0, <4>4, <4>5 DEF FirstDifference, a, c
      <4> QED BY <4>5, <4>6, PrecedesAt DEF a, c
    <3> QED BY <1>0, <3>2, <3>3, <3>4
  <2> QED BY <1>0, <2>2, <2>3, DifferAtOne
<1> QED BY <1>0, <1>3, <1>4, DifferAtOne

LEMMA OrderedOrders ==
  ASSUME NEW order, OrderType(order), NEW S \in SUBSET Rows
  PROVE  /\ IsFiniteSet(S) /\ StrictlyOrders(S, Ordered(order))
         /\ \A r, s \in Rows : <<r, s>> \in Ordered(order) <=> Precedes(order, r, s)
<1>1. IsFiniteSet(S)
  BY TableAssumption, FS_Subset
<1>2. \A r, s \in Rows : <<r, s>> \in Ordered(order) <=> Precedes(order, r, s)
  BY DEF Ordered
<1>3. StrictlyOrders(S, Ordered(order))
  <2>1. \A r \in S : <<r, r>> \notin Ordered(order)
    BY <1>2, PrecedesIrreflexive
  <2>2. \A r, s \in S : r # s => <<r, s>> \in Ordered(order) \/ <<s, r>> \in Ordered(order)
    BY <1>2, PrecedesTotal
  <2>3. \A r, s, t \in S : <<r, s>> \in Ordered(order) /\ <<s, t>> \in Ordered(order)
                              => <<r, t>> \in Ordered(order)
    BY <1>2, PrecedesTransitive
  <2> QED BY <2>1, <2>2, <2>3 DEF StrictlyOrders
<1> QED BY <1>1, <1>2, <1>3
-----------------------------------------------------------------------------
(* Group keys.                                                             *)

GroupEntry == [col : Columns, interval : {None, "DAY", "QUARTER", "YEAR"}]

LEMMA NumbersOrder ==
  ASSUME NEW S \in SUBSET Nat, NEW R, R = {p \in S \X S : p[1] < p[2]}
  PROVE  StrictlyOrders(S, R) /\ \A i, j \in S : <<i, j>> \in R <=> i < j
<1>1. \A i, j \in S : <<i, j>> \in R <=> i < j
  OBVIOUS
<1>2. \A i \in S : i \in Nat
  OBVIOUS
<1>3. \A i \in S : <<i, i>> \notin R
  BY <1>1, <1>2
<1>4. \A i, j \in S : i # j => <<i, j>> \in R \/ <<j, i>> \in R
  BY <1>1, <1>2
<1>5. \A i, j, k \in S : <<i, j>> \in R /\ <<j, k>> \in R => <<i, k>> \in R
  <2> TAKE i, j, k \in S
  <2>1. i < j /\ j < k => i < k
    BY <1>2
  <2> QED BY <1>1, <2>1
<1> QED BY <1>1, <1>3, <1>4, <1>5 DEF StrictlyOrders

\* Every column once, and some column if there was any.
LEMMA FirstEntriesAre ==
  ASSUME NEW by \in Seq(GroupEntry)
  PROVE  LET fe == FirstEntries(by)
         IN  /\ fe \in Seq(GroupEntry)
             /\ \A i \in DOMAIN fe : \E k \in DOMAIN by : fe[i] = by[k]
             /\ \A i, j \in DOMAIN fe : fe[i].col = fe[j].col => i = j
             /\ by # <<>> => fe # <<>>
<1> DEFINE first == {i \in DOMAIN by : \A j \in 1 .. i - 1 : by[j].col # by[i].col}
           R == {p \in first \X first : p[1] < p[2]}
           ord == Arranged(first, R)
           n == Cardinality(first)
           fe == [k \in DOMAIN ord |-> by[ord[k]]]
<1>1. Len(by) \in Nat /\ DOMAIN by = 1 .. Len(by) /\ \A i \in DOMAIN by : by[i] \in GroupEntry
  OBVIOUS
<1>2. first \in SUBSET Nat /\ IsFiniteSet(first)
  <2>1. IsFiniteSet(1 .. Len(by))
    BY <1>1, FS_Interval
  <2> QED BY <1>1, <2>1, FS_Subset
<1>3. StrictlyOrders(first, R) /\ \A i, j \in first : <<i, j>> \in R <=> i < j
  BY <1>2, NumbersOrder
<1>4. fe = FirstEntries(by)
  BY DEF FirstEntries
<1>7. by # <<>> => 1 \in first
  BY <1>1
<1>8. \A i, j \in first : by[i].col = by[j].col => ~ i < j
  BY <1>1
<1> HIDE DEF first, R
<1>5. /\ n \in Nat /\ ord \in [1 .. n -> first]
      /\ \A x \in first : \E i \in 1 .. n : ord[i] = x
      /\ \A i, j \in 1 .. n : i < j => <<ord[i], ord[j]>> \in R
  BY <1>2, <1>3, ArrangedIs
<1> HIDE DEF ord, n
<1>6. \A k \in 1 .. n : ord[k] \in first /\ ord[k] \in DOMAIN by
  BY <1>5 DEF first
<1>9. DOMAIN fe = 1 .. n /\ fe \in Seq(GroupEntry)
  BY <1>1, <1>5, <1>6
<1>10. \A i \in DOMAIN fe : \E k \in DOMAIN by : fe[i] = by[k]
  BY <1>5, <1>6
<1>11. \A i, j \in DOMAIN fe : fe[i].col = fe[j].col => i = j
  <2> TAKE i, j \in DOMAIN fe
  <2> HAVE fe[i].col = fe[j].col
  <2>1. i \in 1 .. n /\ j \in 1 .. n /\ by[ord[i]].col = by[ord[j]].col
    BY <1>5
  <2>2. ~ i < j /\ ~ j < i
    BY <1>3, <1>5, <1>6, <1>8, <2>1
  <2> QED BY <1>5, <2>1, <2>2
<1>12. by # <<>> => fe # <<>>
  BY <1>5, <1>7, <1>9
<1> HIDE DEF fe
<1> QED BY <1>4, <1>9, <1>10, <1>11, <1>12

LEMMA ColsAre ==
  ASSUME NEW fe \in Seq(GroupEntry)
  PROVE  /\ DOMAIN Cols(fe) = DOMAIN fe
         /\ \A i \in DOMAIN fe : Cols(fe)[i] = fe[i].col /\ fe[i].col \in Columns
         /\ Cols(fe) \in Seq(Columns)
<1>1. Len(fe) \in Nat /\ DOMAIN fe = 1 .. Len(fe) /\ \A i \in DOMAIN fe : fe[i] \in GroupEntry
  OBVIOUS
<1>2. \A i \in DOMAIN fe : fe[i].col \in Columns
  BY <1>1 DEF GroupEntry
<1> QED BY <1>1, <1>2 DEF Cols

\* The key has at each column the value computed for its entry.
LEMMA KeyHasValues ==
  ASSUME NEW fe \in Seq(GroupEntry),
         \A i, j \in DOMAIN fe : fe[i].col = fe[j].col => i = j,
         NEW values, NEW i \in DOMAIN fe
  PROVE  BuildGroupKey(values, fe)[Cols(fe)[i]] = values[i]
<1>1. Cols(fe)[i] = fe[i].col /\ fe[i].col \in Columns
  BY ColsAre
<1>2. (CHOOSE k \in DOMAIN fe : fe[k].col = fe[i].col) = i
  OBVIOUS
<1> QED BY <1>1, <1>2 DEF BuildGroupKey

-----------------------------------------------------------------------------
(* Groups.                                                                 *)

KeyOf(values, split, fe, r) == [key |-> BuildGroupKey(values[r], fe), split |-> split[r]]
MembersOf(values, split, fe, k) == {r \in DOMAIN values : KeyOf(values, split, fe, r) = k}
ItemsAt(asked, byKey, key, cols) ==
  IF asked = None THEN None
  ELSE LET t == [i \in DOMAIN cols |-> key[cols[i]]]
       IN  IF t \in DOMAIN byKey THEN byKey[t] ELSE <<>>

\* The group that a row of the query ends up in.
GroupOf(values, split, fe, edges, asked, byKey, cols, r) ==
  LET k == KeyOf(values, split, fe, r)
  IN  [key |-> k.key, split |-> k.split,
       aggregates |-> BuildAggregates(MembersOf(values, split, fe, k)),
       edgeIndices |-> EdgeIndices(k.key, edges, cols),
       items |-> ItemsAt(asked, byKey, k.key, cols)]

LEMMA GroupsAreOfRows ==
  ASSUME NEW values, NEW split, NEW fe, fe # <<>>, NEW edges, NEW asked, NEW byKey, NEW cols
  PROVE  AttachGroups(GroupsBy(values, split, fe), edges, asked, byKey, cols)
            = {GroupOf(values, split, fe, edges, asked, byKey, cols, r) : r \in DOMAIN values}
<1> DEFINE Plain(k) == [key |-> k.key, split |-> k.split,
                        aggregates |-> BuildAggregates(MembersOf(values, split, fe, k)),
                        edgeIndices |-> {}, items |-> None]
           Key(r) == KeyOf(values, split, fe, r)
           Put(g) == [key |-> g.key, split |-> g.split, aggregates |-> g.aggregates,
                      edgeIndices |-> EdgeIndices(g.key, edges, cols),
                      items |-> ItemsAt(asked, byKey, g.key, cols)]
<1>1. GroupsBy(values, split, fe) = {Plain(k) : k \in {Key(r) : r \in DOMAIN values}}
  BY DEF GroupsBy, MembersOf, KeyOf
<1>2. AttachGroups(GroupsBy(values, split, fe), edges, asked, byKey, cols)
         = {Put(g) : g \in GroupsBy(values, split, fe)}
  BY DEF AttachGroups, ItemsAt
<1>3. ASSUME NEW r \in DOMAIN values
      PROVE  Put(Plain(Key(r))) = GroupOf(values, split, fe, edges, asked, byKey, cols, r)
  BY DEF GroupOf
<1> HIDE DEF Put, Plain, Key
<1> QED BY <1>1, <1>2, <1>3

LEMMA SameGroup ==
  ASSUME NEW values, NEW split, NEW fe, NEW edges, NEW asked, NEW byKey, NEW cols,
         NEW r, NEW s
  PROVE  GroupOf(values, split, fe, edges, asked, byKey, cols, r)
            = GroupOf(values, split, fe, edges, asked, byKey, cols, s)
         <=> KeyOf(values, split, fe, r) = KeyOf(values, split, fe, s)
<1>1. KeyOf(values, split, fe, r) = KeyOf(values, split, fe, s)
         <=> KeyOf(values, split, fe, r).key = KeyOf(values, split, fe, s).key
             /\ KeyOf(values, split, fe, r).split = KeyOf(values, split, fe, s).split
  BY DEF KeyOf
<1> QED BY <1>1 DEF GroupOf
-----------------------------------------------------------------------------
(* Every row is counted in one group.                                      *)

Worths == [r \in Rows |-> Worth(r, "n")]

LEMMA FiniteRows ==
  ASSUME NEW R \in SUBSET Rows
  PROVE  /\ IsFiniteSet(R) /\ Cardinality(R) \in Nat
         /\ \A r \in R : r \in Nat /\ Worths[r] \in Nat /\ Table[r].n \in Nat \cup {Null}
         /\ SumFunctionOnSet(Worths, R) \in Nat
<1>1. IsFiniteSet(R) /\ Cardinality(R) \in Nat
  BY TableAssumption, FS_Subset, FS_CardinalityType
<1>2. \A r \in R : r \in Nat /\ Worths[r] \in Nat /\ Table[r].n \in Nat \cup {Null}
  <2> TAKE r \in R
  <2>1. r \in Nat /\ Table[r]["n"] \in Nat \cup {Null}
    BY TableAssumption
  <2>2. Worths[r] = Worth(r, "n")
    BY DEF Worths
  <2> QED BY <2>1, <2>2, WorthType
<1> QED BY <1>1, <1>2, SumAny

LEMMA TotalIsSum ==
  ASSUME NEW R \in SUBSET Rows
  PROVE  OrZero(Total(R)) = SumFunctionOnSet(Worths, R)
<1> DEFINE P == Present(R)
           p == [r \in P |-> Table[r].n]
<1>1. P \in SUBSET R /\ P \in SUBSET Rows /\ R \ P \in SUBSET Rows
  BY DEF Present
<1>2. \A r \in P : p[r] = Worths[r]
  BY DEF Present, Worths, Worth
<1>3. \A r \in R \ P : Worths[r] = 0
  BY DEF Present, Worths, Worth
<1>4. Total(R) = IF P = {} THEN Null ELSE SumFunctionOnSet(p, P)
  BY DEF Total, SumFunction
<1> HIDE DEF P, p
<1>5. SumFunctionOnSet(Worths, R \ P) = 0
  BY <1>1, <1>3, FiniteRows, SumZeros
<1>6. CASE P = {}
  BY <1>4, <1>5, <1>6 DEF OrZero
<1>7. CASE P # {}
  <2>1. IsFiniteSet(P) /\ \A r \in P : Worths[r] \in Nat
    BY <1>1, FiniteRows
  <2>2. SumFunctionOnSet(p, P) = SumFunctionOnSet(Worths, P)
    BY <1>2, <2>1, SumSame
  <2>3. SumFunctionOnSet(Worths, P) \in Nat
    BY <1>1, FiniteRows
  <2>4. IsFiniteSet(R \ P) /\ P \cap (R \ P) = {} /\ P \cup (R \ P) = R
    BY <1>1, FiniteRows
  <2>5. \A r \in P \cup (R \ P) : Worths[r] \in Nat
    BY <2>4, FiniteRows
  <2>6. SumFunctionOnSet(Worths, P \cup (R \ P))
           = SumFunctionOnSet(Worths, P) + SumFunctionOnSet(Worths, R \ P)
    BY <2>1, <2>4, <2>5, SumUnion
  <2>10. SumFunctionOnSet(Worths, R) = SumFunctionOnSet(Worths, P) + SumFunctionOnSet(Worths, R \ P)
    BY <2>4, <2>6
  <2>7. SumFunctionOnSet(Worths, R) = SumFunctionOnSet(Worths, P)
    BY <1>5, <2>3, <2>10
  <2>8. Total(R) = SumFunctionOnSet(Worths, P)
    BY <1>4, <1>7, <2>2
  <2>9. Total(R) # Null
    BY <2>3, <2>8, TableAssumption
  <2> QED BY <2>7, <2>8, <2>9 DEF OrZero
<1> QED BY <1>6, <1>7

LEMMA GroupsCountRows ==
  ASSUME NEW R \in SUBSET Rows, NEW values, DOMAIN values = R, NEW split, NEW fe,
         NEW edges, NEW asked, NEW byKey, NEW cols, NEW G,
         G = {GroupOf(values, split, fe, edges, asked, byKey, cols, r) : r \in R}
  PROVE  /\ SumFunction([g \in G |-> g.aggregates.count]) = Cardinality(R)
         /\ SumFunction([g \in G |-> OrZero(g.aggregates.sum)]) = OrZero(Total(R))
<1> DEFINE It(r) == GroupOf(values, split, fe, edges, asked, byKey, cols, r)
           K == [r \in R |-> It(r)]
           ones == [r \in R |-> 1]
           counts == [g \in G |-> g.aggregates.count]
           sums == [g \in G |-> OrZero(g.aggregates.sum)]
<1>1. IsFiniteSet(R)
  BY FiniteRows
<1>2. K \in Surjection(R, G) /\ \A r \in R : K[r] \in G
  BY DEF Surjection
<1>3. IsFiniteSet(G)
  BY <1>1, <1>2, FS_Surjection
<1>4. ASSUME NEW g \in G
      PROVE  /\ PartOf(R, K, g) \in SUBSET R
             /\ g.aggregates = BuildAggregates(PartOf(R, K, g))
  <2>1. PICK r \in R : g = It(r)
    OBVIOUS
  <2>2. PartOf(R, K, g) = {s \in R : It(s) = It(r)}
    BY <2>1 DEF PartOf
  <2>3. \A s \in R : It(s) = It(r) <=> KeyOf(values, split, fe, s) = KeyOf(values, split, fe, r)
    BY SameGroup
  <2>4. PartOf(R, K, g) = MembersOf(values, split, fe, KeyOf(values, split, fe, r))
    BY <2>2, <2>3 DEF MembersOf
  <2>5. It(r).aggregates = BuildAggregates(MembersOf(values, split, fe, KeyOf(values, split, fe, r)))
    BY DEF GroupOf
  <2> QED BY <2>1, <2>2, <2>4, <2>5
<1> HIDE DEF K, It
<1>5. ASSUME NEW g \in G
      PROVE  /\ counts[g] = SumFunctionOnSet(ones, PartOf(R, K, g))
             /\ sums[g] = SumFunctionOnSet(Worths, PartOf(R, K, g))
  <2> DEFINE T == PartOf(R, K, g)
  <2>1. T \in SUBSET R /\ g.aggregates = BuildAggregates(T)
    BY <1>4
  <2>2. g.aggregates.count = Cardinality(T) /\ g.aggregates.sum = Total(T)
    BY <2>1 DEF BuildAggregates
  <2>3. IsFiniteSet(T) /\ \A r \in T : ones[r] = 1
    BY <1>1, <2>1, FS_Subset
  <2> HIDE DEF T
  <2>4. SumFunctionOnSet(ones, T) = Cardinality(T)
    BY <2>3, SumOnes
  <2>5. OrZero(Total(T)) = SumFunctionOnSet(Worths, T)
    BY <2>1, TotalIsSum
  <2>6. counts[g] = SumFunctionOnSet(ones, T) /\ sums[g] = SumFunctionOnSet(Worths, T)
    BY <2>2, <2>4, <2>5
  <2> QED BY <2>6 DEF T
<1>6. (\A r \in R : ones[r] \in Nat) /\ (\A r \in R : ones[r] = 1)
  OBVIOUS
<1>7. \A r \in R : Worths[r] \in Nat
  BY FiniteRows
<1>8. SumFunction(counts) = SumFunctionOnSet(counts, G) /\ SumFunction(sums) = SumFunctionOnSet(sums, G)
  BY DEF SumFunction
<1> HIDE DEF counts, sums, ones
<1>9. SumFunctionOnSet(counts, G) = SumFunctionOnSet(ones, R)
  BY <1>1, <1>2, <1>3, <1>5, <1>6, SumParts
<1>10. SumFunctionOnSet(sums, G) = SumFunctionOnSet(Worths, R)
  BY <1>1, <1>2, <1>3, <1>5, <1>7, SumParts
<1>11. SumFunctionOnSet(ones, R) = Cardinality(R)
  BY <1>1, <1>6, SumOnes
<1>12. OrZero(Total(R)) = SumFunctionOnSet(Worths, R)
  BY TotalIsSum
<1>13. SumFunction(counts) = Cardinality(R) /\ SumFunction(sums) = OrZero(Total(R))
  BY <1>8, <1>9, <1>10, <1>11, <1>12
<1> QED BY <1>13 DEF counts, sums

-----------------------------------------------------------------------------
(* The aggregates of a page.                                               *)

LEMMA PageOfAll ==
  ASSUME NEW R \in SUBSET Rows, NEW edges \in Seq(R), Range(edges) = R,
         \A i, j \in DOMAIN edges : edges[i] = edges[j] => i = j
  PROVE  PageAggregates(edges) = BuildAggregates(R)
<1> DEFINE D == DOMAIN edges
           vals == PageNumbers(edges)
           N == DOMAIN vals
           p == [r \in Present(R) |-> Table[r].n]
<1>1. Len(edges) \in Nat /\ D = 1 .. Len(edges) /\ \A i \in D : edges[i] \in R
  OBVIOUS
<1>2. \A r \in R : \E i \in D : edges[i] = r
  BY DEF Range
<1>3. IsFiniteSet(D) /\ Cardinality(D) = Len(edges)
  <2>1. 1 \in Int /\ Len(edges) \in Int
    BY <1>1
  <2>2. /\ IsFiniteSet(1 .. Len(edges))
        /\ Cardinality(1 .. Len(edges)) = IF 1 > Len(edges) THEN 0 ELSE Len(edges) - 1 + 1
    BY <2>1, FS_Interval
  <2> QED BY <1>1, <2>2
<1>4. Len(edges) = Cardinality(R)
  <2>1. edges \in Injection(D, R) /\ edges \in Surjection(D, R)
    <3>1. edges \in [D -> R]
      BY <1>1
    <3> QED BY <1>2, <3>1 DEF Injection, Surjection, IsInjective
  <2>2. Cardinality(R) = Cardinality(D)
    BY <1>3, <2>1, FS_Surjection
  <2> QED BY <1>3, <2>2
<1>5. N = {i \in D : Table[edges[i]].n # Null} /\ \A i \in N : vals[i] = Table[edges[i]].n
  BY DEF PageNumbers
<1>6. \A i \in N : edges[i] \in Present(R) /\ p[edges[i]] = vals[i]
  BY <1>1, <1>5 DEF Present
<1>7. \A r \in Present(R) : \E i \in N : edges[i] = r
  BY <1>2, <1>5 DEF Present
<1>8. N = {} <=> Present(R) = {}
  BY <1>6, <1>7
<1>9. Range(vals) = Numbers(R)
  <2>1. Range(vals) = {vals[i] : i \in N} /\ Numbers(R) = {p[r] : r \in Present(R)}
    BY DEF Range, Numbers
  <2> HIDE DEF vals, p, N
  <2> QED BY <1>6, <1>7, <2>1
<1>10. SumFunction(vals) = SumFunction(p)
  <2>1. IsFiniteSet(N) /\ N \in SUBSET D
    BY <1>3, <1>5, FS_Subset
  <2>2. IsFiniteSet(Present(R)) /\ \A r \in Present(R) : p[r] \in Nat
    <3>1. Present(R) \in SUBSET Rows /\ Present(R) \in SUBSET R
      BY DEF Present
    <3> QED BY <3>1, FiniteRows DEF Present
  <2>3. \A i, j \in N : edges[i] = edges[j] => i = j
    BY <2>1
  <2>4. DOMAIN p = Present(R)
    OBVIOUS
  <2> HIDE DEF vals, p, N, D
  <2>5. SumFunctionOnSet(vals, N) = SumFunctionOnSet(p, Present(R))
    BY <1>6, <1>7, <2>1, <2>2, <2>3, SumReindex
  <2> QED BY <2>4, <2>5 DEF SumFunction, N
<1>11. Numbers(R) = {} <=> Present(R) = {}
  BY DEF Numbers
<1>12. /\ Total(R) = IF Present(R) = {} THEN Null ELSE SumFunction(p)
       /\ Lowest(R) = IF Numbers(R) = {} THEN Null
                      ELSE CHOOSE v \in Numbers(R) : \A w \in Numbers(R) : v <= w
  BY DEF Total, Lowest
<1>13. PageAggregates(edges) =
         [count |-> Len(edges),
          sum |-> IF N = {} THEN Null ELSE SumFunction(vals),
          min |-> IF N = {} THEN Null
                  ELSE CHOOSE v \in Range(vals) : \A w \in Range(vals) : v <= w]
  BY DEF PageAggregates
<1> HIDE DEF vals, p, N
<1>14. PageAggregates(edges) = [count |-> Cardinality(R), sum |-> Total(R), min |-> Lowest(R)]
  BY <1>4, <1>8, <1>9, <1>10, <1>11, <1>12, <1>13
<1> QED BY <1>14 DEF BuildAggregates
-----------------------------------------------------------------------------
(* The items of a group.                                                   *)

\* Its members in the order asked for, those that the window has room for.
WindowOf(items, mine, order, w) ==
  /\ Range(items) \subseteq mine
  /\ \A i \in 1 .. Len(items) - 1 : Precedes(order, items[i], items[i + 1])
  /\ \A r \in mine \ Range(items) :
        Cardinality({s \in mine : Precedes(order, s, r)}) \notin w.start .. w.start + w.limit - 1

KeyRows(R, cols, t) == {r \in R : KeyTuple(r, cols) = t}

LEMMA WindowItems ==
  ASSUME NEW R \in SUBSET Rows, NEW cols, NEW order, OrderType(order),
         NEW w \in [start : Nat, limit : Nat], NEW t
  PROVE  LET W == Window(R, cols, order, w)
         IN  WindowOf(IF t \in DOMAIN W THEN W[t] ELSE <<>>,
                      KeyRows(R, cols, t), order, w)
<1> DEFINE W == Window(R, cols, order, w)
           mine == {r \in R : KeyTuple(r, cols) = t}
           Part(r) == {s \in R : KeyTuple(s, cols) = KeyTuple(r, cols)}
           Number(r) == Cardinality({s \in Part(r) : s = r \/ Precedes(order, s, r)})
           read == {r \in R : InWindow(Number(r), w)}
           Of(k) == {r \in read : KeyTuple(r, cols) = k}
           RN == {p \in R \X R : Number(p[1]) < Number(p[2])}
           O == Ordered(order)
           items == IF t \in DOMAIN W THEN W[t] ELSE <<>>
<1>1. W = [k \in {KeyTuple(r, cols) : r \in read} |-> Arranged(Of(k), RN)]
  BY DEF Window
<1>2. mine \in SUBSET Rows /\ mine \in SUBSET R
  OBVIOUS
<1>3. /\ IsFiniteSet(mine) /\ StrictlyOrders(mine, O)
      /\ \A r, s \in mine : <<r, s>> \in O <=> Precedes(order, r, s)
  <2> HIDE DEF mine
  <2> QED BY <1>2, OrderedOrders
<1>4. ASSUME NEW r \in mine
      PROVE  /\ Before(mine, O, r) = {s \in mine : Precedes(order, s, r)}
             /\ Number(r) = Cardinality(Before(mine, O, r)) + 1
             /\ Cardinality(Before(mine, O, r)) \in Nat
  <2>1. Before(mine, O, r) = {s \in mine : Precedes(order, s, r)}
    BY <1>3 DEF Before
  <2>2. Part(r) = mine
    OBVIOUS
  <2>3. {s \in Part(r) : s = r \/ Precedes(order, s, r)} = Before(mine, O, r) \cup {r}
    BY <2>1, <2>2
  <2>4. r \notin Before(mine, O, r)
    BY <1>3 DEF Before, StrictlyOrders
  <2>5. Before(mine, O, r) \in SUBSET mine
    BY DEF Before
  <2> HIDE DEF mine
  <2>6. IsFiniteSet(Before(mine, O, r)) /\ Cardinality(Before(mine, O, r)) \in Nat
    BY <1>3, <2>5, FS_Subset, FS_CardinalityType
  <2>7. Cardinality(Before(mine, O, r) \cup {r}) = Cardinality(Before(mine, O, r)) + 1
    BY <2>4, <2>6, FS_AddElement
  <2> QED BY <2>1, <2>3, <2>6, <2>7
<1>5. Of(t) = {r \in mine : InWindow(Number(r), w)}
  OBVIOUS
<1>6. t \in {KeyTuple(r, cols) : r \in read} <=> Of(t) # {}
  OBVIOUS
<1>7. \A r, s \in R : <<r, s>> \in RN <=> Number(r) < Number(s)
  OBVIOUS
<1> HIDE DEF mine, Number, read, Of, RN, W
<1>8. \A r \in mine : Number(r) \in Nat
  BY <1>4
<1>9. ASSUME NEW r \in mine, NEW s \in mine PROVE Number(r) < Number(s) <=> Precedes(order, r, s)
  <2>1. r \in Rows /\ s \in Rows
    BY <1>2
  <2>2. \A x, y \in mine : Precedes(order, x, y) => Number(x) < Number(y)
    <3> TAKE x, y \in mine
    <3> HAVE Precedes(order, x, y)
    <3>1. <<x, y>> \in O
      BY <1>3
    <3>2. Cardinality(Before(mine, O, x)) < Cardinality(Before(mine, O, y))
      BY <1>3, <3>1, RankGrows
    <3> QED BY <1>4, <3>2
  <2>3. CASE r = s
    <3>1. ~ Precedes(order, r, s)
      BY <2>1, <2>3, PrecedesIrreflexive
    <3> QED BY <1>8, <2>3, <3>1
  <2>4. CASE r # s
    <3>1. Precedes(order, r, s) <=> ~ Precedes(order, s, r)
      BY <2>1, <2>4, PrecedesTotal
    <3>2. Number(r) \in Nat /\ Number(s) \in Nat
      BY <1>8
    <3> QED BY <2>2, <3>1, <3>2
  <2> QED BY <2>3, <2>4
<1>10. Of(t) \in SUBSET mine /\ IsFiniteSet(Of(t))
  BY <1>3, <1>5, FS_Subset
<1>11. \A r, s \in Of(t) : <<r, s>> \in RN <=> <<r, s>> \in O
  BY <1>2, <1>3, <1>7, <1>9, <1>10
<1>12. StrictlyOrders(Of(t), RN)
  BY <1>3, <1>10, <1>11 DEF StrictlyOrders
<1> DEFINE q == Arranged(Of(t), RN)
           n == Cardinality(Of(t))
<1>13. /\ n \in Nat /\ q \in [1 .. n -> Of(t)] /\ Len(q) = n
       /\ \A x \in Of(t) : \E i \in 1 .. n : q[i] = x
       /\ \A i, j \in 1 .. n : i < j => <<q[i], q[j]>> \in RN
  BY <1>10, <1>12, ArrangedIs
<1> HIDE DEF q, n
<1>14. Range(q) = Of(t)
  BY <1>13 DEF Range
<1>15. \A i \in 1 .. Len(q) - 1 : Precedes(order, q[i], q[i + 1])
  <2> TAKE i \in 1 .. Len(q) - 1
  <2>1. i \in 1 .. n /\ i + 1 \in 1 .. n /\ i < i + 1
    BY <1>13
  <2>2. <<q[i], q[i + 1]>> \in RN /\ q[i] \in mine /\ q[i + 1] \in mine
    BY <1>10, <1>13, <2>1
  <2> QED BY <1>2, <1>7, <1>9, <2>2
<1>16. \A r \in mine \ Of(t) :
          Cardinality({s \in mine : Precedes(order, s, r)}) \notin w.start .. w.start + w.limit - 1
  <2> TAKE r \in mine \ Of(t)
  <2> DEFINE c == Cardinality({s \in mine : Precedes(order, s, r)})
  <2>1. c \in Nat /\ Number(r) = c + 1
    BY <1>4
  <2>2. ~ InWindow(Number(r), w)
    BY <1>5
  <2>3. w.start \in Nat /\ w.limit \in Nat
    OBVIOUS
  <2> HIDE DEF c
  <2>4. c \notin w.start .. w.start + w.limit - 1
    BY <2>1, <2>2, <2>3 DEF InWindow
  <2> QED BY <2>4 DEF c
<1>17. CASE Of(t) = {}
  <2>1. items = <<>>
    BY <1>1, <1>6, <1>17
  <2>2. Range(<<>>) = {} /\ Len(<<>>) = 0
    BY DEF Range
  <2>3. WindowOf(<<>>, mine, order, w)
    BY <1>16, <1>17, <2>2 DEF WindowOf
  <2> QED BY <2>1, <2>3 DEF W, mine, KeyRows
<1>18. CASE Of(t) # {}
  <2>1. items = q
    BY <1>1, <1>6, <1>18 DEF q
  <2>2. WindowOf(q, mine, order, w)
    BY <1>10, <1>14, <1>15, <1>16 DEF WindowOf
  <2> QED BY <2>1, <2>2 DEF W, mine, KeyRows
<1> QED BY <1>17, <1>18
-----------------------------------------------------------------------------
(* A field that nobody disturbed works on its own query all the way.       *)

OwnStash(f) == [rows |-> Own(f), by |-> request[f].by, sorted |-> request[f].sorted]
OwnCols(f) == Cols(FirstEntries(request[f].by))
OwnItems(f) ==
  IF request[f].items = None THEN <<>>
  ELSE BatchGroupItems(Own(f), OwnCols(f), request[f].order, request[f].items)
OwnGroups(f) ==
  AttachGroups(ApplyGrouping(OwnStash(f)), fld[f].edges, request[f].items, OwnItems(f), OwnCols(f))

\* What a connection holds once its page is read.
PageRead(f) ==
  /\ fld[f].aggregates = BuildAggregates(Own(f))
  /\ fld[f].page = PageAggregates(fld[f].edges)
  /\ fld[f].edges \in Seq(Own(f))
  /\ \A i, j \in DOMAIN fld[f].edges : fld[f].edges[i] = fld[f].edges[j] => i = j

OnItsWay(f) ==
  /\ fld[f].stage = "paging" => ctx[OperationOf[f]] = OwnStash(f)
  /\ fld[f].stage \in {"grouping", "items"} =>
        /\ keyFields = OwnCols(f) /\ fld[f].base = OwnStash(f)
        /\ PageRead(f)
  /\ fld[f].stage = "items" =>
        /\ fld[f].groups = ApplyGrouping(OwnStash(f)) /\ fld[f].cols = OwnCols(f)
        /\ request[f].items # None
  /\ fld[f].stage = "done" /\ request[f].connection => PageRead(f)
  /\ Grouped(f) => fld[f].groups = OwnGroups(f)

FieldParts == {"stage", "edges", "base", "cols", "groups", "aggregates", "page"}
ShapeInv ==
  /\ backend \in Backends /\ request \in [Fields -> Requests]
  /\ DOMAIN ctx = {OperationOf[f] : f \in Fields}
  /\ DOMAIN fld = Fields /\ \A f \in Fields : DOMAIN fld[f] = FieldParts
FieldsInv == \A f \in Fields : f \notin disturbed => OnItsWay(f)
GroupsInv == ShapeInv /\ FieldsInv
LEMMA RequestsAre ==
  ASSUME NEW f \in Fields, request \in [Fields -> Requests]
  PROVE  /\ Own(f) \in SUBSET Rows /\ request[f].page \in Nat
         /\ request[f].sorted \in BOOLEAN
         /\ request[f].connection \in BOOLEAN /\ request[f].groups \in BOOLEAN
         /\ request[f].by # None => request[f].by \in Seq(GroupEntry)
         /\ request[f].items # None => request[f].items \in [start : Nat, limit : Nat]
         /\ OrderType(request[f].order)
<1>1. request[f] \in Requests
  OBVIOUS
<1> DEFINE q == request[f]
<1>2. /\ q.wanted \subseteq Rows /\ q.page \in Nat
      /\ {q.sorted, q.connection, q.groups} \subseteq BOOLEAN
      /\ q.by # None => q.by \in Seq(GroupEntry)
      /\ q.items # None => q.items \in [start : Nat, limit : Nat]
      /\ OrderType(q.order)
  <2> HIDE DEF q
  <2> QED BY <1>1, RequestAssumption DEF OrderType, GroupEntry, q
<1>3. Own(f) \in SUBSET Rows
  BY <1>2 DEF Own
<1> QED BY <1>2, <1>3

\* A page is the head of the ordered rows.
LEMMA PagesAre ==
  ASSUME NEW R \in SUBSET Rows, NEW sorted, NEW n \in Nat
  PROVE  LET order == IF sorted THEN <<[col |-> "n", desc |-> FALSE]>> ELSE <<>>
             rows == Arranged(R, Ordered(order))
             edges == SubSeq(rows, 1, IF n < Len(rows) THEN n ELSE Len(rows))
         IN  edges \in Seq(R) /\ \A i, j \in DOMAIN edges : edges[i] = edges[j] => i = j
<1> DEFINE order == IF sorted THEN <<[col |-> "n", desc |-> FALSE]>> ELSE <<>>
           rows == Arranged(R, Ordered(order))
           m == IF n < Len(rows) THEN n ELSE Len(rows)
           edges == SubSeq(rows, 1, m)
<1>1. OrderType(order)
  <2> DEFINE X == [col : Columns \cup {"n"}, desc : BOOLEAN]
             e == [col |-> "n", desc |-> FALSE]
  <2>1. e \in X
    OBVIOUS
  <2> HIDE DEF e, X
  <2>2. <<e>> \in Seq(X) /\ <<>> \in Seq(X)
    BY <2>1
  <2>3. order \in Seq(X)
    BY <2>2 DEF e
  <2> QED BY <2>3 DEF OrderType, X
<1> HIDE DEF order
<1>2. IsFiniteSet(R) /\ StrictlyOrders(R, Ordered(order))
  BY <1>1, OrderedOrders
<1>3. /\ Cardinality(R) \in Nat /\ rows \in Seq(R) /\ Len(rows) = Cardinality(R)
      /\ \A i, j \in 1 .. Cardinality(R) : rows[i] = rows[j] => i = j
  BY <1>2, ArrangedIs
<1> HIDE DEF rows
<1>4. m \in Nat /\ m <= Len(rows)
  BY <1>3
<1> HIDE DEF m
<1>5. edges = [i \in 1 .. m |-> rows[i]]
  BY <1>3, <1>4
<1>6. \A i \in 1 .. m : i \in 1 .. Cardinality(R) /\ rows[i] \in R
  BY <1>3, <1>4
<1>7. edges \in Seq(R) /\ \A i, j \in DOMAIN edges : edges[i] = edges[j] => i = j
  BY <1>3, <1>4, <1>5, <1>6
<1> HIDE DEF edges
<1> QED BY <1>7 DEF edges, m, rows, order

LEMMA InitGroupsInv == Init => GroupsInv
<1> SUFFICES ASSUME Init PROVE GroupsInv
  OBVIOUS
<1>1. \A f \in Fields : fld[f] = Waiting
  BY DEF Init
<1>2. Waiting.stage = "waiting" /\ DOMAIN Waiting = FieldParts
  BY DEF Waiting, FieldParts
<1>3. ShapeInv
  <2>1. DOMAIN fld = Fields /\ DOMAIN ctx = {OperationOf[f] : f \in Fields}
    BY DEF Init
  <2> QED BY <1>1, <1>2, <2>1 DEF Init, ShapeInv
<1>4. \A f \in Fields : fld[f].stage = "waiting"
  BY <1>1, <1>2
<1>5. \A f \in Fields : OnItsWay(f)
  BY <1>4 DEF OnItsWay, Grouped
<1> QED BY <1>3, <1>5 DEF GroupsInv, FieldsInv

\* A step of another field leaves alone what this one relies on.
LEMMA OthersUndisturbed ==
  ASSUME ShapeInv, NEW g \in Fields, OnItsWay(g), fld'[g] = fld[g],
         UNCHANGED <<backend, request>>,
         fld[g].stage = "paging" => ctx'[OperationOf[g]] = ctx[OperationOf[g]],
         fld[g].stage \in {"grouping", "items"} => keyFields' = keyFields
  PROVE  OnItsWay(g)'
<1>1. /\ Own(g)' = Own(g) /\ OwnStash(g)' = OwnStash(g) /\ OwnCols(g)' = OwnCols(g)
      /\ PageRead(g)' = PageRead(g) /\ Grouped(g)' = Grouped(g)
      /\ ApplyGrouping(OwnStash(g))' = ApplyGrouping(OwnStash(g))
      /\ OwnGroups(g)' = OwnGroups(g)
  <2>1. Own(g)' = Own(g) /\ OwnStash(g)' = OwnStash(g) /\ OwnCols(g)' = OwnCols(g)
    BY DEF Own, OwnStash, OwnCols
  <2>2. PageRead(g)' = PageRead(g) /\ Grouped(g)' = Grouped(g)
    BY <2>1 DEF PageRead, Grouped
  <2>3. ApplyGrouping(OwnStash(g))' = ApplyGrouping(OwnStash(g))
    BY <2>1 DEF ApplyGrouping
  <2>4. OwnItems(g)' = OwnItems(g)
    BY <2>1 DEF OwnItems, BatchGroupItems
  <2>5. OwnGroups(g)' = OwnGroups(g)
    BY <2>1, <2>3, <2>4 DEF OwnGroups
  <2> QED BY <2>1, <2>2, <2>3, <2>5
<1> QED BY <1>1 DEF OnItsWay
LEMMA StashContextStep ==
  ASSUME GroupsInv, NEW f \in Fields, StashContext(f)
  PROVE  GroupsInv'
<1> DEFINE o == OperationOf[f]
           stash == [rows |-> request[f].wanted \cap Allowed, by |-> request[f].by,
                     sorted |-> request[f].sorted]
<1>1. /\ ctx' = [ctx EXCEPT ![o] = stash]
      /\ fld' = [fld EXCEPT ![f].stage = "paging"]
      /\ disturbed' = disturbed \cup
            {g \in Siblings(f) : fld[g].stage = "paging" /\ ctx[o] # stash}
      /\ UNCHANGED <<backend, request, keyFields>>
  BY DEF StashContext
<1>2. ShapeInv /\ FieldsInv
  BY DEF GroupsInv
<1>3. o \in DOMAIN ctx /\ f \in DOMAIN fld /\ DOMAIN fld[f] = FieldParts
  BY <1>2 DEF ShapeInv
<1>4. ShapeInv'
  BY <1>1, <1>2, <1>3 DEF ShapeInv
<1>5. stash = OwnStash(f)
  BY DEF OwnStash, Own
<1>6. fld'[f].stage = "paging" /\ \A g \in Fields \ {f} : fld'[g] = fld[g]
  BY <1>1, <1>2, <1>3 DEF ShapeInv, FieldParts
<1>7. OnItsWay(f)'
  <2>1. OwnStash(f)' = OwnStash(f)
    BY <1>1 DEF OwnStash, Own
  <2>2. ctx'[OperationOf[f]] = OwnStash(f)
    BY <1>1, <1>3, <1>5
  <2> QED BY <1>6, <2>1, <2>2 DEF OnItsWay, Grouped
<1>8. ASSUME NEW g \in Fields, g # f, g \notin disturbed' PROVE OnItsWay(g)'
  <2>1. OnItsWay(g) /\ fld'[g] = fld[g]
    BY <1>1, <1>2, <1>6, <1>8 DEF FieldsInv
  <2>2. ASSUME fld[g].stage = "paging" PROVE ctx'[OperationOf[g]] = ctx[OperationOf[g]]
    <3>1. CASE OperationOf[g] = o
      <4>1. ctx[o] = stash
        BY <1>1, <1>8, <2>2, <3>1 DEF Siblings
      <4> QED BY <1>1, <1>3, <3>1, <4>1
    <3>2. CASE OperationOf[g] # o
      BY <1>1, <1>2, <3>2 DEF ShapeInv
    <3> QED BY <3>1, <3>2
  <2> QED BY <1>1, <1>2, <2>1, <2>2, OthersUndisturbed
<1> QED BY <1>4, <1>7, <1>8 DEF GroupsInv, FieldsInv

LEMMA PostProcessStep ==
  ASSUME GroupsInv, NEW f \in Fields, PostProcess(f)
  PROVE  GroupsInv'
<1> DEFINE q == request[f]
           base == ctx[OperationOf[f]]
           order == IF q.sorted THEN <<[col |-> "n", desc |-> FALSE]>> ELSE <<>>
           rows == Arranged(q.wanted \cap Allowed, Ordered(order))
           edges == SubSeq(rows, 1, IF q.page < Len(rows) THEN q.page ELSE Len(rows))
           read == [fld[f] EXCEPT !.edges = edges, !.base = base,
                                  !.aggregates = BuildAggregates(base.rows),
                                  !.page = PageAggregates(edges)]
           cols == Cols(FirstEntries(base.by))
<1>1. /\ fld[f].stage = "paging"
      /\ IF ~ q.connection
         THEN /\ fld' = [fld EXCEPT ![f].stage = "done", ![f].edges = rows]
              /\ UNCHANGED <<keyFields, disturbed>>
         ELSE IF ~ q.groups \/ base.by = None
         THEN /\ fld' = [fld EXCEPT ![f] = [read EXCEPT !.stage = "done"]]
              /\ UNCHANGED <<keyFields, disturbed>>
         ELSE /\ fld' = [fld EXCEPT ![f] = [read EXCEPT !.stage = "grouping"]]
              /\ keyFields' = cols
              /\ disturbed' = disturbed \cup
                    {g \in Fields \ {f} : /\ fld[g].stage \in {"grouping", "items"}
                                          /\ keyFields # cols}
      /\ UNCHANGED <<backend, request, ctx>>
  BY DEF PostProcess
<1>2. ShapeInv /\ FieldsInv
  BY DEF GroupsInv
<1>3. f \in DOMAIN fld /\ DOMAIN fld[f] = FieldParts
  BY <1>2 DEF ShapeInv
<1>4. edges \in Seq(Own(f)) /\ \A i, j \in DOMAIN edges : edges[i] = edges[j] => i = j
  <2>1. Own(f) \in SUBSET Rows /\ q.page \in Nat
    BY <1>2, RequestsAre DEF ShapeInv
  <2> QED BY <2>1, PagesAre DEF Own
<1> HIDE DEF edges, rows, cols
<1>5. /\ DOMAIN read = FieldParts /\ read.edges = edges /\ read.base = base
      /\ read.aggregates = BuildAggregates(base.rows) /\ read.page = PageAggregates(edges)
      /\ read.groups = fld[f].groups
  BY <1>3 DEF FieldParts
<1> HIDE DEF read
<1>6. \A s : /\ DOMAIN [read EXCEPT !.stage = s] = FieldParts
             /\ [read EXCEPT !.stage = s].stage = s
             /\ [read EXCEPT !.stage = s].edges = edges
             /\ [read EXCEPT !.stage = s].base = base
             /\ [read EXCEPT !.stage = s].aggregates = BuildAggregates(base.rows)
             /\ [read EXCEPT !.stage = s].page = PageAggregates(edges)
  BY <1>5 DEF FieldParts
<1>7. /\ DOMAIN fld' = Fields /\ DOMAIN fld'[f] = FieldParts
      /\ \A g \in Fields \ {f} : fld'[g] = fld[g]
  <2>1. CASE ~ q.connection
    BY <1>1, <1>2, <1>3, <2>1 DEF ShapeInv
  <2>2. CASE q.connection /\ (~ q.groups \/ base.by = None)
    BY <1>1, <1>2, <1>3, <1>6, <2>2 DEF ShapeInv
  <2>3. CASE q.connection /\ ~ (~ q.groups \/ base.by = None)
    BY <1>1, <1>2, <1>3, <1>6, <2>3 DEF ShapeInv
  <2> QED BY <2>1, <2>2, <2>3
<1>8. ShapeInv'
  BY <1>1, <1>2, <1>7 DEF ShapeInv
<1>9. disturbed \subseteq disturbed'
  BY <1>1
<1>10. ASSUME f \notin disturbed' PROVE OnItsWay(f)'
  <2>1. base = OwnStash(f)
    BY <1>1, <1>2, <1>9, <1>10 DEF FieldsInv, OnItsWay
  <2>2. base.rows = Own(f) /\ base.by = request[f].by
    BY <2>1 DEF OwnStash
  <2>3. OwnStash(f)' = OwnStash(f) /\ Own(f)' = Own(f) /\ OwnCols(f)' = OwnCols(f)
        /\ request' = request
    BY <1>1 DEF OwnStash, Own, OwnCols
  <2>4. CASE ~ q.connection
    <3>1. fld'[f].stage = "done"
      BY <1>1, <1>3, <2>4 DEF FieldParts
    <3> QED BY <2>3, <2>4, <3>1 DEF OnItsWay, Grouped
  <2>5. CASE q.connection /\ (~ q.groups \/ base.by = None)
    <3>1. fld'[f] = [read EXCEPT !.stage = "done"]
      BY <1>1, <1>3, <2>5
    <3>2. PageRead(f)'
      BY <1>4, <1>6, <2>2, <2>3, <3>1 DEF PageRead
    <3>3. fld'[f].stage = "done"
      BY <1>6, <3>1
    <3>4. ~ Grouped(f)'
      BY <2>2, <2>3, <2>5 DEF Grouped
    <3> QED BY <3>2, <3>3, <3>4 DEF OnItsWay
  <2>6. CASE q.connection /\ ~ (~ q.groups \/ base.by = None)
    <3>1. fld'[f] = [read EXCEPT !.stage = "grouping"]
      BY <1>1, <1>3, <2>6
    <3>2. PageRead(f)'
      BY <1>4, <1>6, <2>2, <2>3, <3>1 DEF PageRead
    <3>3. fld'[f].stage = "grouping" /\ fld'[f].base = OwnStash(f)
      BY <1>6, <2>1, <3>1
    <3>4. keyFields' = OwnCols(f)
      BY <1>1, <2>2, <2>6 DEF OwnCols, cols
    <3> QED BY <2>3, <3>2, <3>3, <3>4 DEF OnItsWay, Grouped
  <2> QED BY <2>4, <2>5, <2>6
<1>11. ASSUME NEW g \in Fields, g # f, g \notin disturbed' PROVE OnItsWay(g)'
  <2>1. OnItsWay(g) /\ fld'[g] = fld[g]
    BY <1>2, <1>7, <1>9, <1>11 DEF FieldsInv
  <2>2. ASSUME fld[g].stage \in {"grouping", "items"} PROVE keyFields' = keyFields
    BY <1>1, <1>11, <2>2
  <2> QED BY <1>1, <1>2, <2>1, <2>2, OthersUndisturbed
<1> QED BY <1>8, <1>10, <1>11 DEF GroupsInv, FieldsInv

LEMMA ReadGroupsStep ==
  ASSUME GroupsInv, NEW f \in Fields, ReadGroups(f)
  PROVE  GroupsInv'
<1> DEFINE w == fld[f]
           groups == ApplyGrouping(w.base)
<1>1. /\ w.stage = "grouping"
      /\ IF request[f].items = None
         THEN fld' = [fld EXCEPT ![f].stage = "done",
                          ![f].groups = AttachGroups(groups, w.edges, None, <<>>, keyFields)]
         ELSE fld' = [fld EXCEPT ![f].stage = "items", ![f].groups = groups,
                                 ![f].cols = keyFields]
      /\ UNCHANGED <<backend, request, ctx, keyFields, disturbed>>
  BY DEF ReadGroups
<1>2. ShapeInv /\ FieldsInv
  BY DEF GroupsInv
<1>3. f \in DOMAIN fld /\ DOMAIN fld[f] = FieldParts
  BY <1>2 DEF ShapeInv
<1>4. /\ DOMAIN fld' = Fields /\ DOMAIN fld'[f] = FieldParts
      /\ \A g \in Fields \ {f} : fld'[g] = fld[g]
  <2> HIDE DEF groups
  <2> QED BY <1>1, <1>2, <1>3 DEF ShapeInv
<1>5. ShapeInv'
  BY <1>1, <1>2, <1>4 DEF ShapeInv
<1>6. ASSUME f \notin disturbed' PROVE OnItsWay(f)'
  <2>1. OnItsWay(f)
    BY <1>1, <1>2, <1>6 DEF FieldsInv
  <2>2. w.base = OwnStash(f) /\ keyFields = OwnCols(f) /\ PageRead(f)
    BY <1>1, <2>1 DEF OnItsWay
  <2>3. groups = ApplyGrouping(OwnStash(f))
    BY <2>2
  <2>4. /\ OwnStash(f)' = OwnStash(f) /\ Own(f)' = Own(f) /\ OwnCols(f)' = OwnCols(f)
        /\ ApplyGrouping(OwnStash(f))' = ApplyGrouping(OwnStash(f))
        /\ OwnItems(f)' = OwnItems(f)
    <3>1. OwnStash(f)' = OwnStash(f) /\ Own(f)' = Own(f) /\ OwnCols(f)' = OwnCols(f)
      BY <1>1 DEF OwnStash, Own, OwnCols
    <3> QED BY <1>1, <3>1 DEF ApplyGrouping, OwnItems, BatchGroupItems
  <2> HIDE DEF groups
  <2>5. /\ fld'[f].edges = w.edges /\ fld'[f].aggregates = w.aggregates /\ fld'[f].page = w.page
        /\ fld'[f].base = w.base
    BY <1>1, <1>3 DEF FieldParts
  <2>6. PageRead(f)'
    BY <2>2, <2>4, <2>5 DEF PageRead
  <2>7. CASE request[f].items = None
    <3>1. /\ fld'[f].stage = "done"
          /\ fld'[f].groups = AttachGroups(groups, w.edges, None, <<>>, keyFields)
      BY <1>1, <1>3, <2>7 DEF FieldParts
    <3>2. OwnItems(f) = <<>>
      BY <2>7 DEF OwnItems
    <3>3. fld'[f].groups = OwnGroups(f)'
      BY <1>1, <2>2, <2>3, <2>4, <2>5, <2>7, <3>1, <3>2 DEF OwnGroups
    <3> QED BY <2>6, <3>1, <3>3 DEF OnItsWay
  <2>8. CASE request[f].items # None
    <3>1. fld'[f].stage = "items" /\ fld'[f].groups = groups /\ fld'[f].cols = keyFields
      BY <1>1, <1>3, <2>8 DEF FieldParts
    <3> QED BY <1>1, <2>2, <2>3, <2>4, <2>5, <2>6, <2>8, <3>1 DEF OnItsWay, Grouped
  <2> QED BY <2>7, <2>8
<1>7. ASSUME NEW g \in Fields, g # f, g \notin disturbed' PROVE OnItsWay(g)'
  <2>1. OnItsWay(g) /\ fld'[g] = fld[g]
    BY <1>1, <1>2, <1>4, <1>7 DEF FieldsInv
  <2> QED BY <1>1, <1>2, <2>1, OthersUndisturbed
<1> QED BY <1>5, <1>6, <1>7 DEF GroupsInv, FieldsInv

LEMMA ReadItemsStep ==
  ASSUME GroupsInv, NEW f \in Fields, ReadItems(f)
  PROVE  GroupsInv'
<1> DEFINE w == fld[f]
           byKey == BatchGroupItems(w.base.rows, w.cols, request[f].order, request[f].items)
           given == AttachGroups(w.groups, w.edges, request[f].items, byKey, keyFields)
<1>1. /\ w.stage = "items"
      /\ fld' = [fld EXCEPT ![f].stage = "done", ![f].groups = given]
      /\ UNCHANGED <<backend, request, ctx, keyFields, disturbed>>
  BY DEF ReadItems
<1>2. ShapeInv /\ FieldsInv
  BY DEF GroupsInv
<1>3. f \in DOMAIN fld /\ DOMAIN fld[f] = FieldParts
  BY <1>2 DEF ShapeInv
<1> HIDE DEF given
<1>4. /\ DOMAIN fld' = Fields /\ DOMAIN fld'[f] = FieldParts
      /\ \A g \in Fields \ {f} : fld'[g] = fld[g]
  BY <1>1, <1>2, <1>3 DEF ShapeInv
<1>5. ShapeInv'
  BY <1>1, <1>2, <1>4 DEF ShapeInv
<1>6. ASSUME f \notin disturbed' PROVE OnItsWay(f)'
  <2>1. OnItsWay(f)
    BY <1>1, <1>2, <1>6 DEF FieldsInv
  <2>2. /\ w.base = OwnStash(f) /\ keyFields = OwnCols(f) /\ PageRead(f)
        /\ w.groups = ApplyGrouping(OwnStash(f)) /\ w.cols = OwnCols(f)
        /\ request[f].items # None
    BY <1>1, <2>1 DEF OnItsWay
  <2>3. w.base.rows = Own(f)
    BY <2>2 DEF OwnStash
  <2>4. /\ Own(f)' = Own(f) /\ OwnItems(f)' = OwnItems(f) /\ OwnCols(f)' = OwnCols(f)
        /\ ApplyGrouping(OwnStash(f))' = ApplyGrouping(OwnStash(f))
    <3>1. OwnStash(f)' = OwnStash(f) /\ Own(f)' = Own(f) /\ OwnCols(f)' = OwnCols(f)
      BY <1>1 DEF OwnStash, Own, OwnCols
    <3> QED BY <1>1, <3>1 DEF ApplyGrouping, OwnItems, BatchGroupItems
  <2>5. /\ fld'[f].edges = w.edges /\ fld'[f].aggregates = w.aggregates /\ fld'[f].page = w.page
        /\ fld'[f].stage = "done" /\ fld'[f].groups = given
    BY <1>1, <1>3 DEF FieldParts
  <2>6. PageRead(f)'
    BY <2>2, <2>4, <2>5 DEF PageRead
  <2>7. byKey = OwnItems(f)
    BY <2>2, <2>3 DEF OwnItems
  <2>8. fld'[f].groups = OwnGroups(f)'
    BY <1>1, <2>2, <2>4, <2>5, <2>7 DEF OwnGroups, given
  <2> QED BY <2>5, <2>6, <2>8 DEF OnItsWay
<1>7. ASSUME NEW g \in Fields, g # f, g \notin disturbed' PROVE OnItsWay(g)'
  <2>1. OnItsWay(g) /\ fld'[g] = fld[g]
    BY <1>1, <1>2, <1>4, <1>7 DEF FieldsInv
  <2> QED BY <1>1, <1>2, <2>1, OthersUndisturbed
<1> QED BY <1>5, <1>6, <1>7 DEF GroupsInv, FieldsInv

\* A field whose context and columns nobody replaced works from its request to
\* its answer on the query it stashed, by the columns it asked for.
THEOREM GroupsKeepTheirQuery == Spec => []GroupsInv
<1>1. Init => GroupsInv
  BY InitGroupsInv
<1>2. GroupsInv /\ [Next]_vars => GroupsInv'
  <2> SUFFICES ASSUME GroupsInv, [Next]_vars PROVE GroupsInv'
    OBVIOUS
  <2>1. CASE UNCHANGED vars
    <3>1. UNCHANGED <<backend, request, ctx, keyFields, fld, disturbed>>
      BY <2>1 DEF vars
    <3>2. ShapeInv' /\ \A g \in Fields : g \notin disturbed' => g \notin disturbed
      BY <3>1 DEF GroupsInv, ShapeInv
    <3>3. \A g \in Fields : g \notin disturbed' => OnItsWay(g)'
      <4> TAKE g \in Fields
      <4> HAVE g \notin disturbed'
      <4>1. OnItsWay(g) /\ ShapeInv
        BY <3>2 DEF GroupsInv, FieldsInv
      <4> QED BY <3>1, <4>1, OthersUndisturbed
    <3> QED BY <3>2, <3>3 DEF GroupsInv, FieldsInv
  <2>2. CASE Next
    BY <2>2, StashContextStep, PostProcessStep, ReadGroupsStep, ReadItemsStep DEF Next
  <2> QED BY <2>1, <2>2
<1> QED BY <1>1, <1>2, PTL DEF Spec
\* The aggregates of a connection are those of its own query, and those of its
\* page agree with them when the page holds every row.
THEOREM AggregatesAlwaysAgree == Spec => []AggregatesAgree
<1>1. GroupsInv => AggregatesAgree
  <2> SUFFICES ASSUME GroupsInv, NEW f \in Fields,
                      fld[f].stage = "done", request[f].connection, f \notin disturbed
               PROVE  /\ fld[f].aggregates = BuildAggregates(Own(f))
                      /\ Range(fld[f].edges) = Own(f) => fld[f].page = fld[f].aggregates
    BY DEF AggregatesAgree
  <2>1. PageRead(f)
    BY DEF GroupsInv, FieldsInv, OnItsWay
  <2>2. Own(f) \in SUBSET Rows
    BY RequestsAre DEF GroupsInv, ShapeInv
  <2>3. Range(fld[f].edges) = Own(f) => PageAggregates(fld[f].edges) = BuildAggregates(Own(f))
    BY <2>1, <2>2, PageOfAll DEF PageRead
  <2> QED BY <2>1, <2>3 DEF PageRead
<1> QED BY <1>1, GroupsKeepTheirQuery, PTL

-----------------------------------------------------------------------------
(* The groups of a field.                                                  *)

ValuesOf(f) ==
  LET fe == FirstEntries(request[f].by)
  IN  IF backend = "sqlalchemy" THEN [r \in Own(f) |-> SaGroupColumns(r, fe)]
      ELSE [r \in Own(f) |-> [i \in DOMAIN fe |-> Raw(r, fe[i].col)]]
SplitOf(f) ==
  IF backend = "django" /\ request[f].sorted THEN ByOrder(OwnStash(f)) ELSE AsOne(OwnStash(f))

LEMMA GroupingIs ==
  ASSUME NEW f \in Fields, backend \in Backends
  PROVE  ApplyGrouping(OwnStash(f)) = GroupsBy(ValuesOf(f), SplitOf(f), FirstEntries(request[f].by))
<1>1. /\ OwnStash(f).rows = Own(f) /\ OwnStash(f).by = request[f].by
      /\ OwnStash(f).sorted = request[f].sorted
  BY DEF OwnStash
<1> DEFINE fe == FirstEntries(request[f].by)
<1>2. CASE backend = "sqlalchemy"
  BY <1>1, <1>2 DEF ApplyGrouping, SaApplyGrouping, ValuesOf, SplitOf
<1>3. CASE backend = "django"
  <2>1. ValuesOf(f) = [r \in Own(f) |-> DjGroupColumns(r, fe)]
    BY <1>3 DEF ValuesOf, DjGroupColumns
  <2>2. SplitOf(f) = IF OwnStash(f).sorted THEN ByOrder(OwnStash(f)) ELSE AsOne(OwnStash(f))
    BY <1>1, <1>3 DEF SplitOf
  <2> QED BY <1>1, <1>3, <2>1, <2>2 DEF ApplyGrouping, DjApplyGrouping
<1>4. CASE backend = "tortoise"
  <2>1. ValuesOf(f) = [r \in Own(f) |-> TtGroupColumns(r, fe)]
    BY <1>4 DEF ValuesOf, TtGroupColumns
  <2> QED BY <1>1, <1>4, <2>1 DEF ApplyGrouping, TtApplyGrouping, SplitOf
<1> QED BY <1>2, <1>3, <1>4, BackendAssumption

\* Where no date is truncated the value of a column is what the row has in it.
LEMMA ValuesAreRaw ==
  ASSUME NEW f \in Fields, ~ Truncates(f), request[f].by \in Seq(GroupEntry), NEW r \in Own(f)
  PROVE  LET fe == FirstEntries(request[f].by)
         IN  \A i \in DOMAIN fe : ValuesOf(f)[r][i] = Raw(r, fe[i].col)
<1> DEFINE by == request[f].by
           fe == FirstEntries(by)
<1> SUFFICES ASSUME NEW i \in DOMAIN fe PROVE ValuesOf(f)[r][i] = Raw(r, fe[i].col)
  OBVIOUS
<1>1. PICK k \in DOMAIN by : fe[i] = by[k]
  BY FirstEntriesAre
<1> HIDE DEF fe
<1>2. CASE backend = "sqlalchemy"
  <2>1. fe[i].interval \in {None, "DAY"}
    BY <1>1, <1>2 DEF Truncates
  <2>2. SaGroupColumns(r, fe)[i] = Raw(r, fe[i].col)
    BY <2>1 DEF SaGroupColumns, Raw
  <2>3. ValuesOf(f)[r] = SaGroupColumns(r, fe)
    BY <1>2 DEF ValuesOf, fe
  <2> QED BY <2>2, <2>3
<1>3. CASE backend # "sqlalchemy"
  <2>1. ValuesOf(f)[r] = [j \in DOMAIN fe |-> Raw(r, fe[j].col)]
    BY <1>3 DEF ValuesOf, fe
  <2> QED BY <2>1
<1> QED BY <1>2, <1>3

LEMMA OwnGroupsAre ==
  ASSUME GroupsInv, NEW f \in Fields, Grouped(f), f \notin disturbed
  PROVE  /\ request[f].by \in Seq(GroupEntry)
         /\ FirstEntries(request[f].by) # <<>>
         /\ DOMAIN ValuesOf(f) = Own(f) /\ Own(f) \in SUBSET Rows
         /\ fld[f].groups = {GroupOf(ValuesOf(f), SplitOf(f), FirstEntries(request[f].by),
                                     fld[f].edges, request[f].items, OwnItems(f), OwnCols(f), r)
                             : r \in Own(f)}
<1>1. request[f].by # None /\ request[f].by # <<>>
  BY DEF Grouped
<1>2. request[f].by \in Seq(GroupEntry) /\ Own(f) \in SUBSET Rows
  BY <1>1, RequestsAre DEF GroupsInv, ShapeInv
<1>3. FirstEntries(request[f].by) # <<>>
  BY <1>1, <1>2, FirstEntriesAre
<1>4. DOMAIN ValuesOf(f) = Own(f)
  BY DEF ValuesOf
<1>5. fld[f].groups = OwnGroups(f)
  BY DEF GroupsInv, FieldsInv, OnItsWay
<1>6. ApplyGrouping(OwnStash(f)) = GroupsBy(ValuesOf(f), SplitOf(f), FirstEntries(request[f].by))
  BY GroupingIs DEF GroupsInv, ShapeInv
<1>7. OwnGroups(f) = {GroupOf(ValuesOf(f), SplitOf(f), FirstEntries(request[f].by),
                              fld[f].edges, request[f].items, OwnItems(f), OwnCols(f), r)
                      : r \in DOMAIN ValuesOf(f)}
  BY <1>3, <1>6, GroupsAreOfRows DEF OwnGroups
<1> QED BY <1>2, <1>3, <1>4, <1>5, <1>7

LEMMA OwnGroupsHoldTheirRows ==
  ASSUME GroupsInv, NEW f \in Fields, Grouped(f), f \notin disturbed, NEW g \in fld[f].groups
  PROVE  HoldsItsRows(f, g)
<1> DEFINE by == request[f].by
           fe == FirstEntries(by)
           cols == OwnCols(f)
           w == request[f].items
           t == [i \in DOMAIN cols |-> g.key[cols[i]]]
           mine == {r \in Own(f) : KeyTuple(r, cols) = t}
<1>1. PICK r \in Own(f) : g = GroupOf(ValuesOf(f), SplitOf(f), fe, fld[f].edges, w,
                                      OwnItems(f), cols, r)
  BY OwnGroupsAre
<1>2. /\ g.edgeIndices = EdgeIndices(g.key, fld[f].edges, cols)
      /\ g.items = ItemsAt(w, OwnItems(f), g.key, cols)
  BY <1>1 DEF GroupOf
<1>3. cols = Cols(fe)
  BY DEF OwnCols
<1> HIDE DEF cols
<1>4. \A s : KeyTuple(s, cols) = t <=> \A i \in DOMAIN cols : Raw(s, cols[i]) = g.key[cols[i]]
  BY DEF KeyTuple
<1>5. RowsOf(f, g) = mine
  BY <1>3, <1>4 DEF RowsOf
<1>6. PageRead(f)
  BY DEF GroupsInv, FieldsInv, OnItsWay, Grouped
<1>7. ASSUME w # None PROVE WindowOf(g.items, mine, request[f].order, w)
  <2>1. /\ w \in [start : Nat, limit : Nat] /\ OrderType(request[f].order)
        /\ Own(f) \in SUBSET Rows
    BY <1>7, RequestsAre DEF GroupsInv, ShapeInv
  <2>2. OwnItems(f) = Window(Own(f), cols, request[f].order, w)
    <3>1. backend \in {"sqlalchemy", "django", "tortoise"}
      BY BackendAssumption DEF GroupsInv, ShapeInv
    <3> QED BY <1>7, <3>1 DEF OwnItems, cols, BatchGroupItems, SaGroupItems, DjGroupItems, TtGroupItems
  <2>3. g.items = IF t \in DOMAIN OwnItems(f) THEN OwnItems(f)[t] ELSE <<>>
    BY <1>2, <1>7 DEF ItemsAt
  <2>4. mine = KeyRows(Own(f), cols, t)
    BY DEF KeyRows
  <2> HIDE DEF t, w, mine
  <2>5. WindowOf(IF t \in DOMAIN OwnItems(f) THEN OwnItems(f)[t] ELSE <<>>,
                 KeyRows(Own(f), cols, t), request[f].order, w)
    BY <2>1, <2>2, WindowItems
  <2> QED BY <2>3, <2>4, <2>5
<1>8. ASSUME \A i \in DOMAIN cols : g.key[cols[i]] # Null
      PROVE  g.edgeIndices = {i \in DOMAIN fld[f].edges : fld[f].edges[i] \in mine}
  <2>1. \A i \in DOMAIN fld[f].edges : fld[f].edges[i] \in Own(f)
    BY <1>6 DEF PageRead
  <2>2. \A s : NodeMatches(s, g.key, cols) <=> KeyTuple(s, cols) = t
    BY <1>4, <1>8 DEF NodeMatches
  <2>3. \A i \in DOMAIN fld[f].edges :
           NodeMatches(fld[f].edges[i], g.key, cols) <=> fld[f].edges[i] \in mine
    BY <2>1, <2>2
  <2> HIDE DEF mine
  <2> QED BY <1>2, <2>3 DEF EdgeIndices
<1> HIDE DEF mine, w
<1> QED BY <1>3, <1>5, <1>7, <1>8 DEF HoldsItsRows, WindowOf, w

LEMMA OwnGroupsAreDistinct ==
  ASSUME GroupsInv, NEW f \in Fields, Grouped(f), f \notin disturbed,
         ~ (backend = "django" /\ request[f].sorted)
  PROVE  /\ \A g, h \in fld[f].groups : g.key = h.key => g = h
         /\ ~ Truncates(f) =>
               \A g \in fld[f].groups : g.aggregates = BuildAggregates(RowsOf(f, g))
<1> DEFINE by == request[f].by
           fe == FirstEntries(by)
           cols == OwnCols(f)
           values == ValuesOf(f)
           split == SplitOf(f)
           It(r) == GroupOf(values, split, fe, fld[f].edges, request[f].items,
                            OwnItems(f), cols, r)
<1>1. /\ by \in Seq(GroupEntry) /\ fe # <<>> /\ DOMAIN values = Own(f) /\ Own(f) \in SUBSET Rows
      /\ fld[f].groups = {It(r) : r \in Own(f)}
  BY OwnGroupsAre
<1>2. /\ fe \in Seq(GroupEntry) /\ \A i, j \in DOMAIN fe : fe[i].col = fe[j].col => i = j
  BY <1>1, FirstEntriesAre
<1>3. \A r \in Own(f) : split[r] = None
  BY DEF SplitOf, AsOne, OwnStash
<1>4. \A r \in Own(f) : /\ It(r).key = BuildGroupKey(values[r], fe)
                        /\ It(r).aggregates = BuildAggregates(MembersOf(values, split, fe, KeyOf(values, split, fe, r)))
  BY DEF GroupOf, KeyOf
<1>5. \A r, s \in Own(f) : KeyOf(values, split, fe, r) = KeyOf(values, split, fe, s)
                              <=> BuildGroupKey(values[r], fe) = BuildGroupKey(values[s], fe)
  BY <1>3 DEF KeyOf
<1>6. \A r, s \in Own(f) : It(r).key = It(s).key => It(r) = It(s)
  BY <1>4, <1>5, SameGroup
<1>7. cols = Cols(fe) /\ DOMAIN cols = DOMAIN fe /\ \A i \in DOMAIN fe : cols[i] = fe[i].col
  BY <1>2, ColsAre DEF OwnCols
<1> HIDE DEF It, values, split, fe, cols
<1>8. ASSUME ~ Truncates(f), NEW r \in Own(f)
      PROVE  It(r).aggregates = BuildAggregates(RowsOf(f, It(r)))
  <2>1. \A s \in Own(f) : \A i \in DOMAIN fe :
           /\ BuildGroupKey(values[s], fe)[cols[i]] = values[s][i]
           /\ values[s][i] = Raw(s, cols[i])
    BY <1>1, <1>2, <1>7, <1>8, KeyHasValues, ValuesAreRaw DEF values, fe
  <2>2. ASSUME NEW s \in Own(f)
        PROVE  BuildGroupKey(values[s], fe) = BuildGroupKey(values[r], fe)
                 <=> \A i \in DOMAIN cols : Raw(s, cols[i]) = It(r).key[cols[i]]
    <3>1. \A i \in DOMAIN cols : It(r).key[cols[i]] = values[r][i] /\ Raw(s, cols[i]) = values[s][i]
      BY <1>4, <1>7, <2>1
    <3>2. ASSUME BuildGroupKey(values[s], fe) = BuildGroupKey(values[r], fe)
          PROVE  \A i \in DOMAIN cols : Raw(s, cols[i]) = It(r).key[cols[i]]
      BY <1>4, <1>7, <2>1, <3>2
    <3>3. ASSUME \A i \in DOMAIN cols : Raw(s, cols[i]) = It(r).key[cols[i]]
          PROVE  BuildGroupKey(values[s], fe) = BuildGroupKey(values[r], fe)
      <4>1. \A i \in DOMAIN fe : values[s][i] = values[r][i]
        BY <1>7, <3>1, <3>3
      <4> QED BY <4>1 DEF BuildGroupKey
    <3> QED BY <3>2, <3>3
  <2>3. RowsOf(f, It(r)) = {s \in Own(f) : BuildGroupKey(values[s], fe) = BuildGroupKey(values[r], fe)}
    BY <1>7, <2>2 DEF RowsOf, fe
  <2>4. MembersOf(values, split, fe, KeyOf(values, split, fe, r)) = RowsOf(f, It(r))
    BY <1>1, <1>5, <2>3 DEF MembersOf
  <2> QED BY <1>4, <2>4
<1> QED BY <1>1, <1>6, <1>8

\* A field that nobody disturbed answers its own groups: every row of its query
\* is counted in one of them, and a group holds the rows of its key.
THEOREM GroupsAreAlwaysExact == Spec => []UndisturbedGroupsAreExact
<1>1. GroupsInv => UndisturbedGroupsAreExact
  <2> SUFFICES ASSUME GroupsInv, NEW f \in Fields, Grouped(f), f \notin disturbed
               PROVE  /\ GroupsArePartition(f)
                      /\ ~ (backend = "django" /\ request[f].sorted) =>
                            /\ \A g, h \in fld[f].groups : g.key = h.key => g = h
                            /\ ~ Truncates(f) =>
                                  \A g \in fld[f].groups : g.aggregates = BuildAggregates(RowsOf(f, g))
    BY DEF UndisturbedGroupsAreExact
  <2>1. CountsEveryRow(f)
    BY OwnGroupsAre, GroupsCountRows DEF CountsEveryRow
  <2>2. \A g \in fld[f].groups : HoldsItsRows(f, g)
    BY OwnGroupsHoldTheirRows
  <2> QED BY <2>1, <2>2, OwnGroupsAreDistinct DEF GroupsArePartition
<1> QED BY <1>1, GroupsKeepTheirQuery, PTL

-----------------------------------------------------------------------------
(* Ordering: one pass of the second sort. *)

Numbered == Nat \cup {NoValue}

\* Values are in an order, ascending or descending, wherever NULLs are put.
LEMMA SoonerOrders ==
  ASSUME NEW t, t.desc \in BOOLEAN, NEW v \in Numbered, NEW w \in Numbered
  PROVE  /\ ~ Sooner(v, v, t)
         /\ v # w => Sooner(v, w, t) \/ Sooner(w, v, t)
         /\ \A x \in Numbered : Sooner(v, w, t) /\ Sooner(w, x, t) => Sooner(v, x, t)
<1> DEFINE first == NullsFirst(t)
           desc == t.desc
<1>1. NoValue \notin Nat
  BY OrderAssumption
<1>2. \A x, y : Sooner(x, y, t) <=>
          IF x = NoValue THEN y # NoValue /\ first
          ELSE IF y = NoValue THEN ~ first
          ELSE IF desc THEN x > y ELSE x < y
  BY DEF Sooner
<1> HIDE DEF first, desc
<1>3. ~ Sooner(v, v, t)
  BY <1>1, <1>2 DEF Numbered
<1>4. v # w => Sooner(v, w, t) \/ Sooner(w, v, t)
  BY <1>1, <1>2 DEF Numbered
<1>5. ASSUME NEW x \in Numbered, Sooner(v, w, t), Sooner(w, x, t) PROVE Sooner(v, x, t)
  <2>1. CASE desc
    BY <1>1, <1>2, <1>5, <2>1 DEF Numbered
  <2>2. CASE ~ desc
    BY <1>1, <1>2, <1>5, <2>2 DEF Numbered
  <2> QED BY <2>1, <2>2
<1> QED BY <1>3, <1>4, <1>5

\* A listing has each row of the table once.
LEMMA ListingIs ==
  ASSUME NEW tb, IsFiniteSet(DOMAIN tb), NEW rows
  PROVE  rows \in SetToSeqs(DOMAIN tb) <=>
            /\ Cardinality(DOMAIN tb) \in Nat
            /\ rows \in [1 .. Cardinality(DOMAIN tb) -> DOMAIN tb]
            /\ \A i, j \in DOMAIN rows : i # j => rows[i] # rows[j]
BY FS_CardinalityType DEF SetToSeqs

\* The values of a term in the rows, as Python finds them, can be compared.
Comparable(tb, t) ==
  /\ t.desc \in BOOLEAN
  /\ \A r \in DOMAIN tb : PythonColumn(tb, r, t) \in Numbered

\* A pass puts rows in the order of its term, and leaves ties as they were.
LEMMA PassSorts ==
  ASSUME NEW tb, IsFiniteSet(DOMAIN tb), NEW t, Comparable(tb, t),
         NEW rows \in SetToSeqs(DOMAIN tb)
  PROVE  LET s == SortedOnce(t, rows, tb)
             Value(r) == PythonColumn(tb, r, t)
         IN  /\ s \in SetToSeqs(DOMAIN tb)
             /\ DOMAIN s = DOMAIN rows
             /\ \A i, j \in DOMAIN s : i < j =>
                   /\ ~ Sooner(Value(s[j]), Value(s[i]), t)
                   /\ Value(s[i]) = Value(s[j]) =>
                         \E k, l \in DOMAIN rows : k < l /\ rows[k] = s[i] /\ rows[l] = s[j]
<1> DEFINE s == SortedOnce(t, rows, tb)
           Value(r) == PythonColumn(tb, r, t)
           n == Cardinality(DOMAIN tb)
           Earlier(i, j) == \/ Sooner(Value(rows[i]), Value(rows[j]), t)
                            \/ Value(rows[i]) = Value(rows[j]) /\ i < j
           places == 1 .. n
           R == {p \in places \X places : Earlier(p[1], p[2])}
           q == Arranged(places, R)
<1>1. /\ n \in Nat /\ DOMAIN rows = places /\ rows \in [places -> DOMAIN tb]
      /\ \A i, j \in places : i # j => rows[i] # rows[j]
  BY ListingIs
<1>2. s = [i \in places |-> rows[q[i]]]
  BY <1>1 DEF SortedOnce
<1>3. IsFiniteSet(places) /\ Cardinality(places) = n
  BY <1>1, FS_Interval
<1>4. \A i, j \in places : <<i, j>> \in R <=> Earlier(i, j)
  OBVIOUS
<1>5. \A i \in places : Value(rows[i]) \in Numbered
  BY <1>1 DEF Comparable
<1>6. t.desc \in BOOLEAN
  BY DEF Comparable
<1> HIDE DEF s, Value, R
<1>7. StrictlyOrders(places, R)
  <2>1. \A i \in places : ~ Earlier(i, i)
    BY <1>5, <1>6, SoonerOrders
  <2>2. \A i, j \in places : i # j => Earlier(i, j) \/ Earlier(j, i)
    <3>1. \A i, j \in places : i # j => i < j \/ j < i
      BY <1>1
    <3> QED BY <1>5, <1>6, <3>1, SoonerOrders
  <2>3. ASSUME NEW i \in places, NEW j \in places, NEW k \in places,
               Earlier(i, j), Earlier(j, k)
        PROVE  Earlier(i, k)
    <3>1. i < j /\ j < k => i < k
      BY <1>1
    <3>2. /\ Value(rows[i]) \in Numbered /\ Value(rows[j]) \in Numbered
          /\ Value(rows[k]) \in Numbered
      BY <1>5
    <3>3. Sooner(Value(rows[i]), Value(rows[j]), t) /\ Sooner(Value(rows[j]), Value(rows[k]), t)
            => Sooner(Value(rows[i]), Value(rows[k]), t)
      BY <1>6, <3>2, SoonerOrders
    <3> QED BY <2>3, <3>1, <3>3
  <2> HIDE DEF Earlier
  <2> QED BY <1>4, <2>1, <2>2, <2>3 DEF StrictlyOrders
<1>8. /\ q \in [places -> places]
      /\ \A i, j \in places : i < j => Earlier(q[i], q[j])
      /\ \A i, j \in places : q[i] = q[j] => i = j
  <2> HIDE DEF Earlier, q
  <2>1. /\ q \in [places -> places]
        /\ \A i, j \in places : i < j => <<q[i], q[j]>> \in R
        /\ \A i, j \in places : q[i] = q[j] => i = j
    BY <1>3, <1>7, ArrangedIs DEF q
  <2> QED BY <1>4, <2>1
<1> HIDE DEF q
<1>9. DOMAIN s = places /\ \A i \in places : s[i] = rows[q[i]] /\ s[i] \in DOMAIN tb /\ q[i] \in places
  BY <1>1, <1>2, <1>8
<1>10. s \in SetToSeqs(DOMAIN tb)
  <2>1. \A i, j \in places : i # j => s[i] # s[j]
    BY <1>1, <1>8, <1>9
  <2>2. s \in [places -> DOMAIN tb]
    BY <1>2, <1>9
  <2> QED BY <1>1, <2>1, <2>2, <1>9, ListingIs
<1>11. ASSUME NEW i \in places, NEW j \in places, i < j
       PROVE  /\ ~ Sooner(Value(s[j]), Value(s[i]), t)
              /\ Value(s[i]) = Value(s[j]) =>
                    \E k, l \in places : k < l /\ rows[k] = s[i] /\ rows[l] = s[j]
  <2>1. Earlier(q[i], q[j]) /\ q[i] \in places /\ q[j] \in places
    BY <1>8, <1>9, <1>11
  <2>2. Value(s[i]) \in Numbered /\ Value(s[j]) \in Numbered
    BY <1>5, <1>9
  <2>3. ~ (Sooner(Value(s[i]), Value(s[j]), t) /\ Sooner(Value(s[j]), Value(s[i]), t))
    BY <1>6, <2>2, SoonerOrders
  <2>4. ~ Sooner(Value(s[i]), Value(s[i]), t)
    BY <1>6, <2>2, SoonerOrders
  <2> QED BY <1>9, <2>1, <2>3, <2>4
<1> QED BY <1>1, <1>9, <1>10, <1>11 DEF s, Value

\* As Comes, by what Python finds on the rows.
ComesInPython(tb, terms, K, r, s) ==
  \E k \in K :
      /\ Sooner(PythonColumn(tb, r, terms[k]), PythonColumn(tb, s, terms[k]), terms[k])
      /\ \A m \in K : m < k =>
            PythonColumn(tb, r, terms[m]) = PythonColumn(tb, s, terms[m])
TieInPython(tb, terms, K, r, s) ==
  \A k \in K : PythonColumn(tb, r, terms[k]) = PythonColumn(tb, s, terms[k])

\* After the passes of the terms in K: in their order, and what they do not
\* tell apart still in the database's.
SortedBy(tb, terms, K, rows) ==
  \A i, j \in DOMAIN rows : i < j =>
      /\ ~ ComesInPython(tb, terms, K, rows[j], rows[i])
      /\ TieInPython(tb, terms, K, rows[i], rows[j]) =>
            ~ Comes(tb, terms, Written(terms), rows[j], rows[i])

LEMMA ListingIsSorted ==
  ASSUME NEW tb, NEW terms, NEW rows \in Listings(tb, terms, Written(terms))
  PROVE  SortedBy(tb, terms, {}, rows)
BY DEF Listings, InOrder, SortedBy, ComesInPython

LEMMA NextPass ==
  ASSUME NEW tb, IsFiniteSet(DOMAIN tb), NEW terms, NEW n \in Nat, NEW p \in 1 .. n,
         Comparable(tb, terms[p]), NEW rows \in SetToSeqs(DOMAIN tb),
         SortedBy(tb, terms, p + 1 .. n, rows)
  PROVE  SortedBy(tb, terms, p .. n, SortedOnce(terms[p], rows, tb))
<1> DEFINE t == terms[p]
           s == SortedOnce(t, rows, tb)
           Value(r) == PythonColumn(tb, r, t)
<1>1. /\ DOMAIN s = DOMAIN rows
      /\ \A i, j \in DOMAIN s : i < j =>
            /\ ~ Sooner(Value(s[j]), Value(s[i]), t)
            /\ Value(s[i]) = Value(s[j]) =>
                  \E k, l \in DOMAIN rows : k < l /\ rows[k] = s[i] /\ rows[l] = s[j]
  BY PassSorts
<1> HIDE DEF s
<1>2. p \in p .. n /\ \A k \in p .. n : k = p \/ (k \in p + 1 .. n /\ p < k)
  OBVIOUS
<1>3. \A k \in p + 1 .. n : k \in p .. n
  OBVIOUS
<1>4. ASSUME NEW i \in DOMAIN s, NEW j \in DOMAIN s, i < j,
             Value(s[i]) = Value(s[j])
      PROVE  /\ ~ ComesInPython(tb, terms, p + 1 .. n, s[j], s[i])
             /\ TieInPython(tb, terms, p + 1 .. n, s[i], s[j]) =>
                   ~ Comes(tb, terms, Written(terms), s[j], s[i])
  <2>1. PICK k, l \in DOMAIN rows : k < l /\ rows[k] = s[i] /\ rows[l] = s[j]
    BY <1>1, <1>4
  <2> QED BY <2>1 DEF SortedBy
<1>5. ASSUME NEW i \in DOMAIN s, NEW j \in DOMAIN s, i < j,
             ComesInPython(tb, terms, p .. n, s[j], s[i])
      PROVE  FALSE
  <2>1. PICK k \in p .. n :
          /\ Sooner(PythonColumn(tb, s[j], terms[k]), PythonColumn(tb, s[i], terms[k]), terms[k])
          /\ \A m \in p .. n : m < k =>
                PythonColumn(tb, s[j], terms[m]) = PythonColumn(tb, s[i], terms[m])
    BY <1>5 DEF ComesInPython
  <2>2. k # p
    BY <1>1, <1>5, <2>1
  <2>3. k \in p + 1 .. n /\ p < k
    BY <1>2, <2>2
  <2>4. Value(s[j]) = Value(s[i])
    BY <1>2, <2>1, <2>3
  <2>5. ComesInPython(tb, terms, p + 1 .. n, s[j], s[i])
    BY <1>3, <2>1, <2>3 DEF ComesInPython
  <2> QED BY <1>4, <1>5, <2>4, <2>5
<1>6. ASSUME NEW i \in DOMAIN s, NEW j \in DOMAIN s, i < j,
             TieInPython(tb, terms, p .. n, s[i], s[j])
      PROVE  ~ Comes(tb, terms, Written(terms), s[j], s[i])
  <2>1. Value(s[i]) = Value(s[j]) /\ TieInPython(tb, terms, p + 1 .. n, s[i], s[j])
    BY <1>2, <1>3, <1>6 DEF TieInPython
  <2> QED BY <1>4, <1>6, <2>1
<1> QED BY <1>5, <1>6 DEF SortedBy, s

\* When all passes are done, rows are in the order of the terms, if Python can
\* read all of them but the last, and the database has been told the last.
LEMMA AllPasses ==
  ASSUME NEW tb, NEW terms, NEW n \in Nat, DOMAIN terms = 1 .. n, NEW rows,
         \A k \in 1 .. n : terms[k].up \in BOOLEAN,
         \A k \in 1 .. n : terms[k].up => k = n /\ terms[k].nulls = "default",
         SortedBy(tb, terms, 1 .. n, rows)
  PROVE  InOrder(tb, terms, 1 .. n, rows)
<1> SUFFICES ASSUME NEW i \in DOMAIN rows, NEW j \in DOMAIN rows, i < j,
                    Comes(tb, terms, 1 .. n, rows[j], rows[i])
             PROVE  FALSE
  BY DEF InOrder
<1>1. PICK k \in 1 .. n :
        /\ Sooner(Column(tb, rows[j], terms[k]), Column(tb, rows[i], terms[k]), terms[k])
        /\ \A m \in 1 .. n : m < k =>
              Column(tb, rows[j], terms[m]) = Column(tb, rows[i], terms[m])
  BY DEF Comes
<1>2. \A m \in 1 .. n : \A r : ~ terms[m].up => PythonColumn(tb, r, terms[m]) = Column(tb, r, terms[m])
  BY DEF PythonColumn, Column
<1>3. \A m \in 1 .. n : m < k => ~ terms[m].up
  OBVIOUS
<1>4. \A m \in 1 .. n : m < k =>
          PythonColumn(tb, rows[j], terms[m]) = PythonColumn(tb, rows[i], terms[m])
  BY <1>1, <1>2, <1>3
<1>5. CASE ~ terms[k].up
  <2>1. ComesInPython(tb, terms, 1 .. n, rows[j], rows[i])
    BY <1>1, <1>2, <1>4, <1>5 DEF ComesInPython
  <2> QED BY <2>1 DEF SortedBy
<1>6. CASE terms[k].up
  <2>1. k = n /\ terms[k].nulls = "default"
    BY <1>6
  <2>2. PythonColumn(tb, rows[j], terms[k]) = PythonColumn(tb, rows[i], terms[k])
    BY <1>6 DEF PythonColumn
  <2>3. \A m \in 1 .. n : m = k \/ m < k
    BY <2>1
  <2>4. TieInPython(tb, terms, 1 .. n, rows[i], rows[j])
    BY <1>4, <2>2, <2>3 DEF TieInPython
  <2>5. k \in Written(terms) /\ \A m \in Written(terms) : m \in 1 .. n
    BY <2>1 DEF Written
  <2>6. Comes(tb, terms, Written(terms), rows[j], rows[i])
    BY <1>1, <2>5 DEF Comes
  <2> QED BY <2>4, <2>6 DEF SortedBy
<1> QED BY <1>5, <1>6

-----------------------------------------------------------------------------
(* Ordering: what the memory keeps. *)

Remembered == [query : OtherQueries \cup {OwnQuery, PreparedQuery},
               terms : Orders \cup {OtherOrder}]
\* A query is remembered once.
Distinct(mem) == \A i, j \in DOMAIN mem : mem[i].query = mem[j].query => i = j
\* The order is remembered, and after it no other queries than those of S.
HasOwn(mem, terms, S) ==
  \E i \in DOMAIN mem :
      /\ mem[i].query = OwnQuery /\ mem[i].terms = terms
      /\ \A j \in DOMAIN mem : i < j => mem[j].query \in S
OwnIs(mem, terms) ==
  \A i \in DOMAIN mem : mem[i].query = OwnQuery => mem[i].terms = terms
Absent(mem, query) == \A i \in DOMAIN mem : mem[i].query # query

LEMMA RemovingOther ==
  ASSUME NEW mem \in Seq(Remembered), Distinct(mem), NEW d \in DOMAIN mem
  PROVE  LET kept == RemoveAt(mem, d)
         IN  /\ kept \in Seq(Remembered) /\ Distinct(kept)
             /\ Absent(kept, mem[d].query)
             /\ \A query : Absent(mem, query) => Absent(kept, query)
             /\ \A terms : OwnIs(mem, terms) => OwnIs(kept, terms)
             /\ \A terms, S : HasOwn(mem, terms, S) /\ mem[d].query # OwnQuery =>
                    HasOwn(kept, terms, S)
<1> DEFINE kept == RemoveAt(mem, d)
           n == Len(mem)
           Old(i) == IF i < d THEN i ELSE i + 1
<1>1. n \in Nat /\ d \in 1 .. n /\ DOMAIN mem = 1 .. n
  OBVIOUS
<1>2. /\ kept \in Seq(Remembered) /\ Len(kept) = n - 1
      /\ \A i \in 1 .. n - 1 : kept[i] = IF i < d THEN mem[i] ELSE mem[i + 1]
  BY <1>1, RemovedAt
<1> HIDE DEF kept, n
<1>3. DOMAIN kept = 1 .. n - 1
  BY <1>1, <1>2
<1>4. /\ \A i \in DOMAIN kept : Old(i) \in DOMAIN mem /\ Old(i) # d /\ kept[i] = mem[Old(i)]
      /\ \A i, j \in DOMAIN kept : (i < j <=> Old(i) < Old(j)) /\ (Old(i) = Old(j) => i = j)
      /\ \A i \in DOMAIN mem : i # d => \E j \in DOMAIN kept : Old(j) = i
  <2>1. \A i \in DOMAIN kept : Old(i) \in DOMAIN mem /\ Old(i) # d /\ kept[i] = mem[Old(i)]
    BY <1>1, <1>2, <1>3
  <2>2. \A i, j \in DOMAIN kept : (i < j <=> Old(i) < Old(j)) /\ (Old(i) = Old(j) => i = j)
    BY <1>1, <1>3
  <2>3. ASSUME NEW i \in DOMAIN mem, i # d PROVE \E j \in DOMAIN kept : Old(j) = i
    <3>1. CASE i < d
      BY <1>1, <1>3, <3>1
    <3>2. CASE ~ i < d
      <4>1. i - 1 \in DOMAIN kept /\ Old(i - 1) = i
        BY <1>1, <1>3, <2>3, <3>2
      <4> QED BY <4>1
    <3> QED BY <3>1, <3>2
  <2> QED BY <2>1, <2>2, <2>3
<1> HIDE DEF Old
<1>5. Distinct(kept) /\ Absent(kept, mem[d].query)
  BY <1>4 DEF Distinct, Absent
<1>6. \A query : Absent(mem, query) => Absent(kept, query)
  BY <1>4 DEF Absent
<1>7. \A terms : OwnIs(mem, terms) => OwnIs(kept, terms)
  BY <1>4 DEF OwnIs
<1>8. ASSUME NEW terms, NEW S, HasOwn(mem, terms, S), mem[d].query # OwnQuery
      PROVE  HasOwn(kept, terms, S)
  <2>1. PICK i \in DOMAIN mem :
          /\ mem[i].query = OwnQuery /\ mem[i].terms = terms
          /\ \A j \in DOMAIN mem : i < j => mem[j].query \in S
    BY <1>8 DEF HasOwn
  <2>2. PICK k \in DOMAIN kept : Old(k) = i
    BY <1>4, <1>8, <2>1
  <2>3. \A j \in DOMAIN kept : k < j => kept[j].query \in S
    BY <1>4, <2>1, <2>2
  <2> QED BY <1>4, <2>1, <2>2, <2>3 DEF HasOwn
<1> QED BY <1>2, <1>5, <1>6, <1>7, <1>8 DEF kept

\* A query that is remembered comes last, and the first is forgotten if there
\* is one too many.
Limited(all) == IF Len(all) > MaxRemembered THEN Tail(all) ELSE all

LEMMA Remembering ==
  ASSUME memory \in Seq(Remembered), Distinct(memory), NEW e \in Remembered,
         RememberQueryOrdering(e.query, e.terms)
  PROVE  \E kept \in Seq(Remembered) :
            /\ memory' = Limited(Append(kept, e))
            /\ Distinct(kept) /\ Absent(kept, e.query)
            /\ Absent(memory, OwnQuery) => Absent(kept, OwnQuery)
            /\ \A terms : OwnIs(memory, terms) => OwnIs(kept, terms)
            /\ \A terms, S : HasOwn(memory, terms, S) /\ e.query # OwnQuery =>
                   HasOwn(kept, terms, S)
<1> DEFINE kept == IF Places(e.query) = {} THEN memory
                   ELSE RemoveAt(memory, CHOOSE i \in Places(e.query) : TRUE)
<1>1. e = [query |-> e.query, terms |-> e.terms]
  BY DEF Remembered
<1>2. memory' = Limited(Append(kept, e))
  BY <1>1 DEF RememberQueryOrdering, Limited
<1>3. CASE Places(e.query) = {}
  <2>1. kept = memory /\ Absent(memory, e.query)
    BY <1>3 DEF Places, Absent
  <2> HIDE DEF kept
  <2> QED BY <1>2, <2>1
<1>4. CASE Places(e.query) # {}
  <2> DEFINE d == CHOOSE i \in Places(e.query) : TRUE
  <2>1. d \in Places(e.query)
    BY <1>4
  <2>2. kept = RemoveAt(memory, d)
    BY <1>4
  <2> HIDE DEF d, kept
  <2>3. d \in DOMAIN memory /\ memory[d].query = e.query
    BY <2>1 DEF Places
  <2>4. /\ kept \in Seq(Remembered) /\ Distinct(kept)
        /\ Absent(kept, e.query)
        /\ \A query : Absent(memory, query) => Absent(kept, query)
        /\ \A terms : OwnIs(memory, terms) => OwnIs(kept, terms)
        /\ \A terms, S : HasOwn(memory, terms, S) /\ e.query # OwnQuery =>
               HasOwn(kept, terms, S)
    BY <2>2, <2>3, RemovingOther
  <2> QED BY <1>2, <2>4
<1> QED BY <1>3, <1>4

\* What stays when the first is forgotten.
LEMMA LimitedIs ==
  ASSUME NEW kept \in Seq(Remembered), NEW e \in Remembered,
         Distinct(kept), Absent(kept, e.query)
  PROVE  LET all == Append(kept, e)
             mem == Limited(all)
         IN  /\ mem \in Seq(Remembered) /\ Distinct(mem)
             /\ \A query : Absent(kept, query) /\ e.query # query => Absent(mem, query)
             /\ \A terms : /\ OwnIs(kept, terms)
                           /\ e.query = OwnQuery => e.terms = terms
                           => OwnIs(mem, terms)
             /\ \A terms : e.query = OwnQuery /\ e.terms = terms /\ MaxRemembered > 0
                  => HasOwn(mem, terms, {})
             /\ \A terms, S : HasOwn(kept, terms, S) /\ e.query \in S
                              /\ IsFiniteSet(S) /\ Cardinality(S) < MaxRemembered
                  => HasOwn(mem, terms, S)
<1> DEFINE all == Append(kept, e)
           n == Len(kept)
           mem == Limited(all)
<1>1. /\ n \in Nat /\ DOMAIN kept = 1 .. n /\ all \in Seq(Remembered) /\ Len(all) = n + 1
      /\ all[n + 1] = e /\ \A i \in 1 .. n : all[i] = kept[i]
  OBVIOUS
<1> HIDE DEF all, n
<1>2. DOMAIN all = 1 .. n + 1 /\ \A i \in 1 .. n + 1 : i = n + 1 \/ i \in 1 .. n
  BY <1>1
<1>3. Distinct(all)
  <2>1. \A i \in 1 .. n : all[i].query # e.query
    BY <1>1 DEF Absent
  <2> QED BY <1>1, <1>2, <2>1 DEF Distinct
<1>4. \A query : Absent(kept, query) /\ e.query # query => Absent(all, query)
  BY <1>1, <1>2 DEF Absent
<1>5. \A terms : OwnIs(kept, terms) /\ (e.query = OwnQuery => e.terms = terms)
        => OwnIs(all, terms)
  BY <1>1, <1>2 DEF OwnIs
<1>6. ASSUME NEW terms, e.query = OwnQuery, e.terms = terms
      PROVE  HasOwn(all, terms, {})
  <2>1. n + 1 \in DOMAIN all /\ \A j \in DOMAIN all : ~ n + 1 < j
    BY <1>1, <1>2
  <2> QED BY <1>1, <1>6, <2>1 DEF HasOwn
<1>7. ASSUME NEW terms, NEW S, HasOwn(kept, terms, S), e.query \in S
      PROVE  HasOwn(all, terms, S)
  BY <1>1, <1>2, <1>7 DEF HasOwn
<1>8. CASE ~ Len(all) > MaxRemembered
  <2>1. mem = all
    BY <1>8 DEF Limited
  <2> HIDE DEF mem
  <2> QED BY <1>1, <1>3, <1>4, <1>5, <1>6, <1>7, <2>1 DEF mem, all
<1>9. CASE Len(all) > MaxRemembered
  <2>1. mem = Tail(all)
    BY <1>9 DEF Limited
  <2>2. /\ mem \in Seq(Remembered) /\ DOMAIN mem = 1 .. n
        /\ \A i \in 1 .. n : mem[i] = all[i + 1] /\ i + 1 \in DOMAIN all
    <3>1. mem \in Seq(Remembered) /\ Len(mem) = n
      BY <1>1, <2>1
    <3>2. \A i \in 1 .. n : mem[i] = all[i + 1]
      BY <1>1, <2>1
    <3> HIDE DEF mem
    <3> QED BY <1>1, <1>2, <3>1, <3>2
  <2> HIDE DEF mem
  <2>3. Distinct(mem)
    <3>1. \A i, j \in 1 .. n : i + 1 = j + 1 => i = j
      BY <1>1
    <3> QED BY <1>3, <2>2, <3>1 DEF Distinct
  <2>4. \A query : Absent(kept, query) /\ e.query # query => Absent(mem, query)
    BY <1>4, <2>2 DEF Absent
  <2>5. ASSUME NEW terms, OwnIs(kept, terms), e.query = OwnQuery => e.terms = terms
        PROVE  OwnIs(mem, terms)
    <3>1. OwnIs(all, terms)
      BY <1>5, <2>5
    <3> QED BY <2>2, <3>1 DEF OwnIs
  <2>6. ASSUME NEW terms, NEW S, HasOwn(all, terms, S), IsFiniteSet(S),
               Cardinality(S) < MaxRemembered
        PROVE  HasOwn(mem, terms, S)
    <3>1. PICK i \in 1 .. n + 1 :
            /\ all[i].query = OwnQuery /\ all[i].terms = terms
            /\ \A j \in 1 .. n + 1 : i < j => all[j].query \in S
      BY <1>2, <2>6 DEF HasOwn
    <3>2. CASE i = 1
      <4> DEFINE rest == 2 .. n + 1
                 f == [j \in rest |-> all[j].query]
      <4>1. IsFiniteSet(rest) /\ Cardinality(rest) = n
        BY <1>1, FS_Interval
      <4>2. f \in [rest -> S]
        BY <1>1, <3>1, <3>2
      <4>3. \A j, k \in rest : f[j] = f[k] => j = k
        BY <1>1, <1>2, <1>3 DEF Distinct
      <4> HIDE DEF f, rest
      <4>4. f \in Injection(rest, S)
        BY <4>2, <4>3 DEF Injection, IsInjective
      <4>5. Cardinality(rest) <= Cardinality(S)
        BY <2>6, <4>1, <4>4, FS_Injection DEF ExistsInjection
      <4>6. n >= MaxRemembered
        BY <1>1, <1>9, OrderAssumption
      <4>7. Cardinality(S) \in Nat
        BY <2>6, FS_CardinalityType
      <4> QED BY <1>1, <2>6, <4>1, <4>5, <4>6, <4>7, OrderAssumption
    <3>3. CASE i # 1
      <4>1. i - 1 \in 1 .. n /\ (i - 1) + 1 = i
        BY <1>1, <3>3
      <4>2. mem[i - 1] = all[i]
        BY <2>2, <4>1
      <4>3. \A j \in 1 .. n : i - 1 < j => mem[j].query \in S
        <5> TAKE j \in 1 .. n
        <5>1. i - 1 < j => i < j + 1
          BY <1>1
        <5>2. j + 1 \in 1 .. n + 1
          BY <1>1
        <5> QED BY <2>2, <3>1, <5>1, <5>2
      <4> QED BY <2>2, <3>1, <4>1, <4>2, <4>3 DEF HasOwn
    <3> QED BY <3>2, <3>3
  <2>7. ASSUME NEW terms, e.query = OwnQuery, e.terms = terms, MaxRemembered > 0
        PROVE  HasOwn(mem, terms, {})
    <3>1. IsFiniteSet({}) /\ Cardinality({}) = 0
      BY FS_EmptySet
    <3>2. Cardinality({}) < MaxRemembered
      BY <2>7, <3>1, OrderAssumption
    <3> QED BY <1>6, <2>6, <2>7, <3>1, <3>2
  <2> QED BY <1>7, <2>2, <2>3, <2>4, <2>5, <2>6, <2>7 DEF mem, all
<1> QED BY <1>8, <1>9

-----------------------------------------------------------------------------
(* Ordering: the invariant.                                                *)

Questions == [tb : OrderTables, terms : Orders,
              backend : {"sqlalchemy", "django", "tortoise"}]
OnTortoise == question.backend = "tortoise"
InMemory == Cardinality(since) < MaxRemembered

MemoryInv ==
  /\ memory \in Seq(Remembered) /\ Distinct(memory) /\ since \subseteq OtherQueries
  /\ phase = "asking" => Absent(memory, OwnQuery) /\ since = {}
  /\ phase \in {"ordered", "arrived"} /\ OnTortoise =>
        /\ OwnIs(memory, question.terms)
        /\ InMemory /\ question.terms # <<>> => HasOwn(memory, question.terms, since)
QuestionInv ==
  /\ phase \in {"asking", "refused", "ordered", "prepared", "optimized",
               "arrived", "answering"}
  /\ phase \notin {"asking", "refused"} => question \in Questions
  /\ phase \in {"prepared", "optimized", "arrived"} => OnTortoise
TakenInv ==
  phase \in {"prepared", "answering"} /\ OnTortoise =>
     /\ taken \in {<<>>, question.terms}
     /\ InMemory => taken = question.terms
AnswerInv ==
  /\ phase # "answering" => pass = 0
  /\ phase \in {"arrived", "optimized"} =>
        answer \in Listings(question.tb, question.terms, Written(question.terms))
  /\ phase = "answering" /\ ~ OnTortoise =>
        /\ pass = 0
        /\ answer \in Listings(question.tb, question.terms, DOMAIN question.terms)
  /\ phase = "answering" /\ OnTortoise =>
        /\ pass \in 0 .. Len(taken)
        /\ answer \in SetToSeqs(DOMAIN question.tb)
        /\ taken = question.terms =>
              SortedBy(question.tb, question.terms, pass + 1 .. Len(taken), answer)
OrdersInv == MemoryInv /\ QuestionInv /\ TakenInv /\ AnswerInv

LEMMA QuestionsAre ==
  ASSUME question \in Questions
  PROVE  /\ question.tb \in OrderTables /\ question.terms \in Orders
         /\ question.terms \in Seq(Terms)
         /\ IsFiniteSet(DOMAIN question.tb)
         /\ DOMAIN question.terms = 1 .. Len(question.terms) /\ Len(question.terms) \in Nat
         /\ \A k \in DOMAIN question.terms :
               /\ question.terms[k].up \in BOOLEAN
               /\ Comparable(question.tb, question.terms[k])
<1>1. /\ question.tb \in OrderTables /\ question.terms \in Orders
      /\ question.terms \in Seq(Terms)
      /\ IsFiniteSet(DOMAIN question.tb)
  BY OrderAssumption DEF Questions
<1>2. DOMAIN question.terms = 1 .. Len(question.terms) /\ Len(question.terms) \in Nat
      /\ \A k \in DOMAIN question.terms : question.terms[k] \in Terms
  BY <1>1
<1>3. ASSUME NEW t \in Terms
      PROVE  t.up \in BOOLEAN /\ Comparable(question.tb, t)
  <2>1. t.up \in BOOLEAN /\ t.desc \in BOOLEAN
    BY OrderAssumption
  <2>2. \A r \in DOMAIN question.tb : Column(question.tb, r, t) \in Numbered
    BY <1>1, OrderAssumption DEF Numbered
  <2>3. \A r \in DOMAIN question.tb : PythonColumn(question.tb, r, t) \in Numbered
    BY <2>1, <2>2 DEF PythonColumn, Column, Numbered
  <2> QED BY <2>1, <2>3 DEF Comparable
<1> QED BY <1>1, <1>2, <1>3

\* The order that is read from memory is the query's, if it is still there.
LEMMA OrderRead ==
  ASSUME OrdersInv, phase \in {"ordered", "arrived"}, OnTortoise
  PROVE  /\ QueryOrderings(OwnQuery) \in {<<>>, question.terms}
         /\ InMemory => QueryOrderings(OwnQuery) = question.terms
<1>1. OwnIs(memory, question.terms) /\ (InMemory /\ question.terms # <<>> =>
          HasOwn(memory, question.terms, since))
  BY DEF OrdersInv, MemoryInv
<1>2. CASE Places(OwnQuery) = {}
  <2>1. QueryOrderings(OwnQuery) = <<>>
    BY <1>2 DEF QueryOrderings
  <2>2. ~ HasOwn(memory, question.terms, since)
    BY <1>2 DEF Places, HasOwn
  <2> QED BY <1>1, <2>1, <2>2
<1>3. CASE Places(OwnQuery) # {}
  <2> DEFINE i == CHOOSE i \in Places(OwnQuery) : TRUE
  <2>1. i \in Places(OwnQuery)
    BY <1>3
  <2>2. QueryOrderings(OwnQuery) = memory[i].terms
    BY <1>3 DEF QueryOrderings
  <2> HIDE DEF i
  <2>3. memory[i].terms = question.terms
    BY <1>1, <2>1 DEF Places, OwnIs
  <2> QED BY <2>2, <2>3
<1> QED BY <1>2, <1>3

LEMMA InitOrders == OrderInit => OrdersInv
<1> SUFFICES ASSUME OrderInit PROVE OrdersInv
  OBVIOUS
<1>1. memory \in Seq(Remembered) /\ DOMAIN memory = {}
  BY DEF OrderInit
<1>2. Distinct(memory) /\ Absent(memory, OwnQuery)
  BY <1>1 DEF Distinct, Absent
<1> QED BY <1>1, <1>2 DEF OrderInit, OrdersInv, MemoryInv, QuestionInv, TakenInv, AnswerInv

LEMMA ApplyOrderingStep ==
  ASSUME OrdersInv, NEW tb \in OrderTables, NEW terms \in Orders,
         NEW scoped, NEW allowed,
         NEW server \in {"sqlalchemy", "django", "tortoise"},
         ApplyOrdering(tb, terms, server, scoped, allowed)
  PROVE  OrdersInv'
<1>1. /\ phase = "asking" /\ UNCHANGED <<since, taken, answer, pass>>
      /\ memory \in Seq(Remembered) /\ Distinct(memory) /\ Absent(memory, OwnQuery)
      /\ since = {} /\ pass = 0
  BY DEF ApplyOrdering, OrdersInv, MemoryInv, AnswerInv
<1>2. CASE IsRefused(terms, scoped, allowed)
  <2>1. phase' = "refused" /\ UNCHANGED <<question, memory>>
    BY <1>2 DEF ApplyOrdering
  <2> QED BY <1>1, <2>1 DEF OrdersInv, MemoryInv, QuestionInv, TakenInv, AnswerInv
<1>3. CASE ~ IsRefused(terms, scoped, allowed)
  <2>1. /\ phase' = "ordered"
        /\ question' = [tb |-> tb, terms |-> terms, backend |-> server]
        /\ server = "tortoise" => TtApplyOrdering(terms)
        /\ server # "tortoise" => UNCHANGED memory
    <3>1. CASE server = "sqlalchemy"
      BY <1>3, <3>1 DEF ApplyOrdering, SaApplyOrdering
    <3>2. CASE server = "django"
      BY <1>3, <3>2 DEF ApplyOrdering, DjApplyOrdering
    <3>3. CASE server = "tortoise"
      BY <1>3, <3>3 DEF ApplyOrdering
    <3> QED BY <3>1, <3>2, <3>3
  <2>2. question'.terms = terms /\ question'.backend = server /\ question' \in Questions
    BY <2>1 DEF Questions
  <2>3. /\ memory' \in Seq(Remembered) /\ Distinct(memory')
        /\ server = "tortoise" =>
              /\ OwnIs(memory', terms)
              /\ MaxRemembered > 0 /\ terms # <<>> => HasOwn(memory', terms, {})
    <3>1. CASE server # "tortoise" \/ terms = <<>>
      <4>1. memory' = memory
        BY <2>1, <3>1 DEF TtApplyOrdering
      <4>2. OwnIs(memory, terms)
        BY <1>1 DEF OwnIs, Absent
      <4> QED BY <1>1, <3>1, <4>1, <4>2
    <3>2. CASE server = "tortoise" /\ terms # <<>>
      <4> DEFINE e == [query |-> OwnQuery, terms |-> terms]
      <4>1. /\ e \in Remembered /\ e.query = OwnQuery /\ e.terms = terms
            /\ RememberQueryOrdering(e.query, e.terms)
        BY <2>1, <3>2 DEF Remembered, TtApplyOrdering
      <4> HIDE DEF e
      <4>2. PICK kept \in Seq(Remembered) :
              /\ memory' = Limited(Append(kept, e)) /\ Distinct(kept) /\ Absent(kept, e.query)
        BY <1>1, <4>1, Remembering
      <4>3. OwnIs(kept, terms)
        BY <4>1, <4>2 DEF OwnIs, Absent
      <4> QED BY <4>1, <4>2, <4>3, LimitedIs
    <3> QED BY <3>1, <3>2
  <2>4. MemoryInv'
    <3>1. InMemory' => MaxRemembered > 0
      <4>1. Cardinality({}) = 0
        BY FS_EmptySet
      <4> QED BY <1>1, <4>1, OrderAssumption DEF InMemory
    <3> QED BY <1>1, <2>1, <2>2, <2>3, <3>1 DEF MemoryInv, OnTortoise
  <2>5. QuestionInv' /\ TakenInv' /\ AnswerInv'
    BY <1>1, <2>1, <2>2 DEF QuestionInv, TakenInv, AnswerInv
  <2> QED BY <2>4, <2>5 DEF OrdersInv
<1> QED BY <1>2, <1>3

LEMMA OrderAnotherStep ==
  ASSUME OrdersInv, NEW q \in OtherQueries, OrderAnother(q)
  PROVE  OrdersInv'
<1> DEFINE e == [query |-> q, terms |-> OtherOrder]
<1>1. /\ e \in Remembered /\ e.query = q /\ e.terms = OtherOrder /\ q # OwnQuery
      /\ RememberQueryOrdering(e.query, e.terms)
      /\ UNCHANGED <<question, phase, taken, answer, pass>>
  BY OrderAssumption DEF OrderAnother, Remembered, OwnQuery
<1>2. /\ since' = IF phase \in {"ordered", "arrived"} THEN since \cup {q} ELSE since
      /\ phase \in {"asking", "ordered", "prepared", "arrived"}
  BY DEF OrderAnother
<1> HIDE DEF e
<1>3. memory \in Seq(Remembered) /\ Distinct(memory) /\ since \subseteq OtherQueries
  BY DEF OrdersInv, MemoryInv
<1>4. PICK kept \in Seq(Remembered) :
        /\ memory' = Limited(Append(kept, e))
        /\ Distinct(kept) /\ Absent(kept, e.query)
        /\ Absent(memory, OwnQuery) => Absent(kept, OwnQuery)
        /\ \A terms : OwnIs(memory, terms) => OwnIs(kept, terms)
        /\ \A terms, S : HasOwn(memory, terms, S) /\ e.query # OwnQuery =>
               HasOwn(kept, terms, S)
  BY <1>1, <1>3, Remembering
<1>5. /\ memory' \in Seq(Remembered) /\ Distinct(memory')
      /\ Absent(memory, OwnQuery) => Absent(memory', OwnQuery)
      /\ \A terms : OwnIs(memory, terms) => OwnIs(memory', terms)
  BY <1>1, <1>4, LimitedIs
<1>6. ASSUME phase \in {"ordered", "arrived"}, InMemory',
             NEW terms, InMemory => HasOwn(memory, terms, since)
      PROVE  HasOwn(memory', terms, since')
  <2>1. since' = since \cup {q} /\ since' \subseteq OtherQueries
    BY <1>2, <1>3, <1>6
  <2>2. IsFiniteSet(since') /\ IsFiniteSet(since) /\ Cardinality(since) <= Cardinality(since')
    BY <1>3, <2>1, FS_Subset, OrderAssumption
  <2>3. Cardinality(since) \in Nat /\ Cardinality(since') \in Nat
    BY <2>2, FS_CardinalityType
  <2>4. Cardinality(since') < MaxRemembered
    BY <1>6 DEF InMemory
  <2>5. HasOwn(memory, terms, since)
    BY <1>6, <2>2, <2>3, <2>4, OrderAssumption DEF InMemory
  <2>6. HasOwn(kept, terms, since)
    BY <1>1, <1>4, <2>5
  <2>7. HasOwn(kept, terms, since')
    BY <2>1, <2>6 DEF HasOwn
  <2>8. e.query \in since'
    BY <1>1, <2>1
  <2> QED BY <1>1, <1>4, <2>2, <2>4, <2>7, <2>8, LimitedIs
<1>7. MemoryInv'
  <2>1. since' \subseteq OtherQueries
    BY <1>2, <1>3
  <2>2. phase' = "asking" => Absent(memory', OwnQuery) /\ since' = {}
    BY <1>1, <1>2, <1>5 DEF OrdersInv, MemoryInv
  <2>3. ASSUME phase' \in {"ordered", "arrived"}, OnTortoise'
        PROVE  /\ OwnIs(memory', question'.terms)
               /\ InMemory' /\ question'.terms # <<>> =>
                     HasOwn(memory', question'.terms, since')
    <3>1. phase \in {"ordered", "arrived"} /\ OnTortoise /\ question' = question
      BY <1>1, <2>3 DEF OnTortoise
    <3>2. /\ OwnIs(memory, question.terms)
          /\ InMemory /\ question.terms # <<>> => HasOwn(memory, question.terms, since)
      BY <3>1 DEF OrdersInv, MemoryInv
    <3> QED BY <1>5, <1>6, <3>1, <3>2
  <2> QED BY <1>5, <2>1, <2>2, <2>3 DEF MemoryInv
<1>8. TakenInv'
  <2>1. phase = "prepared" => since' = since
    BY <1>2
  <2> QED BY <1>1, <1>2, <2>1 DEF OrdersInv, TakenInv, OnTortoise, InMemory
<1>9. QuestionInv' /\ AnswerInv'
  BY <1>1, <1>2 DEF OrdersInv, QuestionInv, AnswerInv, OnTortoise
<1> QED BY <1>7, <1>8, <1>9 DEF OrdersInv

LEMMA ApplyOptimizerHintsStep ==
  ASSUME OrdersInv, ApplyOptimizerHints
  PROVE  OrdersInv'
<1>1. /\ phase = "ordered" /\ OnTortoise /\ phase' = "prepared"
      /\ taken' = QueryOrderings(OwnQuery)
      /\ taken' # <<>> => RememberQueryOrdering(PreparedQuery, taken')
      /\ taken' = <<>> => UNCHANGED memory
      /\ UNCHANGED <<question, since, answer, pass>>
  BY DEF ApplyOptimizerHints, OnTortoise
<1>2. question \in Questions /\ pass = 0
  BY <1>1 DEF OrdersInv, QuestionInv, AnswerInv
<1>3. taken' \in {<<>>, question.terms} /\ (InMemory => taken' = question.terms)
  BY <1>1, OrderRead
<1>4. memory' \in Seq(Remembered) /\ Distinct(memory')
  <2>1. CASE taken' = <<>>
    BY <1>1, <2>1 DEF OrdersInv, MemoryInv
  <2>2. CASE taken' # <<>>
    <3> DEFINE e == [query |-> PreparedQuery, terms |-> taken']
    <3>1. taken' \in Orders
      BY <1>2, <1>3, <2>2, QuestionsAre
    <3>2. e \in Remembered /\ RememberQueryOrdering(e.query, e.terms)
      BY <1>1, <2>2, <3>1 DEF Remembered
    <3> HIDE DEF e
    <3>3. memory \in Seq(Remembered) /\ Distinct(memory)
      BY DEF OrdersInv, MemoryInv
    <3>4. PICK kept \in Seq(Remembered) :
            /\ memory' = Limited(Append(kept, e)) /\ Distinct(kept) /\ Absent(kept, e.query)
      BY <3>2, <3>3, Remembering
    <3> QED BY <3>2, <3>4, LimitedIs
  <2> QED BY <2>1, <2>2
<1>5. MemoryInv'
  BY <1>1, <1>4 DEF OrdersInv, MemoryInv
<1>6. QuestionInv' /\ AnswerInv'
  BY <1>1, <1>2 DEF QuestionInv, AnswerInv, OnTortoise
<1>7. TakenInv'
  BY <1>1, <1>3 DEF TakenInv, InMemory
<1> QED BY <1>5, <1>6, <1>7 DEF OrdersInv

LEMMA ListRowsStep ==
  ASSUME OrdersInv, ListRows
  PROVE  OrdersInv'
<1>1. /\ phase = "ordered" /\ ~ OnTortoise /\ phase' = "answering"
      /\ answer' \in Listings(question.tb, question.terms, DOMAIN question.terms)
      /\ UNCHANGED <<question, memory, since, taken, pass>>
  BY DEF ListRows, OnTortoise
<1>2. question \in Questions /\ pass = 0
  BY <1>1 DEF OrdersInv, QuestionInv, AnswerInv
<1> QED BY <1>1, <1>2
        DEF OrdersInv, MemoryInv, QuestionInv, TakenInv, AnswerInv, OnTortoise

LEMMA ListingsAreSorted ==
  ASSUME question \in Questions,
         NEW rows \in Listings(question.tb, question.terms, Written(question.terms)),
         NEW n \in Nat
  PROVE  /\ rows \in SetToSeqs(DOMAIN question.tb)
         /\ SortedBy(question.tb, question.terms, n + 1 .. n, rows)
<1>1. n + 1 .. n = {}
  OBVIOUS
<1>2. SortedBy(question.tb, question.terms, {}, rows)
  BY ListingIsSorted
<1> QED BY <1>1, <1>2 DEF Listings

LEMMA RowsArriveStep ==
  ASSUME OrdersInv, RowsArrive
  PROVE  OrdersInv'
<1>1. /\ phase \in {"ordered", "prepared"} /\ OnTortoise
      /\ answer' \in Listings(question.tb, question.terms, Written(question.terms))
      /\ phase' = IF phase = "prepared" THEN "optimized" ELSE "arrived"
      /\ UNCHANGED <<question, memory, since, taken, pass>>
  BY DEF RowsArrive, OnTortoise
<1>2. question \in Questions /\ pass = 0
  BY <1>1 DEF OrdersInv, QuestionInv, AnswerInv
<1>3. phase' \in {"optimized", "arrived"} /\ (phase' = "arrived" => phase = "ordered")
  BY <1>1
<1>4. MemoryInv' /\ QuestionInv' /\ TakenInv'
  BY <1>1, <1>2, <1>3 DEF OrdersInv, MemoryInv, QuestionInv, TakenInv, OnTortoise, InMemory
<1>5. AnswerInv'
  BY <1>1, <1>2, <1>3 DEF AnswerInv, OnTortoise
<1> QED BY <1>4, <1>5 DEF OrdersInv

LEMMA MaterializeQueryStep ==
  ASSUME OrdersInv, MaterializeQuery
  PROVE  OrdersInv'
<1>1. /\ phase = "arrived" /\ phase' = "answering"
      /\ taken' = QueryOrderings(OwnQuery) /\ pass' = Len(taken')
      /\ UNCHANGED <<question, memory, since, answer>>
  BY DEF MaterializeQuery
<1>2. /\ OnTortoise /\ question \in Questions
      /\ answer \in Listings(question.tb, question.terms, Written(question.terms))
  BY <1>1 DEF OrdersInv, QuestionInv, AnswerInv
<1>3. taken' \in {<<>>, question.terms} /\ (InMemory => taken' = question.terms)
  BY <1>1, <1>2, OrderRead
<1>4. MemoryInv' /\ QuestionInv' /\ TakenInv'
  BY <1>1, <1>2, <1>3
     DEF OrdersInv, MemoryInv, QuestionInv, TakenInv, OnTortoise, InMemory
<1>5. Len(taken') \in Nat /\ Len(taken') \in 0 .. Len(taken')
  <2>1. Len(taken') \in Nat
    BY <1>2, <1>3, QuestionsAre
  <2> QED BY <2>1
<1>6. /\ answer' \in SetToSeqs(DOMAIN question.tb)
      /\ SortedBy(question.tb, question.terms, Len(taken') + 1 .. Len(taken'), answer')
  BY <1>1, <1>2, <1>5, ListingsAreSorted
<1>7. AnswerInv'
  BY <1>1, <1>2, <1>5, <1>6 DEF AnswerInv, OnTortoise
<1> QED BY <1>4, <1>7 DEF OrdersInv

LEMMA ApplyPythonOrderingStep ==
  ASSUME OrdersInv, ApplyPythonOrdering
  PROVE  OrdersInv'
<1>1. /\ phase = "answering" /\ pass > 0 /\ pass' = pass - 1
      /\ answer' = SortedOnce(taken[pass], answer, question.tb)
      /\ UNCHANGED <<question, phase, memory, since, taken>>
  BY DEF ApplyPythonOrdering
<1>2. OnTortoise /\ question \in Questions
  BY <1>1 DEF OrdersInv, QuestionInv, AnswerInv
<1>3. /\ pass \in 0 .. Len(taken) /\ answer \in SetToSeqs(DOMAIN question.tb)
      /\ taken \in {<<>>, question.terms}
      /\ taken = question.terms =>
            SortedBy(question.tb, question.terms, pass + 1 .. Len(taken), answer)
  BY <1>1, <1>2 DEF OrdersInv, AnswerInv, TakenInv
<1>4. taken = question.terms
  BY <1>1, <1>3
<1>5. /\ Len(taken) \in Nat /\ pass \in 1 .. Len(taken) /\ pass \in DOMAIN question.terms
      /\ IsFiniteSet(DOMAIN question.tb)
      /\ Comparable(question.tb, question.terms[pass])
  BY <1>1, <1>2, <1>3, <1>4, QuestionsAre
<1>6. /\ answer' \in SetToSeqs(DOMAIN question.tb)
      /\ SortedBy(question.tb, question.terms, pass .. Len(taken), answer')
  <2>1. answer' \in SetToSeqs(DOMAIN question.tb)
    BY <1>1, <1>3, <1>4, <1>5, PassSorts
  <2>2. SortedBy(question.tb, question.terms, pass .. Len(taken), answer')
    BY <1>1, <1>3, <1>4, <1>5, NextPass
  <2> QED BY <2>1, <2>2
<1>7. pass' \in 0 .. Len(taken) /\ pass' + 1 = pass
  BY <1>1, <1>3, <1>5
<1>8. AnswerInv'
  BY <1>1, <1>2, <1>4, <1>6, <1>7 DEF AnswerInv, OnTortoise
<1>9. MemoryInv' /\ QuestionInv' /\ TakenInv'
  BY <1>1 DEF OrdersInv, MemoryInv, QuestionInv, TakenInv, OnTortoise, InMemory
<1> QED BY <1>8, <1>9 DEF OrdersInv

LEMMA NextOrders == OrdersInv /\ [OrderNext]_orderVars => OrdersInv'
<1> SUFFICES ASSUME OrdersInv, [OrderNext]_orderVars PROVE OrdersInv'
  OBVIOUS
<1>1. CASE \E tb \in OrderTables, terms \in Orders, scoped, allowed \in BOOLEAN,
              server \in {"sqlalchemy", "django", "tortoise"} :
                 ApplyOrdering(tb, terms, server, scoped, allowed)
  BY <1>1, ApplyOrderingStep
<1>2. CASE \E q \in OtherQueries : OrderAnother(q)
  BY <1>2, OrderAnotherStep
<1>3. CASE ListRows \/ ApplyOptimizerHints \/ RowsArrive
  BY <1>3, ListRowsStep, ApplyOptimizerHintsStep, RowsArriveStep
<1>4. CASE MaterializeQuery \/ ApplyPythonOrdering
  BY <1>4, MaterializeQueryStep, ApplyPythonOrderingStep
<1>5. CASE UNCHANGED orderVars
  BY <1>5 DEF orderVars, OrdersInv, MemoryInv, QuestionInv, TakenInv, AnswerInv,
              OnTortoise, InMemory
<1> QED BY <1>1, <1>2, <1>3, <1>4, <1>5 DEF OrderNext

\* The order a query was given is what is read for it, however many others are
\* remembered meanwhile, or it is forgotten; and the rows are at each time in
\* the order of the passes made.
THEOREM OrdersAreRemembered == OrderSpec => []OrdersInv
<1> QED BY InitOrders, NextOrders, PTL DEF OrderSpec

\* An order of which nothing is left out is the database's.
LEMMA AllWritten ==
  ASSUME NEW terms, \A k \in DOMAIN terms : terms[k].nulls = "default"
  PROVE  Written(terms) = DOMAIN terms
BY DEF Written

\* For any tables, orders and number of other queries: rows come in the order
\* asked for, on Tortoise by one pass for each term over what the database has
\* ordered by some of them, or by the database alone if the order says nowhere
\* where NULLs go.
THEOREM RowsComeAsOrdered == OrderSpec => []OrdersAsAsked
<1>1. OrdersInv => OrdersAsAsked
  <2> SUFFICES ASSUME OrdersInv, Answered,
                      question.backend = "tortoise" => TortoiseCanSort
               PROVE  /\ InOrder(question.tb, question.terms, DOMAIN question.terms, answer)
                      /\ answer \in SetToSeqs(DOMAIN question.tb)
    BY DEF OrdersAsAsked
  <2>1. question \in Questions
    BY DEF OrdersInv, QuestionInv, Answered
  <2>2. CASE ~ OnTortoise
    <3>1. phase = "answering"
      BY <2>2 DEF OrdersInv, QuestionInv, Answered
    <3> QED BY <2>2, <3>1 DEF OrdersInv, AnswerInv, Listings
  <2>3. CASE phase = "optimized"
    <3>1. OnTortoise
      BY <2>3 DEF OrdersInv, QuestionInv
    <3>2. \A k \in DOMAIN question.terms : question.terms[k].nulls = "default"
      BY <2>3, <3>1 DEF OnTortoise, TortoiseCanSort
    <3>3. Written(question.terms) = DOMAIN question.terms
      BY <3>2, AllWritten
    <3>4. answer \in Listings(question.tb, question.terms, Written(question.terms))
      BY <2>3 DEF OrdersInv, AnswerInv
    <3> QED BY <3>3, <3>4 DEF Listings
  <2>4. CASE OnTortoise /\ phase # "optimized"
    <3>1. TortoiseCanSort /\ InMemory /\ phase = "answering" /\ pass = 0
      BY <2>4 DEF OnTortoise, TortoiseCanSort, InMemory, Answered
    <3>2. taken = question.terms /\ answer \in SetToSeqs(DOMAIN question.tb)
          /\ SortedBy(question.tb, question.terms, pass + 1 .. Len(taken), answer)
      BY <2>4, <3>1 DEF OrdersInv, TakenInv, AnswerInv
    <3>3. SortedBy(question.tb, question.terms, 1 .. Len(question.terms), answer)
      BY <3>1, <3>2
    <3>4. \A k \in DOMAIN question.terms : question.terms[k].up =>
              k = Len(question.terms) /\ question.terms[k].nulls = "default"
      BY <2>4, <3>1 DEF TortoiseCanSort
    <3>5. InOrder(question.tb, question.terms, 1 .. Len(question.terms), answer)
      BY <2>1, <3>3, <3>4, QuestionsAre, AllPasses
    <3> QED BY <2>1, <3>2, <3>5, QuestionsAre
  <2> QED BY <2>2, <2>3, <2>4
<1> QED BY <1>1, OrdersAreRemembered, PTL
=============================================================================
