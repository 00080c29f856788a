----------------------------- MODULE MCQueries ------------------------------
EXTENDS Filters, MCOrdering, LazyResolution, MCGroupedConnection

VARIABLES asked   \* the filter put to the three backends
NoFilter == <<>>

Ids == 1 .. 3
Tables ==
    LET Ages == {<<1, 2, 2>>, <<2, NullValue, 3>>, <<3, 1, NullValue>>}
        Names == {<<1, 2, 1>>, <<2, NullValue, 1>>}
        Bosses == {<<NullValue, 1, 2>>, <<2, NullValue, 2>>, <<3, 3, NullValue>>, <<2, 1, 3>>}
    IN  {[i \in Ids |-> [age |-> a[i], name |-> n[i], boss |-> b[i]]] :
            a \in Ages, n \in Names, b \in Bosses}

One(op, v) == {[op |-> op, val |-> v]}
FieldF(col, lookup) == [key |-> "field", col |-> col, lookup |-> lookup]
ObjectF(rel, f) == [key |-> "object", rel |-> rel, arg |-> f]
ListF(key, fs) == [key |-> key, args |-> fs]
NotF(f) == [key |-> "not_", arg |-> f]
NullF(v) == [key |-> "is_null", val |-> v]

Leaves == {FieldF("age", One("exact", 2)), FieldF("age", One("gt", 1)),
           FieldF("age", One("range", <<1, 2>>)), FieldF("age", One("neq", 2)),
           FieldF("age", One("lte", 2) \cup One("not_in_list", {1})),
           FieldF("age", One("in_list", {1, 2, 3})),
           FieldF("name", One("exact", 1)), FieldF("name", One("is_null", TRUE)),
           FieldF("name", One("starts_with", 1) \cup One("contains", 1)),
           FieldF("id", One("exact", 2)), FieldF("id", One("in_list", {1, 3})),
           FieldF("id", One("not_in_list", {1})), FieldF("id", One("neq", 2))}
Below == Leaves \cup {NullF(TRUE), NullF(FALSE)}
Bosses1 == {ObjectF("boss", f) : f \in Below}
Bosses2 == {ObjectF("boss", f) : f \in Bosses1 \cup {NotF(FieldF("id", One("exact", 1))),
    ListF("any", <<FieldF("id", One("exact", 1)), FieldF("id", One("exact", 3))>>),
    ListF("all", <<FieldF("id", One("exact", 1)), FieldF("name", One("exact", 1))>>),
    ListF("one_of", <<>>)}}
Teams == {ObjectF("team", f) : f \in Below \cup Bosses1}
Pairs(S) == {ListF(k, <<f, g>>) : k \in {"all", "any", "one_of"},
                                  f \in {FieldF("age", One("gt", 1))}, g \in S}
Long == {ListF("all", [i \in 1 .. 3 |-> FieldF("id", One("exact", 2))]),
         ObjectF("boss", ListF("any", [i \in 1 .. 3 |-> FieldF("id", One("exact", 2))])),
         NotF(NotF(NotF(FieldF("age", One("exact", 2)))))}
Trees == Leaves \cup Bosses1 \cup Bosses2 \cup Teams \cup Pairs(Leaves \cup Bosses1)
         \cup {NotF(f) : f \in Leaves \cup Bosses1} \cup Long

\* One row, two resolvers of the application's and a relation field on it.
MCRelationFields == [author |-> <<1, "author">>]
MCComputed == [headline |-> 1, byline |-> 1]
MCPlanned == {<<1, "author">>}
MCSettings == {[backend |-> b, async |-> s] : b \in {"sqlalchemy", "django"}, s \in {FALSE}}
    \cup {[backend |-> b, async |-> TRUE] : b \in {"sqlalchemy", "tortoise"}}

AskInit == asked = NoFilter /\ OrderInit /\ LazyInit /\ Init
AskFilter == \E tb \in Tables, hidden \in {Unscoped, {2}, {1, 3}}, f \in Trees :
    asked' = <<[tb |-> tb, hidden |-> hidden, f |-> f]>>
\* A behaviour asks one filter, or orders one query, or resolves one operation,
\* or groups what fields have asked for.
NoneResolved == /\ \A f \in FieldNames : at[f] = "waiting"
                /\ loaded = {} /\ setting.backend = "django"
NoneOrdered == phase = "asking" /\ memory = <<>>
NoneGrouped == /\ \A f \in Fields : fld[f] = Waiting
               /\ backend = "django" /\ request = [f \in Fields |-> CHOOSE q \in Requests : TRUE]
AskNext ==
    /\ asked = NoFilter
    /\ \/ NoneResolved /\ NoneOrdered /\ NoneGrouped /\ AskFilter
          /\ UNCHANGED <<orderVars, lazyVars, vars>>
       \/ NoneResolved /\ NoneGrouped /\ OrderNext /\ UNCHANGED <<asked, lazyVars, vars>>
       \/ NoneOrdered /\ NoneGrouped /\ LazyNext /\ UNCHANGED <<asked, orderVars, vars>>
       \/ NoneOrdered /\ NoneResolved /\ Next /\ UNCHANGED <<asked, orderVars, lazyVars>>
AskSpec == AskInit /\ [][AskNext]_<<asked, orderVars, lazyVars, vars>>

\* A filter that negates nothing selects, on each backend, the rows it means:
\* those with a related row one may see that passes the filter below. Left out
\* are an absence asked for below a relation, and other numbers of a related
\* row than its key, which the backends answer in their own ways.
PositiveFiltersMeanTheSame ==
    asked # NoFilter =>
        LET tb == asked[1].tb  h == asked[1].hidden  f == asked[1].f  meant == Meant(tb, h, f)
        IN  ~ Negates(f) /\ ~ MistakesAKey(f) =>
            /\ SaSelected(tb, h, f) # Refused => SaSelected(tb, h, f) = meant
            /\ ~ Traverses(f, "team") /\ ~ AsksForAbsenceBelow(f) =>
                /\ DjSelected(tb, h, f) # Refused => DjSelected(tb, h, f) = meant
                /\ \/ AsksForAbsence(f) /\ Restricts(h)
                   \/ TtSelected(tb, h, f) \in {Refused, meant}

\* The table in which the rows hidden from a relation do not exist for it.
Mask(tb, hidden) == [i \in DOMAIN tb |->
    IF i \in hidden THEN [age |-> 3, name |-> 3, boss |-> NullValue]
    ELSE [tb[i] EXCEPT !.boss = IF @ \in hidden THEN NullValue ELSE @]]
\* A filter through a relation tells nothing of the rows the relation's scope
\* hides, not even that a row refers to one: with other values in them, and no
\* reference to them, the same rows are selected. (On Tortoise a negation, or
\* isNull, tells a hidden row from none.)
HiddenRowsDoNotShow ==
    asked # NoFilter /\ asked[1].hidden # Unscoped =>
        LET tb == asked[1].tb  h == asked[1].hidden  f == asked[1].f  masked == Mask(tb, h)
        IN  /\ SaSelected(tb, h, f) \ h = SaSelected(masked, h, f) \ h
            /\ ~ Traverses(f, "team") /\ ~ AsksForAbsenceBelow(f) =>
                /\ DjSelected(tb, h, f) \ h = DjSelected(masked, h, f) \ h
                /\ Negates(f) \/ AsksForAbsence(f)
                   \/ TtSelected(tb, h, f) \ h = TtSelected(masked, h, f) \ h
=============================================================================
