------------------------------ MODULE Filters -------------------------------
(***************************************************************************)
(* What a generated filter input selects on each backend. A filter is a    *)
(* @oneOf tree: field, object, all, any, not, oneOf and isNull. Each        *)
(* backend turns it into a condition of its ORM; a condition is evaluated  *)
(* here on one row of a table and is "T", "F" or "U" (SQL's unknown), or   *)
(* "None" when the tree makes no condition, or "Error" when it is refused. *)
(* The table holds one model, related to itself: boss is a forward key,    *)
(* team the rows that name this one as their boss.                         *)
(***************************************************************************)
EXTENDS Naturals, Sequences, FiniteSets

CONSTANTS NullValue, NoRow, Unscoped, IntColumns, MaxDepth, MaxBranches, MaxInList

-----------------------------------------------------------------------------
(* SQL's logic, and the part of it Django keeps: a condition holds or not. *)

B(p) == IF p THEN "T" ELSE "F"
Conj(vs) == IF "Error" \in vs THEN "Error" ELSE IF vs \ {"None"} = {} THEN "None"
            ELSE IF "F" \in vs THEN "F" ELSE IF "U" \in vs THEN "U" ELSE "T"
Disj(vs) == IF "Error" \in vs THEN "Error" ELSE IF vs \ {"None"} = {} THEN "None"
            ELSE IF "T" \in vs THEN "T" ELSE IF "U" \in vs THEN "U" ELSE "F"
Neg(v) == IF v = "T" THEN "F" ELSE IF v = "F" THEN "T" ELSE v
Known(v) == IF v = "U" THEN "F" ELSE v

Value(tb, r, col) ==
    IF r = NoRow THEN NullValue ELSE IF col = "id" THEN r ELSE tb[r][col]
Boss(tb, r) == IF r = NoRow \/ tb[r].boss = NullValue THEN NoRow ELSE tb[r].boss
Team(tb, r) == {s \in DOMAIN tb : tb[s].boss = r}
Related(tb, r, rel) ==
    IF rel = "team" THEN Team(tb, r) ELSE {Boss(tb, r)} \ {NoRow}

-----------------------------------------------------------------------------
(* One lookup: all its operators apply. *)

Compare(v, lk) ==
    IF lk.op = "is_null" THEN B((v = NullValue) = lk.val)
    ELSE IF v = NullValue THEN "U"
    ELSE CASE lk.op \in {"exact", "contains", "starts_with"} -> B(v = lk.val)
           [] lk.op = "neq" -> B(v # lk.val)
           [] lk.op = "gt" -> B(v > lk.val)
           [] lk.op = "lte" -> B(v <= lk.val)
           [] lk.op = "range" -> B(v >= lk.val[1] /\ v <= lk.val[2])
           [] lk.op = "in_list" -> B(v \in lk.val)
           [] lk.op = "not_in_list" -> B(v \notin lk.val)

TooLong(lk) == lk.op \in {"in_list", "not_in_list"} /\ Cardinality(lk.val) > MaxInList

SaLookupClauses(v, lookup) ==
    Conj({IF TooLong(lk) THEN "Error" ELSE Compare(v, lk) : lk \in lookup})

\* neq and notInList are written as ~Q(...), which Django reads as "does not
\* hold": a NULL passes them.
DjLookup(v, lookup) ==
    LET Q(lk) == IF lk.op = "neq" THEN Neg(Known(Compare(v, [lk EXCEPT !.op = "exact"])))
                 ELSE IF lk.op = "not_in_list"
                 THEN Neg(Known(Compare(v, [lk EXCEPT !.op = "in_list"])))
                 ELSE Known(Compare(v, lk))
    IN  Conj({IF TooLong(lk) THEN "Error" ELSE Q(lk) : lk \in lookup})

\* Tortoise writes NOT around the comparison, which leaves NULL unknown.
TtLookup(v, lookup) ==
    LET Q(lk) == IF lk.op = "neq" THEN Neg(Compare(v, [lk EXCEPT !.op = "exact"]))
                 ELSE IF lk.op = "not_in_list"
                 THEN Neg(Compare(v, [lk EXCEPT !.op = "in_list"]))
                 ELSE Compare(v, lk)
    IN  Conj({IF TooLong(lk) THEN "Error" ELSE Q(lk) : lk \in lookup})

-----------------------------------------------------------------------------
(* The foreign key shortcut: object.<relation> answered from the parent's  *)
(* own key column, when the tree below compares nothing but keys.          *)

FkShortcutOps == {"exact", "neq", "is_null", "in_list", "not_in_list"}
\* Mutant of IsFkShortcutLookup: the column is not looked at.
AnyColumnShortcut(col, lookup) ==
    lookup # {} /\ \A lk \in lookup : lk.op \in FkShortcutOps
IsFkShortcutLookup(col, lookup) ==
    col \in IntColumns /\ lookup # {} /\ \A lk \in lookup : lk.op \in FkShortcutOps

RECURSIVE OnlyReferenceLookups(_)
OnlyReferenceLookups(f) ==
    CASE f.key \in {"object", "is_null"} -> FALSE
      [] f.key = "field" -> IsFkShortcutLookup(f.col, f.lookup)
      [] f.key \in {"all", "any", "one_of"} ->
            \A i \in 1 .. Len(f.args) : OnlyReferenceLookups(f.args[i])
      [] f.key = "not_" -> OnlyReferenceLookups(f.arg)

Lookup(backend, v, lookup) ==
    CASE backend = "sqlalchemy" -> SaLookupClauses(v, lookup)
      [] backend = "django" -> DjLookup(v, lookup)
      [] backend = "tortoise" -> TtLookup(v, lookup)

\* A branch that makes no condition takes the whole tree's with it.
RECURSIVE ReferenceClause(_, _, _)
ReferenceClause(backend, f, key) ==
    LET Subs == {ReferenceClause(backend, f.args[i], key) : i \in 1 .. Len(f.args)}
    IN  CASE f.key = "field" -> Lookup(backend, key, f.lookup)
          [] f.key \in {"all", "any", "one_of"} ->
                IF Len(f.args) > MaxBranches THEN "Error"
                ELSE IF "None" \in Subs THEN "None"
                ELSE IF f.key = "all" THEN Conj(Subs) ELSE Disj(Subs)
          [] f.key = "not_" -> Neg(ReferenceClause(backend, f.arg, key))

ReferenceObjectClause(backend, f, key) ==
    IF OnlyReferenceLookups(f) THEN ReferenceClause(backend, f, key) ELSE "None"

-----------------------------------------------------------------------------
(* The three builders. hidden holds the rows the related type's scope      *)
(* hides, or is Unscoped when nothing restricts the relation.            *)

Sees(hidden, r) == r # NoRow /\ (hidden = Unscoped \/ r \notin hidden)
Restricts(hidden) == hidden # Unscoped

DjScopeQ(hidden, boss) == IF Restricts(hidden) THEN B(Sees(hidden, boss)) ELSE "None"
TtScopeQ(hidden, boss) ==
    IF ~ Restricts(hidden) THEN "None" ELSE IF boss = NoRow THEN "U" ELSE B(Sees(hidden, boss))

RECURSIVE SaFilter(_, _, _, _, _)
\* Mutant of SaObject: the shortcut answers without looking at the scope.
SaObjectUnscoped(tb, hidden, f, r, depth) ==
    LET shortcut == IF f.rel = "team" \/ f.arg.key = "is_null" THEN "None"
                    ELSE ReferenceObjectClause("sqlalchemy", f.arg, tb[r].boss)
        inner(s) == SaFilter(tb, hidden, f.arg, s, depth + 1)
    IN  IF shortcut # "None" THEN shortcut
        ELSE IF f.arg.key = "is_null" \/ inner(r) \in {"None", "Error"} THEN "None"
        ELSE B(\E s \in {q \in Related(tb, r, f.rel) : Sees(hidden, q)} : inner(s) = "T")
SaObject(tb, hidden, f, r, depth) ==
    LET nested == f.arg
        scoped == Restricts(hidden)
        visible == {s \in Related(tb, r, f.rel) : Sees(hidden, s)}
        key == tb[r].boss
        shortcut == IF f.rel = "team" THEN "None"
                    ELSE ReferenceObjectClause("sqlalchemy", nested, key)
        inner(s) == SaFilter(tb, hidden, nested, s, depth + 1)
    IN  IF nested.key = "is_null"
        THEN IF f.rel = "team" THEN "Error" ELSE B((visible = {}) = nested.val)
        ELSE IF shortcut # "None"
        THEN IF scoped THEN Conj({shortcut, B(visible # {})}) ELSE shortcut
        ELSE IF inner(r) \in {"None", "Error"} THEN inner(r)
        ELSE B(\E s \in visible : inner(s) = "T")

SaFilter(tb, hidden, f, r, depth) ==
    LET Subs == {SaFilter(tb, hidden, f.args[i], r, depth + 1) : i \in 1 .. Len(f.args)}
    IN  IF depth > MaxDepth THEN "Error"
        ELSE CASE f.key = "is_null" -> "Error"
               [] f.key = "field" -> SaLookupClauses(Value(tb, r, f.col), f.lookup)
               [] f.key = "object" -> SaObject(tb, hidden, f, r, depth)
               [] f.key \in {"all", "any", "one_of"} ->
                    IF Len(f.args) > MaxBranches THEN "Error"
                    ELSE IF f.key = "all" THEN Conj(Subs) ELSE Disj(Subs)
               [] f.key = "not_" -> Neg(SaFilter(tb, hidden, f.arg, r, depth + 1))

\* Django and Tortoise reach a forward relation through an outer join: where
\* there is no related row its columns are NULL. A relation to many rows joins
\* them all, which one row's condition cannot say: only boss is followed here.
RECURSIVE DjFilter(_, _, _, _, _, _)
DjObject(tb, hidden, f, r, depth) ==
    LET nested == f.arg
        scopeQ == DjScopeQ(hidden, Boss(tb, r))
        And(q) == IF q = "None" THEN q ELSE Conj({q, scopeQ})
        key == IF r = NoRow THEN NullValue ELSE tb[r].boss
        shortcut == ReferenceObjectClause("django", nested, key)
    IN  IF nested.key = "is_null" /\ Restricts(hidden)
        THEN IF nested.val THEN Neg(scopeQ) ELSE scopeQ
        ELSE IF shortcut # "None" THEN And(shortcut)
        ELSE And(DjFilter(tb, hidden, nested, Boss(tb, r), depth + 1, TRUE))

DjFilter(tb, hidden, f, r, depth, prefixed) ==
    LET Sub(g) == DjFilter(tb, hidden, g, r, depth + 1, prefixed)
        Subs == {Sub(f.args[i]) : i \in 1 .. Len(f.args)}
    IN  IF depth > MaxDepth THEN "Error"
        ELSE CASE f.key = "is_null" ->
                    IF prefixed THEN B((r = NoRow) = f.val) ELSE "Error"
               [] f.key = "field" -> DjLookup(Value(tb, r, f.col), f.lookup)
               [] f.key = "object" -> DjObject(tb, hidden, f, r, depth)
               [] f.key \in {"all", "any", "one_of"} ->
                    IF Len(f.args) > MaxBranches THEN "Error"
                    ELSE IF f.key = "all" THEN Conj(Subs) ELSE Disj(Subs)
               [] f.key = "not_" -> Neg(Sub(f.arg))

RECURSIVE TtFilter(_, _, _, _, _, _)
TtObject(tb, hidden, f, r, depth) ==
    LET nested == f.arg
        boss == Boss(tb, r)
        scopeQ == TtScopeQ(hidden, boss)
        And(q) == IF q = "None" THEN q ELSE Conj({q, scopeQ})
        key == IF r = NoRow THEN NullValue ELSE tb[r].boss
        shortcut == ReferenceObjectClause("tortoise", nested, key)
    IN  IF nested.key = "is_null" /\ Restricts(hidden)
        THEN IF nested.val THEN Neg(scopeQ) ELSE scopeQ
        ELSE IF shortcut # "None" THEN And(shortcut)
        ELSE And(TtFilter(tb, hidden, nested, boss, depth + 1, TRUE))

TtFilter(tb, hidden, f, r, depth, prefixed) ==
    LET Sub(g) == TtFilter(tb, hidden, g, r, depth + 1, prefixed)
        Subs == {Sub(f.args[i]) : i \in 1 .. Len(f.args)}
    IN  IF depth > MaxDepth THEN "Error"
        ELSE CASE f.key = "is_null" ->
                    IF prefixed THEN B((r = NoRow) = f.val) ELSE "Error"
               [] f.key = "field" -> TtLookup(Value(tb, r, f.col), f.lookup)
               [] f.key = "object" -> TtObject(tb, hidden, f, r, depth)
               [] f.key \in {"all", "any", "one_of"} ->
                    IF Len(f.args) > MaxBranches THEN "Error"
                    ELSE IF f.key = "all" THEN Conj(Subs) ELSE Disj(Subs)
               [] f.key = "not_" -> Neg(Sub(f.arg))

-----------------------------------------------------------------------------
\* apply_filters: no condition leaves the query as it was, an error ends it.
Refused == {NoRow}
Selected(clauses) ==
    IF \E r \in DOMAIN clauses : clauses[r] = "Error" THEN Refused
    ELSE {r \in DOMAIN clauses : clauses[r] \in {"T", "None"}}

SaSelected(tb, hidden, f) ==
    Selected([r \in DOMAIN tb |-> SaFilter(tb, hidden, f, r, 0)])
DjSelected(tb, hidden, f) ==
    Selected([r \in DOMAIN tb |-> DjFilter(tb, hidden, f, r, 0, FALSE)])
TtSelected(tb, hidden, f) ==
    Selected([r \in DOMAIN tb |-> TtFilter(tb, hidden, f, r, 0, FALSE)])

-----------------------------------------------------------------------------
(* The meaning the builders are held to: an object filter asks for a       *)
(* related row one may see that passes the filter below it.                *)

RECURSIVE Means(_, _, _, _)
Means(tb, hidden, f, r) ==
    LET Subs == {Means(tb, hidden, f.args[i], r) : i \in 1 .. Len(f.args)}
        seen == {s \in Related(tb, r, f.rel) : Sees(hidden, s)}
    IN  CASE f.key = "field" -> Conj({Compare(Value(tb, r, f.col), lk) : lk \in f.lookup})
          [] f.key = "object" ->
                IF f.arg.key = "is_null" THEN B((seen = {}) = f.arg.val)
                ELSE IF Means(tb, hidden, f.arg, r) = "None" THEN "None"
                ELSE B(\E s \in seen : Means(tb, hidden, f.arg, s) = "T")
          [] f.key = "all" -> Conj(Subs)
          [] f.key \in {"any", "one_of"} -> Disj(Subs)
          [] f.key = "not_" -> Neg(Means(tb, hidden, f.arg, r))
Meant(tb, hidden, f) == Selected([r \in DOMAIN tb |-> Means(tb, hidden, f, r)])

RECURSIVE Nodes(_)
Nodes(f) == {f} \cup (CASE f.key \in {"all", "any", "one_of"} ->
                             UNION {Nodes(f.args[i]) : i \in 1 .. Len(f.args)}
                        [] f.key \in {"not_", "object"} -> Nodes(f.arg)
                        [] OTHER -> {})
Negates(f) == \E g \in Nodes(f) :
    \/ g.key = "not_"
    \/ g.key = "field" /\ \E lk \in g.lookup : lk.op \in {"neq", "not_in_list"}
Traverses(f, rel) == \E g \in Nodes(f) : g.key = "object" /\ g.rel = rel
AsksForAbsence(f) == \E g \in Nodes(f) : g.key = "is_null" /\ g.val
AsksForAbsenceBelow(f) ==
    \E g \in Nodes(f) : g.key = "object" /\ \E h \in Nodes(g.arg) :
        \/ h.key = "field" /\ \E lk \in h.lookup : lk.op = "is_null" /\ lk.val
        \/ h.key = "object" /\ AsksForAbsence(h.arg)
\* The shortcut compares any number of the related row with the key.
MistakesAKey(f) == \E g \in Nodes(f) :
    /\ g.key = "object" /\ g.rel = "boss"
    /\ \E h \in Nodes(g.arg) : /\ h.key = "field" /\ h.col \in IntColumns \ {"id"}
                               /\ \A lk \in h.lookup : lk.op \in FkShortcutOps

=============================================================================
