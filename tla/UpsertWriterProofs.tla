------------------------- MODULE UpsertWriterProofs -------------------------
(***************************************************************************)
(* Proofs about UpsertWriter: a nested write is one unit of work.          *)
(***************************************************************************)
EXTENDS UpsertWriter, FiniteSetTheorems, WellFoundedInduction, TLAPS

\* The steps of the walk, those that end it apart, are seen by nobody else.
LEMMA WalkIsPrivate ==
  ASSUME Step, ~Commit, ~Fail
  PROVE  UNCHANGED <<committed, outcome>>
BY DEF Step, EnterCreate, EnterUpdate, UpsertMisses, UpsertUpdates, UpsertAppends,
       UpsertStays, BeginLink, Insert, Save, DeleteReplaced, BeginItem, FindMember,
       RemoveMember, ReturnLink, ReturnItem

\* Every step of a write is a step of an atomic one, or is not seen.
LEMMA StepsAreAtomic ==
  ASSUME [Next]_vars
  PROVE  [Atomic!Next]_<<committed, outcome>>
<1>1. CASE Send
  BY <1>1 DEF Send, Atomic!Next, Atomic!Begin
<1>2. CASE Commit
  BY <1>2 DEF Commit, Writing, Running, Atomic!Next, Atomic!Succeed
<1>3. CASE Fail
  BY <1>3 DEF Fail, Atomic!Next, Atomic!Abort
<1>4. CASE Step /\ ~Commit /\ ~Fail
  BY <1>4, WalkIsPrivate
<1>5. CASE UNCHANGED vars
  BY <1>5 DEF vars
<1> QED BY <1>1, <1>2, <1>3, <1>4, <1>5 DEF Next

\* A nested write takes effect as a whole when it commits, and an error at any
\* depth leaves nothing behind: UpsertWriter implements AtomicWrite.
THEOREM UpsertIsAtomic == Spec => AllOrNothing
<1>1. Init => Atomic!Init
  BY DEF Init, Atomic!Init
<1> QED BY <1>1, StepsAreAtomic, PTL DEF Spec, AllOrNothing, Atomic!Spec
-----------------------------------------------------------------------------
(* The levels of a payload.                                               *)

\* A set of naturals that is not empty has a least element.
LEMMA LeastElement ==
  ASSUME NEW T, T \subseteq Nat, T # {}
  PROVE  \E n \in T : \A m \in T : ~ m < n
<1> DEFINE R == OpToRel(<, Nat)
<1>1. IsWellFoundedOn(R, Nat)
  BY NatLessThanWellFounded
<1>2. \A m, n \in Nat : m < n => <<m, n>> \in R
  BY DEF OpToRel
<1> HIDE DEF R
<1>3. \E n \in T : \A m \in T : ~ (<<m, n>> \in R)
  BY <1>1, WFMin
<1> QED BY <1>2, <1>3

\* Induction, for the set of the numbers that have a property.
LEMMA SetInduction ==
  ASSUME NEW S, 0 \in S, \A n \in Nat : n \in S => n + 1 \in S
  PROVE  \A n \in Nat : n \in S
<1> SUFFICES ASSUME NEW k \in Nat, k \notin S PROVE FALSE
  OBVIOUS
<1> DEFINE T == {n \in Nat : n \notin S}
<1>1. PICK n \in T : \A m \in T : ~ m < n
  BY LeastElement
<1>2. n # 0 /\ n - 1 \in Nat
  BY <1>1
<1>3. n - 1 \in S
  BY <1>1, <1>2
<1>4. n - 1 + 1 = n
  BY <1>1
<1> QED BY <1>1, <1>2, <1>3, <1>4

\* What a level is, given the one above it.
LevelBelow(r, d, above) == IF d = 1 THEN {r} ELSE UNION {NestedIn(n) : n \in above}

\* However deep payloads may be, their levels are defined.
LEMMA LevelsExist ==
  ASSUME NEW r, NEW n \in Nat
  PROVE  \E L : L = [d \in 1 .. n |-> LevelBelow(r, d, L[d - 1])]
<1> DEFINE Defines(L, m) == L = [d \in 1 .. m |-> LevelBelow(r, d, L[d - 1])]
           S == {m \in Nat : \E L : Defines(L, m)}
<1>1. 0 \in S
  <2>1. Defines([d \in 1 .. 0 |-> {}], 0)
    OBVIOUS
  <2> QED BY <2>1
<1>2. ASSUME NEW m \in Nat, m \in S PROVE m + 1 \in S
  <2>1. PICK L : Defines(L, m)
    BY <1>2
  <2> DEFINE M == [d \in 1 .. m + 1 |-> LevelBelow(r, d, L[d - 1])]
  <2>2. \A d \in 1 .. m : M[d] = L[d]
    BY <2>1
  <2>3. \A d \in 1 .. m + 1 : LevelBelow(r, d, L[d - 1]) = LevelBelow(r, d, M[d - 1])
    <3> TAKE d \in 1 .. m + 1
    <3>1. CASE d = 1
      BY <3>1 DEF LevelBelow
    <3>2. CASE d # 1
      <4>1. d - 1 \in 1 .. m
        BY <3>2
      <4>2. M[d - 1] = L[d - 1]
        BY <2>2, <4>1
      <4> QED BY <4>2
    <3> QED BY <3>1, <3>2
  <2>4. Defines(M, m + 1)
    BY <2>3
  <2> HIDE DEF M, Defines
  <2>5. m + 1 \in Nat /\ \E N : Defines(N, m + 1)
    BY <2>4
  <2> QED BY <2>5
<1> HIDE DEF S
<1>3. n \in S
  BY <1>1, <1>2, SetInduction
<1> QED BY <1>3 DEF S

\* What is nested in an operation of one level belongs to the next one.
LEMMA LevelsGoDown ==
  ASSUME NEW r
  PROVE  /\ Levels(r)[1] = {r}
         /\ \A d \in Nat : 1 <= d /\ d <= MaxVisits =>
              \A n \in Levels(r)[d] : NestedIn(n) \subseteq Levels(r)[d + 1]
<1> DEFINE Is(L) ==
      L = [d \in Depths |-> IF d = 1 THEN {r} ELSE UNION {NestedIn(n) : n \in L[d - 1]}]
<1>1. Levels(r) = CHOOSE L : Is(L)
  BY DEF Levels
<1>0. MaxVisits \in Nat /\ MaxVisits + 1 \in Nat /\ 1 \in Depths
  BY WriterAssumption DEF Depths
<1>2. PICK F : F = [d \in Depths |-> LevelBelow(r, d, F[d - 1])]
  BY <1>0, LevelsExist DEF Depths
<1>3. Is(F)
  BY <1>2 DEF LevelBelow
<1> HIDE DEF Is
<1>4. Is(Levels(r))
  BY <1>1, <1>3
<1> DEFINE L == Levels(r)
           OneDown(X) == UNION {NestedIn(n) : n \in X}
<1>5. \A d \in Depths : L[d] = IF d = 1 THEN {r} ELSE OneDown(L[d - 1])
  BY <1>4 DEF Is
<1> HIDE DEF L
<1>6. L[1] = {r}
  BY <1>0, <1>5
<1>8. \A X : \A n \in X : NestedIn(n) \subseteq OneDown(X)
  OBVIOUS
<1> HIDE DEF OneDown
<1>7. ASSUME NEW d \in Nat, 1 <= d, d <= MaxVisits, NEW n \in L[d]
      PROVE  NestedIn(n) \subseteq L[d + 1]
  <2>1. d + 1 \in Depths /\ d + 1 # 1 /\ d + 1 - 1 = d
    BY <1>0, <1>7 DEF Depths
  <2>2. L[d + 1] = OneDown(L[d])
    BY <1>5, <2>1
  <2> QED BY <1>7, <1>8, <2>2
<1> QED BY <1>6, <1>7 DEF L
-----------------------------------------------------------------------------
(* The walk applies what was validated.                                   *)

\* A frame that has a row to work on knows which one it is.
Rowed(f) ==
  f.saved \/ f.mode \in {"update", "append", "remove"} => f.row \in RowIds

\* What is left of a frame's work is nested in its operation, and only an
\* operation that is applied nests others.
Carried(f) ==
  /\ f.mode \in {"create", "update", "append"} => Node[f.node].op \notin Removals
  /\ \A k \in 1 .. Len(f.links) : Input[f.input][f.links[k]] \in NestedIn(f.node)
  /\ \A k \in 1 .. Len(f.items) : f.items[k] \in NestedIn(f.node)

\* A frame that is so deep in the walk applies an operation that is so deep in
\* the payload.
Fits(f, d) ==
  /\ f \in FrameType
  /\ Rowed(f)
  /\ Carried(f)
  /\ f.node \in Levels(root)[d]
  /\ f.as = "root" <=> d = 1

StackFits(s) ==
  /\ s \in Seq(FrameType)
  /\ Len(s) <= MaxVisits + 1
  /\ \A k \in 1 .. Len(s) : Fits(s[k], Len(s) - k + 1)

WalkInv ==
  /\ TypeOK
  /\ StackFits(stack)
  /\ stack # <<>> => Valid(root)

\* The innermost frame, and those below it.
LEMMA TopAndTail ==
  ASSUME NEW s, StackFits(s), s # <<>>
  PROVE  /\ Fits(Head(s), Len(s))
         /\ Len(s) \in Nat /\ 1 <= Len(s) /\ Len(s) <= MaxVisits + 1
         /\ StackFits(Tail(s)) /\ Len(Tail(s)) = Len(s) - 1
<1>1. s \in Seq(FrameType) /\ Len(s) \in Nat /\ 1 <= Len(s) /\ Len(s) <= MaxVisits + 1
  BY DEF StackFits
<1>2. Head(s) = s[1] /\ Len(s) - 1 + 1 = Len(s)
  BY <1>1
<1>3. Fits(Head(s), Len(s))
  BY <1>1, <1>2 DEF StackFits
<1>4. /\ Tail(s) \in Seq(FrameType) /\ Len(Tail(s)) = Len(s) - 1
      /\ \A k \in 1 .. Len(s) - 1 : Tail(s)[k] = s[k + 1]
  BY <1>1
<1>5. ASSUME NEW k \in 1 .. Len(Tail(s))
      PROVE  Fits(Tail(s)[k], Len(Tail(s)) - k + 1)
  <2>1. k + 1 \in 1 .. Len(s) /\ Len(s) - (k + 1) + 1 = Len(Tail(s)) - k + 1
    BY <1>1, <1>4
  <2>2. Fits(s[k + 1], Len(s) - (k + 1) + 1)
    BY <2>1 DEF StackFits
  <2> QED BY <1>4, <2>1, <2>2
<1>6. Len(Tail(s)) <= MaxVisits + 1
  BY <1>1, <1>4, WriterAssumption
<1> QED BY <1>1, <1>3, <1>4, <1>5, <1>6 DEF StackFits

\* A frame is pushed where it fits.
LEMMA Pushed ==
  ASSUME NEW s, StackFits(s), NEW f, NEW d, d = Len(s) + 1, d <= MaxVisits + 1, Fits(f, d)
  PROVE  /\ StackFits(<<f>> \o s) /\ Len(<<f>> \o s) = d
         /\ <<f>> \o s # <<>>
<1> DEFINE t == <<f>> \o s
<1>1. s \in Seq(FrameType) /\ f \in FrameType /\ Len(s) \in Nat
  BY DEF StackFits, Fits
<1>2. /\ t \in Seq(FrameType) /\ Len(t) = Len(s) + 1 /\ t[1] = f
      /\ \A k \in 1 .. Len(s) : t[k + 1] = s[k]
  BY <1>1
<1> HIDE DEF t
<1>3. ASSUME NEW k \in 1 .. Len(t) PROVE Fits(t[k], Len(t) - k + 1)
  <2>1. CASE k = 1
    <3>1. Len(t) - k + 1 = d
      BY <1>1, <1>2, <2>1
    <3> QED BY <1>2, <2>1, <3>1
  <2>2. CASE k # 1
    <3>1. k - 1 \in 1 .. Len(s) /\ k - 1 + 1 = k /\ Len(s) - (k - 1) + 1 = Len(t) - k + 1
      BY <1>1, <1>2, <2>2
    <3>2. t[k] = s[k - 1]
      BY <1>2, <3>1
    <3>3. Fits(s[k - 1], Len(s) - (k - 1) + 1)
      BY <3>1 DEF StackFits
    <3> QED BY <3>1, <3>2, <3>3
  <2> QED BY <2>1, <2>2
<1>4. t # <<>>
  BY <1>1, <1>2
<1> QED BY <1>2, <1>3, <1>4 DEF StackFits, t

\* The innermost frame is replaced by one that fits.
LEMMA Becomes ==
  ASSUME NEW s, StackFits(s), s # <<>>, NEW f, Fits(f, Len(s))
  PROVE  /\ StackFits(<<f>> \o Tail(s)) /\ Len(<<f>> \o Tail(s)) = Len(s)
         /\ <<f>> \o Tail(s) # <<>>
<1>1. /\ StackFits(Tail(s)) /\ Len(Tail(s)) = Len(s) - 1
      /\ Len(s) \in Nat /\ Len(s) <= MaxVisits + 1
  BY TopAndTail
<1>2. Len(s) = Len(Tail(s)) + 1
  BY <1>1
<1> QED BY <1>1, <1>2, Pushed

\* A step of the walk keeps the invariant if what it leaves fits.
LEMMA WalkStepsKeep ==
  ASSUME WalkInv, stack # <<>>, UNCHANGED <<committed, outcome, walkVars>>,
         IsTable(db'), StackFits(stack')
  PROVE  WalkInv'
<1>1. /\ UNCHANGED <<orm, root, sent, done, start, committed, outcome>>
      /\ Valid(root) /\ TypeOK
  BY DEF walkVars, WalkInv
<1>2. StackFits(stack)'
  BY <1>1 DEF StackFits, Fits
<1>3. Valid(root)'
  BY <1>1
<1>4. stack' \in Seq(FrameType)
  BY DEF StackFits
<1>5. TypeOK'
  BY <1>1, <1>4 DEF TypeOK
<1> QED BY <1>2, <1>3, <1>5 DEF WalkInv

-----------------------------------------------------------------------------
(* Rows and tables.                                                       *)

LEMMA RowsOfTables ==
  ASSUME NEW t, IsTable(t), NEW r \in DOMAIN t
  PROVE  r \in RowIds /\ t[r] \in Row
BY DEF IsTable

\* A table of which one row is written.
LEMMA RowsWritten ==
  ASSUME NEW t, IsTable(t), NEW r \in RowIds, NEW row \in Row
  PROVE  /\ IsTable(With(t, r, row))
         /\ IsTable([t EXCEPT ![r] = row])
<1>1. With(t, r, row) = [x \in DOMAIN t \cup {r} |-> IF x = r THEN row ELSE t[x]]
  BY DEF With
<1>2. IsTable(With(t, r, row))
  BY <1>1 DEF IsTable
<1>3. IsTable([t EXCEPT ![r] = row])
  BY DEF IsTable
<1> QED BY <1>2, <1>3

\* A value that a column takes.
Fills(c, v) == IF c = "key" THEN v \in Keys \cup {None}
                            ELSE c \in Columns /\ v \in RowIds \cup {None}

LEMMA RowsFilled ==
  ASSUME NEW row \in Row, NEW c, NEW v, Fills(c, v)
  PROVE  [row EXCEPT ![c] = v] \in Row
<1>1. CASE c = "key"
  BY <1>1 DEF Fills, Row
<1>2. CASE c = "owner"
  BY <1>2 DEF Fills, Row
<1>3. CASE c = "a"
  BY <1>3 DEF Fills, Row
<1>4. CASE c = "b"
  BY <1>4 DEF Fills, Row
<1> QED BY <1>1, <1>2, <1>3, <1>4 DEF Fills, Columns, Links

LEMMA SetNowIsTable ==
  ASSUME IsTable(db), NEW r, NEW c, NEW v, Fills(c, v)
  PROVE  IsTable(SetNow(r, c, v))
<1>1. CASE r \in DOMAIN db
  <2>1. db[r] \in Row /\ r \in RowIds
    BY <1>1, RowsOfTables
  <2>2. [db[r] EXCEPT ![c] = v] \in Row
    BY <2>1, RowsFilled
  <2>3. IsTable([db EXCEPT ![r] = [db[r] EXCEPT ![c] = v]])
    BY <2>1, <2>2, RowsWritten
  <2>4. [db EXCEPT ![r][c] = v] = [db EXCEPT ![r] = [db[r] EXCEPT ![c] = v]]
    BY <1>1
  <2> QED BY <2>3, <2>4 DEF SetNow
<1>2. CASE r \notin DOMAIN db
  BY <1>2 DEF SetNow
<1> QED BY <1>1, <1>2

\* References to rows that have gone are emptied.
LEMMA DeletedIsTable ==
  ASSUME NEW t, IsTable(t), NEW r
  PROVE  IsTable(Deleted(t, r))
<1> DEFINE G == Takes(t, r)
           kept(x) == [t[x] EXCEPT !.owner = IF @ \in G THEN None ELSE @,
                                   !.a = IF @ \in G THEN None ELSE @,
                                   !.b = IF @ \in G THEN None ELSE @]
<1>1. Deleted(t, r) = [x \in DOMAIN t \ G |-> kept(x)]
  BY DEF Deleted
<1> HIDE DEF G
<1>2. \A x \in DOMAIN t : kept(x) \in Row /\ x \in RowIds
  <2> TAKE x \in DOMAIN t
  <2>1. t[x] \in Row /\ x \in RowIds
    BY RowsOfTables
  <2> QED BY <2>1 DEF Row
<1> HIDE DEF kept
<1> QED BY <1>1, <1>2 DEF IsTable
-----------------------------------------------------------------------------
(* Operations and frames.                                                 *)

LEMMA NodesTyped ==
  ASSUME NEW n \in Nodes
  PROVE  /\ Node[n].op \in {"create", "update", "upsert"} \cup Removals
         /\ Node[n].id \in RowIds \cup {None}
         /\ Node[n].where \in Keys \cup {None}
         /\ Node[n].create \in Inputs \cup {None}
         /\ Node[n].update \in Inputs \cup {None}
         /\ Node[n].op = "create" => Node[n].create \in Inputs
         /\ Node[n].op = "update" => Node[n].update \in Inputs
<1>1. Node[n] \in NodeRecord
  BY PayloadAssumption
<1>2. /\ Node[n].op = "create" => Node[n].create # None
      /\ Node[n].op = "update" => Node[n].update # None
  BY PayloadAssumption
<1> QED BY <1>1, <1>2 DEF NodeRecord

LEMMA InputsTyped ==
  ASSUME NEW i \in Inputs
  PROVE  /\ Input[i].key \in Keys \cup {None}
         /\ Input[i].a \in Nodes \cup {None} /\ Input[i].b \in Nodes \cup {None}
         /\ Input[i].items \in Seq(Nodes)
         /\ i # None
<1>1. Input[i] \in InputRecord /\ i # None
  BY PayloadAssumption
<1> QED BY <1>1 DEF InputRecord

\* What an input carries is nested in it.
LEMMA ItemsAreChildren ==
  ASSUME NEW i \in Inputs
  PROVE  \A k \in 1 .. Len(Input[i].items) :
           Input[i].items[k] \in ChildrenOf(i)
<1>1. Input[i].items \in Seq(Nodes) /\ i # None
  BY InputsTyped
<1>2. DOMAIN Input[i].items = 1 .. Len(Input[i].items)
  BY <1>1
<1> QED BY <1>1, <1>2 DEF ChildrenOf

LEMMA LinksAreChildren ==
  ASSUME NEW i \in Inputs
  PROVE  /\ LinksOf(i) \in Seq(Links)
         /\ \A k \in 1 .. Len(LinksOf(i)) : Input[i][LinksOf(i)[k]] \in ChildrenOf(i)
<1>1. i # None
  BY InputsTyped
<1>2. \A c \in Links :
        /\ LinkOf(i, c) \in Seq(Links)
        /\ \A k \in 1 .. Len(LinkOf(i, c)) : Input[i][LinkOf(i, c)[k]] \in ChildrenOf(i)
  <2> TAKE c \in Links
  <2>1. CASE Input[i][c] # None
    <3>1. LinkOf(i, c) = <<c>>
      BY <2>1 DEF LinkOf
    <3>2. Input[i][c] \in ChildrenOf(i)
      <4>1. Input[i].a # None => Input[i].a \in ChildrenOf(i)
        BY <1>1 DEF ChildrenOf
      <4>2. Input[i].b # None => Input[i].b \in ChildrenOf(i)
        BY <1>1 DEF ChildrenOf
      <4>3. CASE c = "a"
        BY <2>1, <4>1, <4>3
      <4>4. CASE c = "b"
        BY <2>1, <4>2, <4>4
      <4> QED BY <4>3, <4>4 DEF Links
    <3> QED BY <3>1, <3>2
  <2>2. CASE Input[i][c] = None
    BY <2>2 DEF LinkOf
  <2> QED BY <2>1, <2>2
<1> DEFINE p == LinkOf(i, "a")
           q == LinkOf(i, "b")
<1>3. /\ p \in Seq(Links) /\ \A k \in 1 .. Len(p) : Input[i][p[k]] \in ChildrenOf(i)
      /\ q \in Seq(Links) /\ \A k \in 1 .. Len(q) : Input[i][q[k]] \in ChildrenOf(i)
  BY <1>2 DEF Links
<1> DEFINE pq == p \o q
<1>4. LinksOf(i) = pq
  BY DEF LinksOf
<1> HIDE DEF p, q
<1>5. pq \in Seq(Links) /\ Len(pq) = Len(p) + Len(q)
  BY <1>3
<1>6. ASSUME NEW k \in 1 .. Len(pq) PROVE Input[i][pq[k]] \in ChildrenOf(i)
  <2>1. CASE k <= Len(p)
    <3>1. k \in 1 .. Len(p) /\ pq[k] = p[k]
      BY <1>3, <1>5, <2>1
    <3> QED BY <1>3, <3>1
  <2>2. CASE ~ k <= Len(p)
    <3>1. k - Len(p) \in 1 .. Len(q) /\ pq[k] = q[k - Len(p)]
      BY <1>3, <1>5, <2>2
    <3> QED BY <1>3, <3>1
  <2> QED BY <2>1, <2>2
<1> QED BY <1>4, <1>5, <1>6

\* The operations nested in an operation.
LEMMA NestedAreNodes ==
  ASSUME NEW n \in Nodes
  PROVE  /\ NestedIn(n) \subseteq Nodes
         /\ \A i \in Inputs : i \in {Node[n].create, Node[n].update}
              => ChildrenOf(i) \subseteq NestedIn(n)
<1>1. \A i \in Inputs \cup {None} : ChildrenOf(i) \subseteq Nodes
  <2> TAKE i \in Inputs \cup {None}
  <2>1. CASE i = None
    BY <2>1 DEF ChildrenOf
  <2>2. CASE i \in Inputs
    <3>1. /\ Input[i].a \in Nodes \cup {None} /\ Input[i].b \in Nodes \cup {None}
          /\ Input[i].items \in Seq(Nodes)
      BY <2>2, InputsTyped
    <3>2. \A k \in DOMAIN Input[i].items : Input[i].items[k] \in Nodes
      BY <3>1
    <3> QED BY <3>1, <3>2 DEF ChildrenOf
  <2> QED BY <2>1, <2>2
<1> QED BY <1>1, NodesTyped DEF NestedIn

\* A frame that begins fits below the one that awaits it.
LEMMA FrameBegins ==
  ASSUME NEW n \in Nodes, NEW parent \in RowIds \cup {None},
         NEW as \in Links \cup {"root", "item"}, NEW d,
         n \in Levels(root)[d], as = "root" <=> d = 1
  PROVE  Fits(Frame(n, parent, as), d)
<1> DEFINE f == Frame(n, parent, as)
<1> DEFINE blank == [key |-> None, owner |-> None, a |-> None, b |-> None]
           no == FALSE
<1>0. /\ blank \in Row /\ no \in BOOLEAN
      /\ <<>> \in Seq(Links) /\ <<>> \in Seq(Nodes) /\ <<>> \in Seq(RowIds)
  BY DEF Row
<1>4. f = [mode |-> "enter", node |-> n, parent |-> parent, as |-> as, row |-> None,
           data |-> blank, input |-> None, links |-> <<>>, items |-> <<>>,
           replaced |-> <<>>, saved |-> no]
  BY DEF Frame
<1> HIDE DEF blank, no, f
<1>1. f \in FrameType
  BY <1>0, <1>4 DEF FrameType
<1>2. /\ f.mode = "enter" /\ f.saved = FALSE /\ f.links = <<>> /\ f.items = <<>>
      /\ f.node = n /\ f.as = as
  BY DEF f, Frame
<1>3. Rowed(f) /\ Carried(f)
  BY <1>2 DEF Rowed, Carried
<1> QED BY <1>1, <1>2, <1>3 DEF Fits, f

\* A frame that starts to apply one of its operation's inputs fits where it is.
LEMMA FrameApplies ==
  ASSUME NEW f, NEW d, Fits(f, d), NEW g \in FrameType, Rowed(g),
         g.node = f.node, g.as = f.as,
         Node[f.node].op \notin Removals,
         NEW i \in Inputs, i \in {Node[f.node].create, Node[f.node].update},
         g.links = <<>> \/ (g.links = LinksOf(i) /\ g.input = i),
         g.items = <<>> \/ g.items = Input[i].items
  PROVE  Fits(g, d)
<1>1. f.node \in Nodes
  BY DEF Fits, FrameType
<1>2. ChildrenOf(i) \subseteq NestedIn(f.node)
  BY <1>1, NestedAreNodes
<1>3. \A k \in 1 .. Len(g.links) : Input[g.input][g.links[k]] \in NestedIn(g.node)
  BY <1>2, LinksAreChildren
<1>4. \A k \in 1 .. Len(g.items) : g.items[k] \in NestedIn(g.node)
  BY <1>2, ItemsAreChildren
<1> QED BY <1>3, <1>4 DEF Fits, Carried

\* A frame that goes on with what is left of its work fits where it is.
LEMMA FrameGoesOn ==
  ASSUME NEW f, NEW d, Fits(f, d), NEW g \in FrameType, Rowed(g),
         g.node = f.node, g.as = f.as, g.mode \in {f.mode, "remove"}, g.input = f.input,
         g.links = f.links \/ (f.links # <<>> /\ g.links = Tail(f.links)),
         g.items = f.items \/ (f.items # <<>> /\ g.items = Tail(f.items))
  PROVE  Fits(g, d)
<1>1. f \in FrameType /\ f.links \in Seq(Links) /\ f.items \in Seq(Nodes)
  BY DEF Fits, FrameType
<1>2. \A k \in 1 .. Len(g.links) : \E m \in 1 .. Len(f.links) : g.links[k] = f.links[m]
  <2>1. CASE g.links = f.links
    BY <2>1
  <2>2. CASE f.links # <<>> /\ g.links = Tail(f.links)
    <3> TAKE k \in 1 .. Len(g.links)
    <3>1. k + 1 \in 1 .. Len(f.links) /\ g.links[k] = f.links[k + 1]
      BY <1>1, <2>2
    <3> QED BY <3>1
  <2> QED BY <2>1, <2>2
<1>3. \A k \in 1 .. Len(g.items) : \E m \in 1 .. Len(f.items) : g.items[k] = f.items[m]
  <2>1. CASE g.items = f.items
    BY <2>1
  <2>2. CASE f.items # <<>> /\ g.items = Tail(f.items)
    <3> TAKE k \in 1 .. Len(g.items)
    <3>1. k + 1 \in 1 .. Len(f.items) /\ g.items[k] = f.items[k + 1]
      BY <1>1, <2>2
    <3> QED BY <3>1
  <2> QED BY <2>1, <2>2
<1> QED BY <1>2, <1>3 DEF Fits, Carried
-----------------------------------------------------------------------------
(* The steps of the walk.                                                 *)

\* The innermost frame, while the walk runs.
LEMMA TopFrame ==
  ASSUME WalkInv, stack # <<>>
  PROVE  /\ top \in FrameType /\ Fits(top, Len(stack)) /\ Rowed(top)
         /\ top.node \in Nodes /\ op = Node[top.node]
         /\ IsTable(db)
BY TopAndTail DEF WalkInv, TypeOK, Fits, FrameType, top, op

\* The frame that is becoming a create.
LEMMA CreateFrameFits ==
  ASSUME WalkInv, stack # <<>>, NEW i \in Inputs, i = op.create,
         NEW where \in Keys \cup {None}, op.op \notin Removals
  PROVE  Fits(CreateFrame(i, where), Len(stack))
<1> DEFINE g == CreateFrame(i, where)
<1>1. top \in FrameType /\ Fits(top, Len(stack)) /\ Rowed(top) /\ op = Node[top.node]
  BY TopFrame
<1>2. top.data \in Row
  BY <1>1 DEF FrameType
<1>3. Seeded(i, where) \in Keys \cup {None}
  BY InputsTyped DEF Seeded
<1>4. [top.data EXCEPT !.key = Seeded(i, where)] \in Row
  BY <1>2, <1>3, RowsFilled DEF Fills
<1>5. LinksOf(i) \in Seq(Links) /\ Input[i].items \in Seq(Nodes)
  BY LinksAreChildren, InputsTyped
<1> DEFINE data == [top.data EXCEPT !.key = Seeded(i, where)]
<1>6. g = [top EXCEPT !.mode = "create", !.input = i, !.links = LinksOf(i),
             !.items = Input[i].items, !.data = data]
  BY <1>1 DEF CreateFrame, FrameType
<1> HIDE DEF data
<1>7. data \in Row
  BY <1>4 DEF data
<1>8. /\ g \in FrameType
      /\ g.mode = "create" /\ g.input = i /\ g.links = LinksOf(i)
      /\ g.items = Input[i].items /\ g.node = top.node /\ g.as = top.as
      /\ g.saved = top.saved /\ g.row = top.row
  BY <1>1, <1>5, <1>6, <1>7 DEF FrameType
<1> HIDE DEF g
<1>9. Rowed(g)
  BY <1>1, <1>8 DEF Rowed
<1> QED BY <1>1, <1>8, <1>9, FrameApplies DEF g

LEMMA UpdateFrameFits ==
  ASSUME WalkInv, stack # <<>>, NEW i \in Inputs, i = op.update,
         NEW r \in DOMAIN db, op.op \notin Removals
  PROVE  /\ Fits(UpdateFrame(i, r), Len(stack))
         /\ IsTable(SetNow(r, "key", NewKey(i, r)))
<1> DEFINE g == UpdateFrame(i, r)
<1>1. /\ top \in FrameType /\ Fits(top, Len(stack)) /\ Rowed(top) /\ op = Node[top.node]
      /\ IsTable(db)
  BY TopFrame
<1>2. db[r] \in Row /\ r \in RowIds
  BY <1>1, RowsOfTables
<1>3. NewKey(i, r) \in Keys \cup {None}
  BY <1>2, InputsTyped DEF NewKey, Row
<1>4. [db[r] EXCEPT !.key = NewKey(i, r)] \in Row
  BY <1>2, <1>3, RowsFilled DEF Fills
<1>5. LinksOf(i) \in Seq(Links) /\ Input[i].items \in Seq(Nodes)
  BY LinksAreChildren, InputsTyped
<1> DEFINE data == [db[r] EXCEPT !.key = NewKey(i, r)]
<1>6. g = [top EXCEPT !.mode = "update", !.input = i, !.row = r, !.links = LinksOf(i),
             !.items = Input[i].items, !.data = data]
  BY DEF UpdateFrame
<1> HIDE DEF data
<1>7. data \in Row
  BY <1>4 DEF data
<1>8. /\ g \in FrameType
      /\ g.mode = "update" /\ g.input = i /\ g.links = LinksOf(i)
      /\ g.items = Input[i].items /\ g.node = top.node /\ g.as = top.as
      /\ g.row = r
  BY <1>1, <1>2, <1>5, <1>6, <1>7 DEF FrameType
<1> HIDE DEF g
<1>9. Rowed(g)
  BY <1>2, <1>8 DEF Rowed
<1>10. Fits(g, Len(stack))
  BY <1>1, <1>8, <1>9, FrameApplies
<1>11. IsTable(SetNow(r, "key", NewKey(i, r)))
  BY <1>1, <1>3, SetNowIsTable DEF Fills
<1> QED BY <1>10, <1>11 DEF g

\* A matched row is left alone; what is added below it is nested in the operation.
LEMMA AppendFrameFits ==
  ASSUME WalkInv, stack # <<>>, NEW r \in DOMAIN db, op.op = "upsert",
         NEW items, items = <<>> \/ (op.create # None /\ items = Input[op.create].items)
  PROVE  Fits(AppendFrame(r, items), Len(stack))
<1> DEFINE g == AppendFrame(r, items)
<1>1. /\ top \in FrameType /\ Fits(top, Len(stack)) /\ op = Node[top.node]
      /\ IsTable(db) /\ top.node \in Nodes
  BY TopFrame
<1>2. db[r] \in Row /\ r \in RowIds
  BY <1>1, RowsOfTables
<1>3. op.create # None => op.create \in Inputs
  BY <1>1, NodesTyped
<1>4. items \in Seq(Nodes)
  <2>1. CASE items = <<>>
    BY <2>1
  <2>2. CASE op.create # None /\ items = Input[op.create].items
    BY <1>3, <2>2, InputsTyped
  <2> QED BY <2>1, <2>2
<1>5. g = [top EXCEPT !.mode = "append", !.row = r, !.data = db[r], !.items = items,
             !.saved = TRUE]
  BY DEF AppendFrame
<1>6. /\ g \in FrameType
      /\ g.mode = "append" /\ g.row = r /\ g.items = items
      /\ g.links = top.links /\ g.input = top.input
      /\ g.node = top.node /\ g.as = top.as
  BY <1>1, <1>2, <1>4, <1>5 DEF FrameType
<1> HIDE DEF g
<1>7. /\ Rowed(g)
      /\ \A k \in 1 .. Len(g.links) : Input[g.input][g.links[k]] \in NestedIn(g.node)
  BY <1>1, <1>2, <1>6 DEF Rowed, Fits, Carried
<1>8. op.op \notin Removals
  BY DEF Removals
<1>9. \A k \in 1 .. Len(g.items) : g.items[k] \in NestedIn(g.node)
  <2>1. CASE items = <<>>
    BY <1>6, <2>1
  <2>2. CASE op.create # None /\ items = Input[op.create].items
    <3>1. op.create \in Inputs
      BY <1>3, <2>2
    <3>2. ChildrenOf(op.create) \subseteq NestedIn(top.node)
      BY <1>1, <3>1, NestedAreNodes
    <3> QED BY <1>6, <2>2, <3>1, <3>2, ItemsAreChildren
  <2> QED BY <2>1, <2>2
<1>10. Carried(g)
  BY <1>1, <1>6, <1>7, <1>8, <1>9 DEF Carried
<1> QED BY <1>1, <1>6, <1>7, <1>10 DEF Fits, g
\* The innermost frame goes on.
LEMMA BecomeKeeps ==
  ASSUME WalkInv, stack # <<>>, UNCHANGED <<committed, outcome, walkVars>>,
         IsTable(db'), NEW f, Fits(f, Len(stack)), Become(f)
  PROVE  WalkInv'
<1>1. StackFits(stack)
  BY DEF WalkInv
<1>2. stack' = <<f>> \o Tail(stack)
  BY DEF Become
<1>3. StackFits(stack')
  BY <1>1, <1>2, Becomes
<1> QED BY <1>3, WalkStepsKeep

\* An operation is applied to what its turn finds.
LEMMA EntersKeep ==
  ASSUME WalkInv,
         EnterCreate \/ EnterUpdate \/ UpsertMisses
           \/ \E r \in RowIds : UpsertUpdates(r) \/ UpsertAppends(r) \/ UpsertStays(r)
  PROVE  WalkInv'
<1>1. stack # <<>> /\ UNCHANGED <<committed, outcome, walkVars>>
  BY DEF EnterCreate, EnterUpdate, UpsertMisses, UpsertUpdates, UpsertAppends,
         UpsertStays, Matched, Running
<1>2. /\ top \in FrameType /\ top.node \in Nodes /\ op = Node[top.node] /\ IsTable(db)
  BY <1>1, TopFrame
<1>3. /\ op.create \in Inputs \cup {None} /\ op.update \in Inputs \cup {None}
      /\ op.where \in Keys \cup {None}
      /\ op.op = "create" => op.create \in Inputs
      /\ op.op = "update" => op.update \in Inputs
  BY <1>2, NodesTyped
<1>4. CASE EnterCreate
  <2>1. op.op \notin Removals /\ op.create \in Inputs /\ db' = db
        /\ Become(CreateFrame(op.create, None))
    BY <1>3, <1>4 DEF EnterCreate, Removals
  <2>2. Fits(CreateFrame(op.create, None), Len(stack))
    BY <1>1, <2>1, CreateFrameFits
  <2> QED BY <1>1, <1>2, <2>1, <2>2, BecomeKeeps
<1>5. CASE EnterUpdate
  <2>1. op.op \notin Removals /\ op.update \in Inputs /\ op.id \in DOMAIN db
        /\ Become(UpdateFrame(op.update, op.id))
        /\ db' = SetNow(op.id, "key", NewKey(op.update, op.id))
    BY <1>3, <1>5 DEF EnterUpdate, Removals
  <2>2. Fits(UpdateFrame(op.update, op.id), Len(stack)) /\ IsTable(db')
    BY <1>1, <2>1, UpdateFrameFits
  <2> QED BY <1>1, <2>1, <2>2, BecomeKeeps
<1>6. CASE UpsertMisses
  <2>1. op.op \notin Removals /\ op.create \in Inputs /\ db' = db
        /\ Become(CreateFrame(op.create, op.where))
    BY <1>3, <1>6 DEF UpsertMisses, Removals
  <2>2. Fits(CreateFrame(op.create, op.where), Len(stack))
    BY <1>1, <1>3, <2>1, CreateFrameFits
  <2> QED BY <1>1, <1>2, <2>1, <2>2, BecomeKeeps
<1>7. ASSUME NEW r \in RowIds, UpsertUpdates(r) PROVE WalkInv'
  <2>1. op.op \notin Removals /\ op.update \in Inputs /\ r \in DOMAIN db
        /\ Become(UpdateFrame(op.update, r))
        /\ db' = SetNow(r, "key", NewKey(op.update, r))
    <3>1. r \in Matches(op.where, top.parent)
      BY <1>7 DEF UpsertUpdates, Matched
    <3>2. r \in DOMAIN db
      BY <3>1 DEF Matches
    <3> QED BY <1>3, <1>7, <3>2 DEF UpsertUpdates, Matched, Removals
  <2>2. Fits(UpdateFrame(op.update, r), Len(stack)) /\ IsTable(db')
    BY <1>1, <2>1, UpdateFrameFits
  <2> QED BY <1>1, <2>1, <2>2, BecomeKeeps
<1>8. ASSUME NEW r \in RowIds, UpsertAppends(r) \/ UpsertStays(r) PROVE WalkInv'
  <2>1. op.op = "upsert" /\ r \in DOMAIN db /\ db' = db
    <3>1. Matched(r) /\ db' = db
      BY <1>8 DEF UpsertAppends, UpsertStays
    <3>2. r \in Matches(op.where, top.parent) /\ op.op = "upsert"
      BY <3>1 DEF Matched
    <3> QED BY <3>1, <3>2 DEF Matches
  <2>2. PICK items : /\ items = <<>> \/ (op.create # None /\ items = Input[op.create].items)
                     /\ Become(AppendFrame(r, items))
    <3>1. CASE UpsertAppends(r)
      <4>1. /\ op.create # None
            /\ Become(AppendFrame(r, Input[op.create].items))
        BY <3>1 DEF UpsertAppends
      <4> QED BY <4>1
    <3>2. CASE UpsertStays(r)
      <4>1. Become(AppendFrame(r, <<>>))
        BY <3>2 DEF UpsertStays
      <4> QED BY <4>1
    <3> QED BY <1>8, <3>1, <3>2
  <2>3. Fits(AppendFrame(r, items), Len(stack))
    BY <1>1, <2>1, <2>2, AppendFrameFits
  <2> QED BY <1>1, <1>2, <2>1, <2>2, <2>3, BecomeKeeps
<1> QED BY <1>4, <1>5, <1>6, <1>7, <1>8

\* What is nested in an operation that is applied belongs one level deeper.
LEMMA NestedGoesDeeper ==
  ASSUME WalkInv, Writing, NEW n \in NestedIn(top.node), NEW parent \in RowIds \cup {None},
         NEW as \in Links \cup {"item"}
  PROVE  /\ Len(stack) + 1 <= MaxVisits + 1
         /\ Fits(Frame(n, parent, as), Len(stack) + 1)
<1>1. stack # <<>> /\ top.mode \in {"create", "update", "append"}
  BY DEF Writing, Running
<1>2. Fits(top, Len(stack)) /\ top.node \in Nodes
  BY <1>1, TopFrame
<1>3. /\ Node[top.node].op \notin Removals
      /\ top.node \in Levels(root)[Len(stack)]
  BY <1>1, <1>2 DEF Fits, Carried
<1>4. /\ StackFits(stack) /\ Valid(root)
      /\ Len(stack) \in Nat /\ 1 <= Len(stack) /\ Len(stack) <= MaxVisits + 1
  BY <1>1, TopAndTail DEF WalkInv
<1>5. Allowed(top.node, Len(stack))
  BY <1>3, <1>4, WriterAssumption DEF Valid, Depths
<1>6. Len(stack) <= MaxVisits
  BY <1>3, <1>5 DEF Allowed
<1>7. n \in Levels(root)[Len(stack) + 1]
  BY <1>3, <1>4, <1>6, LevelsGoDown
<1>8. n \in Nodes
  BY <1>2, NestedAreNodes
<1>9. as # "root"
  BY DEF Links
<1>10. Len(stack) + 1 # 1 /\ Len(stack) + 1 <= MaxVisits + 1
  <2>1. MaxVisits \in Nat
    BY WriterAssumption
  <2> QED BY <1>4, <1>6, <2>1
<1> QED BY <1>7, <1>8, <1>9, <1>10, FrameBegins

\* A frame is pushed and another waits for it.
LEMMA BeginKeeps ==
  ASSUME WalkInv, Writing, UNCHANGED <<committed, db, outcome, walkVars>>,
         NEW n \in NestedIn(top.node), NEW parent \in RowIds \cup {None},
         NEW as \in Links \cup {"item"},
         NEW g, Fits(g, Len(stack)),
         stack' = <<Frame(n, parent, as), g>> \o Tail(stack)
  PROVE  WalkInv'
<1> DEFINE f == Frame(n, parent, as)
           s == <<g>> \o Tail(stack)
<1>1. stack # <<>> /\ StackFits(stack) /\ IsTable(db')
  BY DEF Writing, Running, WalkInv, TypeOK
<1>2. Fits(f, Len(stack) + 1) /\ Len(stack) + 1 <= MaxVisits + 1
  BY NestedGoesDeeper
<1> HIDE DEF f
<1>3. StackFits(s) /\ Len(s) = Len(stack)
  BY <1>1, Becomes
<1>4. stack' = <<f>> \o s
  <2>1. /\ Tail(stack) \in Seq(FrameType) /\ f \in FrameType /\ g \in FrameType
    BY <1>1, <1>2, TopAndTail DEF StackFits, Fits
  <2>2. <<f, g>> \o Tail(stack) = <<f>> \o (<<g>> \o Tail(stack))
    BY <2>1
  <2> QED BY <2>2 DEF f
<1> HIDE DEF s
<1>5. StackFits(stack')
  BY <1>2, <1>3, <1>4, Pushed
<1> QED BY <1>1, <1>5, WalkStepsKeep

LEMMA BeginLinkKeeps ==
  ASSUME WalkInv, BeginLink
  PROVE  WalkInv'
<1> DEFINE c == Head(top.links)
           g == [top EXCEPT !.links = Tail(@)]
<1>1. /\ Writing /\ stack # <<>> /\ top.links # <<>>
      /\ UNCHANGED <<committed, db, outcome, walkVars>>
      /\ stack' = <<Frame(Input[top.input][c], None, c), g>> \o Tail(stack)
  BY DEF BeginLink, Writing, Running, Linked
<1>2. top \in FrameType /\ Fits(top, Len(stack)) /\ Rowed(top)
  BY <1>1, TopFrame
<1>3. /\ top.links \in Seq(Links) /\ Len(top.links) > 0 /\ Tail(top.links) \in Seq(Links)
      /\ c = top.links[1] /\ c \in Links
  BY <1>1, <1>2 DEF FrameType
<1>4. Input[top.input][c] \in NestedIn(top.node)
  BY <1>2, <1>3 DEF Fits, Carried
<1>5. /\ g \in FrameType /\ g.links = Tail(top.links)
      /\ g.node = top.node /\ g.as = top.as /\ g.mode = top.mode /\ g.input = top.input
      /\ g.items = top.items /\ g.row = top.row /\ g.saved = top.saved
  BY <1>2, <1>3 DEF FrameType
<1> HIDE DEF g, c
<1>6. Rowed(g)
  BY <1>2, <1>5 DEF Rowed
<1>8. /\ g.mode \in {top.mode, "remove"}
      /\ g.links = top.links \/ (top.links # <<>> /\ g.links = Tail(top.links))
      /\ g.items = top.items \/ (top.items # <<>> /\ g.items = Tail(top.items))
  BY <1>1, <1>5
<1>7. Fits(g, Len(stack))
  BY <1>2, <1>5, <1>6, <1>8, FrameGoesOn
<1> QED BY <1>1, <1>3, <1>4, <1>7, BeginKeeps

LEMMA BeginItemKeeps ==
  ASSUME WalkInv, BeginItem
  PROVE  WalkInv'
<1> DEFINE g == [top EXCEPT !.items = Tail(@)]
<1>1. /\ Writing /\ stack # <<>> /\ top.items # <<>>
      /\ UNCHANGED <<committed, db, outcome, walkVars>>
      /\ stack' = <<Frame(Head(top.items), top.row, "item"), g>> \o Tail(stack)
  BY DEF BeginItem, Writing, Running
<1>2. top \in FrameType /\ Fits(top, Len(stack)) /\ Rowed(top)
  BY <1>1, TopFrame
<1>3. /\ top.items \in Seq(Nodes) /\ Len(top.items) > 0 /\ Tail(top.items) \in Seq(Nodes)
      /\ Head(top.items) = top.items[1] /\ top.row \in RowIds \cup {None}
  BY <1>1, <1>2 DEF FrameType
<1>4. Head(top.items) \in NestedIn(top.node)
  BY <1>2, <1>3 DEF Fits, Carried
<1>5. /\ g \in FrameType /\ g.items = Tail(top.items)
      /\ g.node = top.node /\ g.as = top.as /\ g.mode = top.mode /\ g.input = top.input
      /\ g.links = top.links /\ g.row = top.row /\ g.saved = top.saved
  BY <1>2, <1>3 DEF FrameType
<1> HIDE DEF g
<1>6. Rowed(g)
  BY <1>2, <1>5 DEF Rowed
<1>8. /\ g.mode \in {top.mode, "remove"}
      /\ g.links = top.links \/ (top.links # <<>> /\ g.links = Tail(top.links))
      /\ g.items = top.items \/ (top.items # <<>> /\ g.items = Tail(top.items))
  BY <1>1, <1>5
<1>7. Fits(g, Len(stack))
  BY <1>2, <1>5, <1>6, <1>8, FrameGoesOn
<1> QED BY <1>1, <1>3, <1>4, <1>7, BeginKeeps
\* The row is inserted, or what it holds is saved.
LEMMA WritesKeep ==
  ASSUME WalkInv, Insert \/ Save
  PROVE  WalkInv'
<1>1. stack # <<>> /\ UNCHANGED <<committed, outcome, walkVars>>
  BY DEF Insert, Save, Running
<1>2. top \in FrameType /\ Fits(top, Len(stack)) /\ Rowed(top) /\ IsTable(db)
  BY <1>1, TopFrame
<1>3. CASE Insert
  <2> DEFINE row == [top.data EXCEPT !.owner = top.parent]
             g == [top EXCEPT !.row = NewId, !.data = row, !.saved = TRUE]
  <2>1. db' = With(db, NewId, row) /\ Become(g) /\ RowIds \ DOMAIN db # {}
    BY <1>3 DEF Insert
  <2>2. NewId \in RowIds
    BY <2>1 DEF NewId
  <2>3. row \in Row
    <3>1. top.data \in Row /\ top.parent \in RowIds \cup {None}
      BY <1>2 DEF FrameType
    <3> QED BY <3>1, RowsFilled DEF Fills, Columns
  <2> HIDE DEF row
  <2>4. IsTable(db')
    BY <1>2, <2>1, <2>2, <2>3, RowsWritten
  <2>5. /\ g \in FrameType /\ g.row = NewId
        /\ g.node = top.node /\ g.as = top.as /\ g.mode = top.mode /\ g.input = top.input
        /\ g.links = top.links /\ g.items = top.items
    BY <1>2, <2>2, <2>3 DEF FrameType
  <2> HIDE DEF g
  <2>6. Rowed(g)
    BY <2>2, <2>5 DEF Rowed
  <2>7. Fits(g, Len(stack))
    BY <1>2, <2>5, <2>6, FrameGoesOn
  <2> QED BY <1>1, <2>1, <2>4, <2>7, BecomeKeeps
<1>4. CASE Save
  <2> DEFINE g == [top EXCEPT !.saved = TRUE]
  <2>1. db' = Saved /\ Become(g) /\ top.mode = "update"
    BY <1>4 DEF Save, Running
  <2>2. top.row \in RowIds /\ top.data \in Row
    BY <1>2, <2>1 DEF Rowed, FrameType
  <2>3. IsTable(db')
    BY <1>2, <2>1, <2>2, RowsWritten DEF Saved
  <2>5. /\ g \in FrameType /\ g.row = top.row
        /\ g.node = top.node /\ g.as = top.as /\ g.mode = top.mode /\ g.input = top.input
        /\ g.links = top.links /\ g.items = top.items
    BY <1>2 DEF FrameType
  <2> HIDE DEF g
  <2>6. Rowed(g)
    BY <2>2, <2>5 DEF Rowed
  <2>7. Fits(g, Len(stack))
    BY <1>2, <2>5, <2>6, FrameGoesOn
  <2> QED BY <1>1, <2>1, <2>3, <2>7, BecomeKeeps
<1> QED BY <1>3, <1>4

\* The old target of a link goes.
LEMMA DeleteReplacedKeeps ==
  ASSUME WalkInv, DeleteReplaced
  PROVE  WalkInv'
<1> DEFINE g == [top EXCEPT !.replaced = Tail(@)]
<1>1. /\ stack # <<>> /\ UNCHANGED <<committed, outcome, walkVars>>
      /\ Become(g) /\ top.replaced # <<>>
      /\ \E r : db' = IF r \in DOMAIN db THEN Deleted(db, r) ELSE db
  BY DEF DeleteReplaced, Replaceable
<1>2. top \in FrameType /\ Fits(top, Len(stack)) /\ Rowed(top) /\ IsTable(db)
  BY <1>1, TopFrame
<1>3. IsTable(db')
  BY <1>1, <1>2, DeletedIsTable
<1>4. top.replaced \in Seq(RowIds) /\ Tail(top.replaced) \in Seq(RowIds)
  BY <1>1, <1>2 DEF FrameType
<1>5. /\ g \in FrameType /\ g.row = top.row /\ g.saved = top.saved
      /\ g.node = top.node /\ g.as = top.as /\ g.mode = top.mode /\ g.input = top.input
      /\ g.links = top.links /\ g.items = top.items
  BY <1>2, <1>4 DEF FrameType
<1> HIDE DEF g
<1>6. Rowed(g)
  BY <1>2, <1>5 DEF Rowed
<1>7. Fits(g, Len(stack))
  BY <1>2, <1>5, <1>6, FrameGoesOn
<1> QED BY <1>1, <1>3, <1>7, BecomeKeeps

\* A member is found, and removed.
LEMMA RemovalsKeep ==
  ASSUME WalkInv, FindMember \/ RemoveMember
  PROVE  WalkInv'
<1>1. stack # <<>> /\ UNCHANGED <<committed, outcome, walkVars>>
  BY DEF FindMember, RemoveMember, Running
<1>2. top \in FrameType /\ Fits(top, Len(stack)) /\ Rowed(top) /\ IsTable(db)
  BY <1>1, TopFrame
<1>3. CASE FindMember
  <2> DEFINE g == [top EXCEPT !.mode = "remove", !.row = op.id, !.data = db[op.id]]
  <2>1. db' = db /\ Become(g) /\ op.id \in DOMAIN db
    BY <1>3 DEF FindMember, Member
  <2>2. op.id \in RowIds /\ db[op.id] \in Row
    BY <1>2, <2>1, RowsOfTables
  <2>3. /\ g \in FrameType /\ g.row = op.id /\ g.mode = "remove"
        /\ g.node = top.node /\ g.as = top.as /\ g.input = top.input
        /\ g.links = top.links /\ g.items = top.items
    BY <1>2, <2>2 DEF FrameType
  <2> HIDE DEF g
  <2>4. Rowed(g)
    BY <2>2, <2>3 DEF Rowed
  <2>5. Fits(g, Len(stack))
    BY <1>2, <2>3, <2>4, FrameGoesOn
  <2> QED BY <1>1, <1>2, <2>1, <2>5, BecomeKeeps
<1>4. CASE RemoveMember
  <2>1. /\ top.row \in DOMAIN db /\ stack' = Tail(stack)
        /\ \/ db' = [db EXCEPT ![top.row].owner = None]
           \/ db' = Deleted(db, top.row)
    BY <1>4 DEF RemoveMember
  <2>2. IsTable(db')
    <3>1. CASE db' = [db EXCEPT ![top.row].owner = None]
      <4>1. db[top.row] \in Row /\ top.row \in RowIds
        BY <1>2, <2>1, RowsOfTables
      <4>2. [db[top.row] EXCEPT !.owner = None] \in Row
        BY <4>1, RowsFilled DEF Fills, Columns
      <4>3. db' = [db EXCEPT ![top.row] = [db[top.row] EXCEPT !.owner = None]]
        BY <2>1, <3>1
      <4> QED BY <1>2, <4>1, <4>2, <4>3, RowsWritten
    <3>2. CASE db' = Deleted(db, top.row)
      BY <1>2, <3>2, DeletedIsTable
    <3> QED BY <2>1, <3>1, <3>2
  <2>3. StackFits(stack')
    BY <1>1, <2>1, TopAndTail DEF WalkInv
  <2> QED BY <1>1, <2>2, <2>3, WalkStepsKeep
<1> QED BY <1>3, <1>4

\* A link's target returns to the frame that waits for it.
LEMMA ReturnLinkKeeps ==
  ASSUME WalkInv, ReturnLink
  PROVE  WalkInv'
<1> DEFINE caller == stack[2]
           previous == Held(caller)[top.as]
           goes == caller.mode = "update" /\ op.deletes /\ previous \notin {None, top.row}
           data == [caller.data EXCEPT ![top.as] = top.row]
           gone == IF goes THEN Append(caller.replaced, previous) ELSE caller.replaced
           g == [caller EXCEPT !.data[top.as] = top.row,
                               !.replaced = IF goes THEN Append(@, previous) ELSE @]
<1>1. /\ stack # <<>> /\ UNCHANGED <<committed, outcome, walkVars>>
      /\ top.as \in Links /\ previous \in DOMAIN db \cup {None}
      /\ stack' = <<g>> \o Tail(Tail(stack))
      /\ db' = IF caller.mode = "update" THEN SetNow(caller.row, top.as, top.row) ELSE db
  BY DEF ReturnLink, Writing, Running
<1>2. top \in FrameType /\ Fits(top, Len(stack)) /\ Rowed(top) /\ IsTable(db)
  BY <1>1, TopFrame
<1>3. StackFits(stack) /\ StackFits(Tail(stack)) /\ Len(Tail(stack)) = Len(stack) - 1
      /\ Len(stack) \in Nat
  BY <1>1, TopAndTail DEF WalkInv
<1>4. Tail(stack) # <<>> /\ caller = Head(Tail(stack))
  <2>1. top.as # "root"
    BY <1>1 DEF Links
  <2>2. Len(stack) # 1
    BY <1>2, <2>1 DEF Fits
  <2>3. stack \in Seq(FrameType) /\ Len(stack) >= 2
    BY <1>1, <1>3, <2>2 DEF StackFits
  <2> DEFINE t == Tail(stack)
  <2>4. t \in Seq(FrameType) /\ Len(t) >= 1 /\ t[1] = stack[2]
    BY <2>3
  <2> HIDE DEF t
  <2>5. t # <<>> /\ Head(t) = t[1]
    BY <2>4
  <2> QED BY <2>4, <2>5 DEF t
<1>5. caller \in FrameType /\ Fits(caller, Len(Tail(stack))) /\ Rowed(caller)
  BY <1>3, <1>4, TopAndTail DEF Fits
<1>6. Fills(top.as, top.row)
  BY <1>1, <1>2 DEF Fills, Columns, Links, FrameType
<1>7. IsTable(db')
  BY <1>1, <1>2, <1>6, SetNowIsTable
<1>8. data \in Row
  BY <1>5, <1>6, RowsFilled DEF FrameType
<1>9. gone \in Seq(RowIds)
  <2>1. caller.replaced \in Seq(RowIds)
    BY <1>5 DEF FrameType
  <2>2. previous # None => previous \in RowIds
    BY <1>1, <1>2 DEF IsTable
  <2> HIDE DEF previous, caller
  <2> QED BY <2>1, <2>2
<1>10. g = [caller EXCEPT !.data = data, !.replaced = gone]
  BY <1>5 DEF FrameType
<1> HIDE DEF g, data, gone, goes, previous, caller
<1>11. /\ g \in FrameType /\ g.row = caller.row /\ g.saved = caller.saved
       /\ g.node = caller.node /\ g.as = caller.as /\ g.mode = caller.mode
       /\ g.input = caller.input /\ g.links = caller.links /\ g.items = caller.items
  BY <1>5, <1>8, <1>9, <1>10 DEF FrameType
<1>12. Rowed(g)
  BY <1>5, <1>11 DEF Rowed
<1>13. Fits(g, Len(Tail(stack)))
  BY <1>5, <1>11, <1>12, FrameGoesOn
<1>14. StackFits(stack')
  BY <1>1, <1>3, <1>4, <1>13, Becomes
<1> QED BY <1>1, <1>7, <1>14, WalkStepsKeep

\* An item's row returns.
LEMMA ReturnItemKeeps ==
  ASSUME WalkInv, ReturnItem
  PROVE  WalkInv'
<1>1. /\ stack # <<>> /\ UNCHANGED <<committed, outcome, walkVars>>
      /\ stack' = Tail(stack)
      /\ \/ db' = db
         \/ /\ {top.row, top.parent} \subseteq DOMAIN db
            /\ db' = [db EXCEPT ![top.row] =
                        [(IF orm = "tortoise" THEN top.data ELSE @)
                           EXCEPT !.owner = top.parent]]
  BY DEF ReturnItem, Writing, Running
<1>2. top \in FrameType /\ IsTable(db)
  BY <1>1, TopFrame
<1>3. IsTable(db')
  <2>1. CASE db' = db
    BY <1>2, <2>1
  <2>2. CASE db' # db
    <3> DEFINE held == IF orm = "tortoise" THEN top.data ELSE db[top.row]
    <3>1. /\ top.row \in DOMAIN db /\ top.parent \in DOMAIN db
          /\ db' = [db EXCEPT ![top.row] = [held EXCEPT !.owner = top.parent]]
      BY <1>1, <2>2
    <3>2. /\ db[top.row] \in Row /\ top.row \in RowIds /\ top.parent \in RowIds
          /\ top.data \in Row
      BY <1>2, <3>1, RowsOfTables DEF FrameType
    <3>3. held \in Row
      BY <3>2
    <3> HIDE DEF held
    <3>4. [held EXCEPT !.owner = top.parent] \in Row
      BY <3>2, <3>3, RowsFilled DEF Fills, Columns
    <3> QED BY <1>2, <3>1, <3>2, <3>4, RowsWritten
  <2> QED BY <2>1, <2>2
<1>4. StackFits(stack')
  BY <1>1, TopAndTail DEF WalkInv
<1> QED BY <1>1, <1>3, <1>4, WalkStepsKeep

-----------------------------------------------------------------------------
(* The theorems.                                                          *)

LEMMA EmptyFits == StackFits(<<>>)
<1>1. MaxVisits \in Nat
  BY WriterAssumption
<1> QED BY <1>1 DEF StackFits

\* The write ends, one way or another.
LEMMA EndsKeep ==
  ASSUME WalkInv, Commit \/ Fail
  PROVE  WalkInv'
<1>1. /\ stack' = <<>> /\ UNCHANGED <<orm, root, sent, done, start>>
      /\ outcome' \in {"ok", "failed"}
      /\ committed' \in {committed, db} /\ db' \in {committed, db}
  BY DEF Commit, Fail, walkVars
<1>2. TypeOK'
  BY <1>1 DEF WalkInv, TypeOK
<1>3. StackFits(stack)'
  BY <1>1, EmptyFits DEF StackFits
<1> QED BY <1>1, <1>2, <1>3 DEF WalkInv

\* The payload is sent, and walked if all of it is valid.
LEMMA SendKeeps ==
  ASSUME WalkInv, Send
  PROVE  WalkInv'
<1>1. /\ sent < Sends /\ sent' = sent + 1 /\ done' = (done \/ outcome = "ok")
      /\ start' = committed
      /\ UNCHANGED <<orm, committed, db, root>>
  BY DEF Send
<1>2. sent' \in 0 .. Sends
  <2>1. sent \in 0 .. Sends /\ Sends \in Nat
    BY WriterAssumption DEF WalkInv, TypeOK
  <2> QED BY <1>1, <2>1
<1>3. done' \in BOOLEAN
  BY <1>1
<1>4. CASE Valid(root)
  <2>1. outcome' = "running" /\ stack' = <<Frame(root, None, "root")>>
    BY <1>4 DEF Send
  <2>2. root \in Nodes /\ MaxVisits \in Nat
    BY PayloadAssumption, WriterAssumption DEF WalkInv, TypeOK
  <2>3. root \in Levels(root)[1]
    BY LevelsGoDown
  <2>4. Fits(Frame(root, None, "root"), 1)
    BY <2>2, <2>3, FrameBegins
  <2> DEFINE f == Frame(root, None, "root")
  <2>5. f \in FrameType
    BY <2>4 DEF Fits
  <2> HIDE DEF f
  <2>6. StackFits(<<f>>)
    BY <2>2, <2>4, <2>5 DEF StackFits, f
  <2>7. stack' = <<f>> /\ stack' \in Seq(FrameType)
    BY <2>1, <2>5 DEF f
  <2>8. StackFits(stack)'
    BY <1>1, <2>6, <2>7 DEF StackFits, Fits
  <2>9. TypeOK'
    BY <1>1, <1>2, <1>3, <2>1, <2>7 DEF WalkInv, TypeOK
  <2>10. Valid(root)'
    BY <1>1, <1>4
  <2> QED BY <2>8, <2>9, <2>10 DEF WalkInv
<1>5. CASE ~ Valid(root)
  <2>1. outcome' = "rejected" /\ stack' = <<>>
    BY <1>5 DEF Send
  <2>2. StackFits(stack)'
    BY <2>1, EmptyFits DEF StackFits
  <2>3. TypeOK'
    BY <1>1, <1>2, <1>3, <2>1 DEF WalkInv, TypeOK
  <2> QED BY <2>1, <2>2, <2>3 DEF WalkInv
<1> QED BY <1>4, <1>5

LEMMA NextWalkInv == WalkInv /\ [Next]_vars => WalkInv'
<1> SUFFICES ASSUME WalkInv, [Next]_vars PROVE WalkInv'
  OBVIOUS
<1>1. CASE Next
  BY <1>1, SendKeeps, EntersKeep, BeginLinkKeeps, WritesKeep, DeleteReplacedKeeps,
     BeginItemKeeps, RemovalsKeep, ReturnLinkKeeps, ReturnItemKeeps, EndsKeep
     DEF Next, Step
<1>2. CASE UNCHANGED vars
  <2>1. UNCHANGED <<orm, committed, db, root, stack, outcome, sent, done, start>>
    BY <1>2 DEF vars
  <2>2. TypeOK'
    BY <2>1 DEF WalkInv, TypeOK
  <2>3. StackFits(stack)'
    BY <2>1 DEF WalkInv, StackFits, Fits
  <2> QED BY <2>1, <2>2, <2>3 DEF WalkInv
<1> QED BY <1>1, <1>2

LEMMA InitWalkInv == Init => WalkInv
<1> SUFFICES ASSUME Init PROVE WalkInv
  OBVIOUS
<1>1. /\ orm \in Orms /\ committed \in Tables /\ db = committed /\ start = committed
      /\ root \in Roots /\ stack = <<>> /\ outcome = "new" /\ sent = 0 /\ done = FALSE
  BY DEF Init
<1>2. IsTable(committed) /\ Sends \in Nat
  BY <1>1, WriterAssumption
<1>3. TypeOK
  <2>1. done \in BOOLEAN
    BY <1>1
  <2>2. stack \in Seq(FrameType) /\ sent \in 0 .. Sends
    BY <1>1, <1>2
  <2> QED BY <1>1, <1>2, <2>1, <2>2 DEF TypeOK
<1> QED BY <1>1, <1>3, EmptyFits DEF WalkInv

\* The state of a write is what it is meant to be: its tables are tables of rows,
\* its stack is one of frames.
THEOREM WritesAreTyped == Spec => []TypeOK
BY InitWalkInv, NextWalkInv, PTL DEF Spec, WalkInv

\* Whatever a payload holds and however deep, the walk applies nothing that was
\* not validated at its own depth before the first read or write.
THEOREM WalkIsValidated == Spec => []EveryFrameWasValidated
<1>1. WalkInv => EveryFrameWasValidated
  <2> SUFFICES ASSUME WalkInv, NEW k \in DOMAIN stack
               PROVE  Allowed(stack[k].node, Len(stack) - k + 1)
    BY DEF EveryFrameWasValidated
  <2>1. /\ stack \in Seq(FrameType) /\ Len(stack) <= MaxVisits + 1
        /\ \A j \in 1 .. Len(stack) : Fits(stack[j], Len(stack) - j + 1)
    BY DEF WalkInv, StackFits
  <2>2. k \in 1 .. Len(stack) /\ stack # <<>> /\ MaxVisits \in Nat /\ Len(stack) \in Nat
    BY <2>1, WriterAssumption
  <2>3. Len(stack) - k + 1 \in Depths
    BY <2>1, <2>2 DEF Depths
  <2>4. stack[k].node \in Levels(root)[Len(stack) - k + 1]
    BY <2>1, <2>2 DEF Fits
  <2>5. Valid(root)
    BY <2>2 DEF WalkInv
  <2> QED BY <2>3, <2>4, <2>5 DEF Valid
<1> QED BY <1>1, InitWalkInv, NextWalkInv, PTL DEF Spec
-----------------------------------------------------------------------------
(* The rows that refer to others.                                         *)

Referring(t, columns, s) == {x \in DOMAIN t : \E c \in columns : t[x][c] \in s}

\* What is reached in n steps, given what is reached in one less.
ReachedBy(t, columns, s, n, before) ==
  IF n = 0 THEN s ELSE before \cup Referring(t, columns, before)

\* A says what is reached in each of n steps.
Reaches(A, t, columns, s, n) ==
  A = [m \in 0 .. n |-> ReachedBy(t, columns, s, m, A[m - 1])]

\* However long chains of references may be, what they reach is defined.
LEMMA ReachingExists ==
  ASSUME NEW t, NEW columns, NEW s, NEW n \in Nat
  PROVE  \E A : Reaches(A, t, columns, s, n)
<1> DEFINE By(m, before) == ReachedBy(t, columns, s, m, before)
           Defines(A, m) == A = [k \in 0 .. m |-> By(k, A[k - 1])]
           S == {m \in Nat : \E A : Defines(A, m)}
<1>0. \A x, y : By(0, x) = By(0, y)
  BY DEF ReachedBy
<1> HIDE DEF By
<1>1. 0 \in S
  <2> DEFINE A == [k \in 0 .. 0 |-> By(0, {})]
  <2>1. A = [k \in 0 .. 0 |-> By(k, A[k - 1])]
    BY <1>0
  <2>2. Defines(A, 0)
    BY <2>1
  <2> HIDE DEF A
  <2> QED BY <2>2
<1>2. ASSUME NEW m \in Nat, m \in S PROVE m + 1 \in S
  <2>1. PICK A : Defines(A, m)
    BY <1>2
  <2> DEFINE B == [k \in 0 .. m + 1 |-> By(k, A[k - 1])]
  <2>2. \A k \in 0 .. m : B[k] = A[k]
    BY <2>1
  <2>3. \A k \in 0 .. m + 1 : By(k, A[k - 1]) = By(k, B[k - 1])
    <3> TAKE k \in 0 .. m + 1
    <3>1. CASE k = 0
      BY <1>0, <3>1
    <3>2. CASE k # 0
      <4>1. k - 1 \in 0 .. m
        BY <3>2
      <4>2. B[k - 1] = A[k - 1]
        BY <2>2, <4>1
      <4> QED BY <4>2
    <3> QED BY <3>1, <3>2
  <2>4. Defines(B, m + 1)
    BY <2>3
  <2> HIDE DEF B, Defines
  <2>5. m + 1 \in Nat /\ \E C : Defines(C, m + 1)
    BY <2>4
  <2> QED BY <2>5
<1> HIDE DEF S
<1>3. n \in S
  BY <1>1, <1>2, SetInduction
<1> QED BY <1>3 DEF S, By, Reaches

\* What is reached, step by step.
LEMMA ReachingUnfolds ==
  ASSUME NEW t, NEW columns, NEW s, Cardinality(DOMAIN t) \in Nat
  PROVE  \E A : /\ A[0] = s
                /\ \A n \in Nat : n < Cardinality(DOMAIN t) =>
                     A[n + 1] = A[n] \cup Referring(t, columns, A[n])
                /\ Reaching(t, columns, s) = A[Cardinality(DOMAIN t)]
<1> DEFINE N == Cardinality(DOMAIN t)
           Is(A) == A = [n \in 0 .. N |->
                          IF n = 0 THEN s
                          ELSE LET before == A[n - 1]
                               IN  before \cup {x \in DOMAIN t :
                                                  \E c \in columns : t[x][c] \in before}]
           R == CHOOSE A : Is(A)
<1>0. N \in Nat
  OBVIOUS
<1>1. Reaching(t, columns, s) = R[N]
  BY DEF Reaching
<1> HIDE DEF R, N
<1>2. PICK F : Reaches(F, t, columns, s, N)
  BY <1>0, ReachingExists
<1>3. Is(F)
  BY <1>2 DEF Is, Reaches, ReachedBy, Referring
<1> HIDE DEF Is
<1>4. Is(R)
  BY <1>3 DEF R
<1>5. \A n \in 0 .. N :
        R[n] = IF n = 0 THEN s ELSE R[n - 1] \cup Referring(t, columns, R[n - 1])
  BY <1>4 DEF Is, Referring
<1>6. R[0] = s
  <2>1. 0 \in 0 .. N
    BY <1>0
  <2> QED BY <1>5, <2>1
<1>7. ASSUME NEW n \in Nat, n < N
      PROVE  R[n + 1] = R[n] \cup Referring(t, columns, R[n])
  <2>1. PICK m \in 0 .. N : m = n + 1 /\ m # 0 /\ m - 1 = n
    BY <1>0, <1>7
  <2>2. R[m] = R[m - 1] \cup Referring(t, columns, R[m - 1])
    BY <1>5, <2>1
  <2> QED BY <2>1, <2>2
<1> QED BY <1>1, <1>6, <1>7 DEF N
\* Nothing outside of what is reached refers to it.
LEMMA ReachingIsClosed ==
  ASSUME NEW t, NEW columns, NEW s, IsFiniteSet(DOMAIN t), s \subseteq DOMAIN t
  PROVE  /\ s \subseteq Reaching(t, columns, s)
         /\ Referring(t, columns, Reaching(t, columns, s)) \subseteq Reaching(t, columns, s)
<1> DEFINE D == DOMAIN t
           N == Cardinality(D)
           More(X) == Referring(t, columns, X)
<1>1. N \in Nat
  BY FS_CardinalityType
<1>2. PICK A : /\ A[0] = s
               /\ \A n \in Nat : n < N => A[n + 1] = A[n] \cup More(A[n])
               /\ Reaching(t, columns, s) = A[N]
  BY <1>1, ReachingUnfolds
<1>3. \A X : More(X) \subseteq D
  BY DEF Referring
<1>0. More({}) = {}
  BY DEF Referring
<1> DEFINE Good(n) == /\ A[n] \subseteq D /\ s \subseteq A[n]
                      /\ More(A[n]) \subseteq A[n] \/ n + 1 <= Cardinality(A[n])
           S == {n \in Nat : n <= N => Good(n)}
<1>4. \A X \in SUBSET D : IsFiniteSet(X) /\ Cardinality(X) \in Nat /\ Cardinality(X) <= N
  BY FS_Subset, FS_CardinalityType
<1> HIDE DEF N, More
<1>5. 0 \in S
  <2>1. CASE s = {}
    BY <1>0, <1>2, <2>1
  <2>2. CASE s # {}
    <3>1. Cardinality(s) # 0
      BY <1>4, <2>2, FS_EmptySet
    <3> QED BY <1>2, <1>4, <3>1
  <2> QED BY <2>1, <2>2
<1>6. ASSUME NEW n \in Nat, n \in S PROVE n + 1 \in S
  <2> SUFFICES ASSUME n + 1 <= N PROVE Good(n + 1)
    OBVIOUS
  <2>1. Good(n) /\ A[n + 1] = A[n] \cup More(A[n])
    BY <1>1, <1>2, <1>6
  <2>2. A[n + 1] \subseteq D /\ s \subseteq A[n + 1]
    BY <1>3, <2>1
  <2>3. CASE More(A[n]) \subseteq A[n]
    <3>1. A[n + 1] = A[n]
      BY <2>1, <2>3
    <3> QED BY <2>2, <2>3, <3>1
  <2>4. CASE ~ More(A[n]) \subseteq A[n]
    <3>1. n + 1 <= Cardinality(A[n])
      BY <2>1, <2>4
    <3> DEFINE X == A[n]
               Y == A[n + 1]
    <3>2. X \subseteq Y /\ X # Y /\ X \in SUBSET D /\ Y \in SUBSET D
      BY <2>1, <2>2, <2>4
    <3> HIDE DEF X, Y
    <3>3. Cardinality(X) <= Cardinality(Y) /\ Cardinality(X) # Cardinality(Y)
      BY <1>4, <3>2, FS_Subset
    <3>4. n + 2 <= Cardinality(Y)
      BY <1>4, <3>1, <3>2, <3>3 DEF X
    <3> QED BY <2>2, <3>4 DEF Y
  <2> QED BY <2>3, <2>4
<1> HIDE DEF S
<1>7. N \in S
  BY <1>1, <1>5, <1>6, SetInduction
<1>8. Good(N)
  BY <1>1, <1>7 DEF S
<1>9. Cardinality(A[N]) <= N /\ Cardinality(A[N]) \in Nat
  BY <1>4, <1>8
<1>10. s \subseteq A[N] /\ More(A[N]) \subseteq A[N]
  BY <1>1, <1>8, <1>9
<1> QED BY <1>2, <1>10 DEF More

\* Rows that refer to each other only are not reached from outside.
LEMMA ReachingAvoids ==
  ASSUME NEW t, NEW columns, NEW s, NEW X, IsFiniteSet(DOMAIN t), s \cap X = {},
         None \notin s, None \notin DOMAIN t,
         \A x \in X : \A c \in columns : t[x][c] \in X \cup {None}
  PROVE  Reaching(t, columns, s) \cap X = {} /\ None \notin Reaching(t, columns, s)
<1> DEFINE N == Cardinality(DOMAIN t)
           More(Y) == Referring(t, columns, Y)
<1>1. N \in Nat
  BY FS_CardinalityType
<1>2. PICK A : /\ A[0] = s
               /\ \A n \in Nat : n < N => A[n + 1] = A[n] \cup More(A[n])
               /\ Reaching(t, columns, s) = A[N]
  BY ONLY <1>1, ReachingUnfolds
<1> HIDE DEF N, More
<1> DEFINE Apart(Y) == Y \cap X = {} /\ None \notin Y
           S == {n \in Nat : n <= N => Apart(A[n])}
<1>3. 0 \in S
  BY <1>2
<1>4. ASSUME NEW n \in Nat, n \in S PROVE n + 1 \in S
  <2> SUFFICES ASSUME n + 1 <= N PROVE Apart(A[n + 1])
    OBVIOUS
  <2>1. Apart(A[n]) /\ A[n + 1] = A[n] \cup More(A[n])
    BY <1>1, <1>2, <1>4
  <2>2. Apart(More(A[n]))
    BY <2>1 DEF More, Referring
  <2> QED BY <2>1, <2>2
<1> HIDE DEF S
<1>5. N \in S
  BY <1>1, <1>3, <1>4, SetInduction
<1>6. Apart(A[N])
  BY <1>1, <1>5 DEF S
<1> QED BY <1>2, <1>6
-----------------------------------------------------------------------------
(* The rows elsewhere.                                                    *)

\* Every reference leads to a row.
Intact(t) == \A r \in DOMAIN t : RefersToRows(t, t[r])

\* The rows elsewhere are as they were.
Untouched(t) == \A r \in Elsewhere : r \in DOMAIN t /\ t[r] = start[r]

LEMMA TablesAreFinite ==
  ASSUME NEW t, IsTable(t)
  PROVE  IsFiniteSet(DOMAIN t) /\ None \notin DOMAIN t
<1>1. DOMAIN t \subseteq RowIds
  BY DEF IsTable
<1> QED BY <1>1, FS_Subset, PayloadAssumption, WriterAssumption

\* The rows elsewhere are not what the root matches, and refer to none of the tree.
LEMMA ElsewhereIsApart ==
  ASSUME IsTable(start), Intact(start)
  PROVE  /\ Elsewhere \subseteq DOMAIN start /\ Elsewhere \subseteq RowIds
         /\ None \notin Elsewhere
         /\ \A r \in Elsewhere : start[r].key # Node[root].where
         /\ \A r \in Elsewhere : \A c \in Columns : start[r][c] \in Elsewhere \cup {None}
<1> DEFINE matched == {r \in DOMAIN start : start[r].key = Node[root].where}
           tree == Reaching(start, Columns, matched)
<1>1. Elsewhere = DOMAIN start \ tree
  BY DEF Elsewhere
<1>2. IsFiniteSet(DOMAIN start) /\ None \notin DOMAIN start /\ DOMAIN start \subseteq RowIds
  BY TablesAreFinite DEF IsTable
<1>3. matched \subseteq tree /\ Referring(start, Columns, tree) \subseteq tree
  BY <1>2, ReachingIsClosed
<1>4. \A r \in Elsewhere : start[r].key # Node[root].where
  BY <1>1, <1>3
<1> HIDE DEF tree, matched
<1>5. ASSUME NEW r \in Elsewhere, NEW c \in Columns
      PROVE  start[r][c] \in Elsewhere \cup {None}
  <2>1. r \in DOMAIN start /\ r \notin tree
    BY <1>1
  <2>2. start[r][c] \notin tree
    BY <1>3, <2>1 DEF Referring
  <2>3. start[r][c] \in DOMAIN start \cup {None}
    BY <2>1 DEF Intact, RefersToRows
  <2> QED BY <1>1, <2>2, <2>3
<1> QED BY <1>1, <1>2, <1>4, <1>5

\* A row of the tree, or a new one, is written.
LEMMA WritingStays ==
  ASSUME NEW t, IsTable(t), Intact(t), Untouched(t),
         NEW r \in RowIds, r \notin Elsewhere, NEW row \in Row,
         RefersToRows(With(t, r, row), row)
  PROVE  Intact(With(t, r, row)) /\ Untouched(With(t, r, row))
<1> DEFINE u == With(t, r, row)
<1>1. DOMAIN u = DOMAIN t \cup {r} /\ \A x \in DOMAIN u : u[x] = IF x = r THEN row ELSE t[x]
  BY DEF With
<1> HIDE DEF u
<1>2. Untouched(u)
  BY <1>1 DEF Untouched
<1>3. ASSUME NEW x \in DOMAIN u PROVE RefersToRows(u, u[x])
  <2>1. CASE x = r
    BY <1>1, <2>1 DEF u
  <2>2. CASE x # r
    <3>1. x \in DOMAIN t /\ u[x] = t[x]
      BY <1>1, <2>2
    <3>2. RefersToRows(t, t[x])
      BY <3>1 DEF Intact
    <3> QED BY <1>1, <3>1, <3>2 DEF RefersToRows
  <2> QED BY <2>1, <2>2
<1> QED BY <1>2, <1>3 DEF u, Intact

\* A row that is there is written.
LEMMA WrittenIsWith ==
  ASSUME NEW t, IsTable(t), NEW r \in DOMAIN t, NEW row
  PROVE  [t EXCEPT ![r] = row] = With(t, r, row)
<1>1. DOMAIN t \cup {r} = DOMAIN t /\ t \in [DOMAIN t -> Row]
  BY DEF IsTable
<1> QED BY <1>1 DEF With

\* A row of the tree is deleted, with those that refer to it.
LEMMA DeletingStays ==
  ASSUME IsTable(start), Intact(start), NEW t, IsTable(t), Intact(t), Untouched(t),
         NEW r \in DOMAIN t, r \notin Elsewhere
  PROVE  Intact(Deleted(t, r)) /\ Untouched(Deleted(t, r))
<1> DEFINE G == Takes(t, r)
           kept(x) == [t[x] EXCEPT !.owner = IF @ \in G THEN None ELSE @,
                                   !.a = IF @ \in G THEN None ELSE @,
                                   !.b = IF @ \in G THEN None ELSE @]
           u == Deleted(t, r)
<1>1. u = [x \in DOMAIN t \ G |-> kept(x)]
  BY DEF Deleted
<1>2. G \cap Elsewhere = {} /\ None \notin G
  <2>1. IsFiniteSet(DOMAIN t) /\ None \notin DOMAIN t
    BY TablesAreFinite
  <2>2. ASSUME NEW x \in Elsewhere, NEW c \in Cascading
        PROVE  t[x][c] \in Elsewhere \cup {None}
    <3>1. t[x] = start[x] /\ c \in Columns
      BY WriterAssumption DEF Untouched
    <3> QED BY <3>1, ElsewhereIsApart
  <2>3. {r} \cap Elsewhere = {} /\ None \notin {r}
    BY <2>1
  <2> QED BY <2>1, <2>2, <2>3, ReachingAvoids DEF Takes
<1> HIDE DEF G, u
<1>3. ASSUME NEW x \in DOMAIN t
      PROVE  /\ \A c \in Columns : kept(x)[c] = IF t[x][c] \in G THEN None ELSE t[x][c]
             /\ kept(x) \in Row /\ t[x] \in Row
             /\ (\A c \in Columns : t[x][c] \notin G) => kept(x) = t[x]
  <2>1. t[x] \in Row
    BY RowsOfTables
  <2> DEFINE row == t[x]
             owner == IF row.owner \in G THEN None ELSE row.owner
             a == IF row.a \in G THEN None ELSE row.a
             b == IF row.b \in G THEN None ELSE row.b
  <2>2. kept(x) = [row EXCEPT !.owner = owner, !.a = a, !.b = b]
    BY <2>1 DEF Row
  <2>3. owner \in RowIds \cup {None} /\ a \in RowIds \cup {None} /\ b \in RowIds \cup {None}
    BY <2>1 DEF Row
  <2> HIDE DEF kept, row
  <2>4. row \in Row
    BY <2>1 DEF row
  <2>5. kept(x) = [key |-> row.key, owner |-> owner, a |-> a, b |-> b]
    BY <2>2, <2>4 DEF Row
  <2>6. row = [key |-> row.key, owner |-> row.owner, a |-> row.a, b |-> row.b]
    BY <2>4 DEF Row
  <2>7. (\A c \in Columns : row[c] \notin G) => kept(x) = row
    BY <2>5, <2>6 DEF Columns, Links
  <2>8. \A c \in Columns : kept(x)[c] = IF row[c] \in G THEN None ELSE row[c]
    BY <2>5 DEF Columns, Links
  <2>9. kept(x) \in Row
    BY <2>3, <2>4, <2>5 DEF Row
  <2> QED BY <2>1, <2>7, <2>8, <2>9 DEF row
<1> HIDE DEF kept
<1>4. Untouched(u)
  <2> SUFFICES ASSUME NEW x \in Elsewhere PROVE x \in DOMAIN u /\ u[x] = start[x]
    BY DEF Untouched
  <2>1. x \in DOMAIN t /\ t[x] = start[x] /\ x \notin G
    BY <1>2 DEF Untouched
  <2>2. \A c \in Columns : t[x][c] \notin G
    BY <1>2, <2>1, ElsewhereIsApart
  <2> QED BY <1>1, <1>3, <2>1, <2>2
<1>5. Intact(u)
  <2> SUFFICES ASSUME NEW x \in DOMAIN u, NEW c \in Columns
               PROVE  u[x][c] \in DOMAIN u \cup {None}
    BY DEF Intact, RefersToRows
  <2>1. x \in DOMAIN t /\ u[x] = kept(x) /\ DOMAIN u = DOMAIN t \ G
    BY <1>1
  <2>2. t[x][c] \in DOMAIN t \cup {None}
    BY <2>1 DEF Intact, RefersToRows
  <2> QED BY <1>3, <2>1, <2>2
<1> QED BY <1>4, <1>5 DEF u
-----------------------------------------------------------------------------
(* The walk stays in the tree.                                            *)

\* A frame of a nested payload works on rows of the tree, and on new ones.
Stays(f) ==
  /\ f.as \in {"root", "item"} /\ f.links = <<>> /\ f.replaced = <<>>
  /\ IF f.as = "root" THEN f.parent = None
                      ELSE f.parent \in RowIds /\ f.parent \notin Elsewhere
  /\ f.row \notin Elsewhere
  /\ f.as = "item" /\ (f.saved \/ f.mode = "update") => f.data.owner = f.parent

\* The frames that wait for another one.
Wait(s) == \A k \in 1 .. Len(s) : Stays(s[k]) /\ s[k].mode # "enter"

StayInTree(s) == s # <<>> => Stays(Head(s)) /\ Wait(Tail(s))

\* The root has been looked for.
Begun(s) == s # <<>> => Head(s).mode # "enter" \/ Head(s).as # "root"

TreeInv ==
  /\ Intact(db) /\ Intact(start) /\ Untouched(db)
  /\ StayInTree(stack)
  /\ ~ Begun(stack) => db = start

\* The invariant of RowsElsewhereAreUntouched.
ElsewhereInv ==
  /\ WalkInv
  /\ outcome # "running" => db = committed
  /\ outcome = "running" => committed = start
  /\ Nested => TreeInv

\* A waiting stack, and what is pushed on it.
LEMMA WaitingStacks ==
  ASSUME NEW s \in Seq(FrameType), Wait(s)
  PROVE  /\ StayInTree(s) /\ Begun(s)
         /\ \A f \in FrameType : Stays(f) /\ f.mode # "enter"
              => /\ Wait(<<f>> \o s) /\ <<f>> \o s \in Seq(FrameType)
                 /\ StayInTree(<<f>> \o s) /\ Begun(<<f>> \o s)
         /\ \A f \in FrameType : Stays(f) /\ f.as # "root"
              => StayInTree(<<f>> \o s) /\ Begun(<<f>> \o s)
<1>1. ASSUME s # <<>>
      PROVE  /\ Stays(Head(s)) /\ Head(s).mode # "enter"
             /\ Wait(Tail(s))
  <2>1. /\ Len(s) \in Nat /\ 1 \in 1 .. Len(s) /\ Head(s) = s[1]
        /\ Tail(s) \in Seq(FrameType) /\ Len(Tail(s)) = Len(s) - 1
        /\ \A k \in 1 .. Len(s) - 1 : Tail(s)[k] = s[k + 1] /\ k + 1 \in 1 .. Len(s)
    BY <1>1
  <2>2. Stays(s[1]) /\ s[1].mode # "enter"
    BY <2>1 DEF Wait
  <2>3. Wait(Tail(s))
    BY <2>1 DEF Wait
  <2> QED BY <2>1, <2>2, <2>3
<1>2. StayInTree(s) /\ Begun(s)
  BY <1>1 DEF StayInTree, Begun
<1>3. ASSUME NEW f \in FrameType
      PROVE  /\ Head(<<f>> \o s) = f /\ Tail(<<f>> \o s) = s
             /\ <<f>> \o s \in Seq(FrameType)
             /\ Stays(f) /\ f.mode # "enter" => Wait(<<f>> \o s)
  <2> DEFINE t == <<f>> \o s
  <2>1. /\ t \in Seq(FrameType) /\ Len(t) = Len(s) + 1 /\ t[1] = f /\ Len(s) \in Nat
        /\ \A k \in 1 .. Len(s) : t[k + 1] = s[k]
        /\ Head(t) = f /\ Tail(t) = s
    OBVIOUS
  <2> HIDE DEF t
  <2>2. ASSUME Stays(f), f.mode # "enter", NEW k \in 1 .. Len(t)
        PROVE  Stays(t[k]) /\ t[k].mode # "enter"
    <3>1. CASE k = 1
      BY <2>1, <2>2, <3>1
    <3>2. CASE k # 1
      <4>1. k - 1 \in 1 .. Len(s) /\ k - 1 + 1 = k
        BY <2>1, <3>2
      <4>2. t[k] = s[k - 1]
        BY <2>1, <4>1
      <4> QED BY <4>1, <4>2 DEF Wait
    <3> QED BY <3>1, <3>2
  <2> QED BY <2>1, <2>2 DEF t, Wait
<1>4. ASSUME NEW f \in FrameType, Stays(f)
      PROVE  /\ StayInTree(<<f>> \o s)
             /\ f.mode # "enter" \/ f.as # "root" => Begun(<<f>> \o s)
  BY <1>3, <1>4 DEF StayInTree, Begun
<1> QED BY <1>2, <1>3, <1>4

\* The innermost frame of a nested payload.
LEMMA TreeTop ==
  ASSUME WalkInv, Nested, TreeInv, stack # <<>>
  PROVE  /\ top \in FrameType /\ Rowed(top) /\ op = Node[top.node] /\ top.node \in Nodes
         /\ Stays(top) /\ Wait(Tail(stack)) /\ Tail(stack) \in Seq(FrameType)
         /\ op.op # "update"
         /\ top.as = "root" => op.op = "upsert" /\ op = Node[root]
         /\ \A i \in {op.create, op.update} \ {None} : LinksOf(i) = <<>>
         /\ IsTable(db) /\ IsTable(start)
         /\ top.mode = "enter" /\ top.as = "root" => db = start
<1>1. /\ top \in FrameType /\ Fits(top, Len(stack)) /\ Rowed(top) /\ op = Node[top.node]
      /\ top.node \in Nodes /\ IsTable(db)
  BY TopFrame
<1>2. Len(stack) \in Depths /\ Tail(stack) \in Seq(FrameType)
  <2>1. /\ Len(stack) \in Nat /\ 1 <= Len(stack) /\ Len(stack) <= MaxVisits + 1
        /\ StackFits(Tail(stack))
    BY TopAndTail DEF WalkInv
  <2> QED BY <2>1, WriterAssumption DEF Depths, StackFits
<1>3. top.node \in Payload
  BY <1>1, <1>2 DEF Fits, Payload
<1>4. ASSUME top.as = "root" PROVE top.node = root
  <2>1. Len(stack) = 1 /\ top.node \in Levels(root)[Len(stack)]
    BY <1>1, <1>4 DEF Fits
  <2>2. Levels(root)[1] = {root}
    BY LevelsGoDown
  <2> QED BY <2>1, <2>2
<1>5. root \in Roots /\ IsTable(start)
  BY DEF WalkInv, TypeOK
<1>6. Node[root].op = "upsert"
  BY <1>5, PayloadAssumption
<1>7. /\ op.op # "update"
      /\ \A i \in {op.create, op.update} \ {None} : LinksOf(i) = <<>>
  BY <1>1, <1>3 DEF Nested
<1>8. /\ Stays(top) /\ Wait(Tail(stack))
      /\ top.mode = "enter" /\ top.as = "root" => db = start
  BY DEF TreeInv, StayInTree, Begun, top
<1> QED BY <1>1, <1>2, <1>4, <1>5, <1>6, <1>7, <1>8

\* A row below a row of the tree is in the tree.
LEMMA ChildrenStay ==
  ASSUME WalkInv, TreeInv, NEW r \in DOMAIN db, NEW p \in RowIds, p \notin Elsewhere,
         db[r].owner = p
  PROVE  r \notin Elsewhere
<1>1. ASSUME r \in Elsewhere PROVE FALSE
  <2>1. db[r] = start[r]
    BY <1>1 DEF TreeInv, Untouched
  <2>2. start[r].owner \in Elsewhere \cup {None}
    <3>1. \A c \in Columns : start[r][c] \in Elsewhere \cup {None}
      BY <1>1, ElsewhereIsApart DEF TreeInv, WalkInv, TypeOK
    <3>2. "owner" \in Columns
      BY DEF Columns
    <3> QED BY <3>1, <3>2
  <2> QED BY <2>1, <2>2, PayloadAssumption
<1> QED BY <1>1

\* What an upsert matches is in the tree.
LEMMA MatchesStay ==
  ASSUME WalkInv, Nested, TreeInv, Running("enter"), op.op = "upsert",
         NEW r \in Matches(op.where, top.parent)
  PROVE  /\ r \in DOMAIN db /\ r \in RowIds /\ r \notin Elsewhere /\ db[r] \in Row
         /\ top.as = "item" => db[r].owner = top.parent
<1>1. stack # <<>> /\ top.mode = "enter"
  BY DEF Running
<1>2. /\ Stays(top) /\ IsTable(db) /\ IsTable(start)
      /\ top.as = "root" => op = Node[root] /\ db = start
  BY <1>1, TreeTop
<1>3. /\ r \in DOMAIN db /\ db[r].key = op.where
      /\ top.parent # None => db[r].owner = top.parent
  BY DEF Matches
<1>4. r \in RowIds /\ db[r] \in Row
  BY <1>2, <1>3, RowsOfTables
<1>5. CASE top.as = "root"
  <2>1. Intact(start)
    BY DEF TreeInv
  <2>2. start[r].key = Node[root].where
    BY <1>2, <1>3, <1>5
  <2>3. r \notin Elsewhere
    BY <1>2, <2>1, <2>2, ElsewhereIsApart
  <2> QED BY <1>3, <1>4, <1>5, <2>3
<1>6. CASE top.as = "item"
  <2>1. top.parent \in RowIds /\ top.parent \notin Elsewhere /\ top.parent # None
    BY <1>2, <1>6, PayloadAssumption DEF Stays
  <2>2. r \notin Elsewhere
    BY <1>3, <2>1, ChildrenStay
  <2> QED BY <1>3, <1>4, <2>1, <2>2
<1> QED BY <1>2, <1>5, <1>6 DEF Stays

\* What is nested, and which rows are elsewhere, is settled when a payload is sent.
LEMMA SettledWhenSent ==
  ASSUME UNCHANGED <<root, start>>
  PROVE  /\ Nested' = Nested /\ Elsewhere' = Elsewhere
         /\ \A t : (Intact(t))' = Intact(t)
BY DEF Nested, Payload, Elsewhere, Intact
\* A step of the walk keeps the invariant if what it leaves is in the tree.
LEMMA TreeStepsKeep ==
  ASSUME UNCHANGED <<committed, outcome, walkVars>>, TreeInv,
         Intact(db'), Untouched(db'), StayInTree(stack'), Begun(stack')
  PROVE  TreeInv'
<1>1. UNCHANGED <<root, start>>
  BY DEF walkVars
<1>2. Elsewhere' = Elsewhere
  BY <1>1, SettledWhenSent
<1>3. Intact(db)' /\ Intact(start)' /\ Untouched(db)'
  BY <1>1, <1>2 DEF TreeInv, Intact, Untouched
<1>4. StayInTree(stack)' /\ Begun(stack)'
  BY <1>2 DEF StayInTree, Begun, Wait, Stays
<1> QED BY <1>3, <1>4 DEF TreeInv

\* The innermost frame becomes one that stays in the tree.
LEMMA BecomeStays ==
  ASSUME WalkInv, Nested, TreeInv, stack # <<>>,
         UNCHANGED <<committed, outcome, walkVars>>,
         Intact(db'), Untouched(db'),
         NEW f \in FrameType, Stays(f), f.mode # "enter", Become(f)
  PROVE  TreeInv'
<1>1. Wait(Tail(stack)) /\ Tail(stack) \in Seq(FrameType)
  BY TreeTop
<1>2. stack' = <<f>> \o Tail(stack)
  BY DEF Become
<1>3. StayInTree(stack') /\ Begun(stack')
  BY <1>1, <1>2, WaitingStacks
<1> QED BY <1>3, TreeStepsKeep

\* An operation that creates.
LEMMA CreateStays ==
  ASSUME WalkInv, Nested, TreeInv, Running("enter"), op.op \in {"create", "upsert"},
         NEW i \in Inputs, i = op.create, NEW where \in Keys \cup {None},
         UNCHANGED <<committed, db, outcome, walkVars>>, Become(CreateFrame(i, where))
  PROVE  TreeInv'
<1> DEFINE g == CreateFrame(i, where)
           data == [top.data EXCEPT !.key = Seeded(i, where)]
<1>1. stack # <<>> /\ top.mode = "enter"
  BY DEF Running
<1>2. /\ top \in FrameType /\ Stays(top) /\ op = Node[top.node]
      /\ \A j \in {op.create, op.update} \ {None} : LinksOf(j) = <<>>
  BY <1>1, TreeTop
<1>3. LinksOf(i) = <<>>
  BY <1>2, PayloadAssumption
<1>4. g \in FrameType
  <2>1. op.op \notin Removals
    BY DEF Removals
  <2>2. Fits(g, Len(stack))
    BY <1>1, <2>1, CreateFrameFits
  <2> QED BY <2>2 DEF Fits
<1>5. top.data \in Row
  BY <1>2 DEF FrameType
<1>6. g = [top EXCEPT !.mode = "create", !.input = i, !.links = LinksOf(i),
             !.items = Input[i].items, !.data = data]
  BY <1>2 DEF CreateFrame, FrameType
<1>7. data.owner = top.data.owner
  BY <1>5 DEF Row
<1> HIDE DEF data
<1>8. /\ g.mode = "create" /\ g.as = top.as /\ g.parent = top.parent /\ g.row = top.row
      /\ g.links = <<>> /\ g.replaced = top.replaced /\ g.saved = top.saved
      /\ g.data = data
  BY <1>2, <1>3, <1>6 DEF FrameType
<1> HIDE DEF g
<1>9. Stays(g)
  BY <1>2, <1>7, <1>8 DEF Stays
<1>10. Intact(db') /\ Untouched(db')
  BY DEF TreeInv
<1> QED BY <1>1, <1>4, <1>8, <1>9, <1>10, BecomeStays DEF g

\* A row of the tree is written by the frame whose row it is.
LEMMA RowStays ==
  ASSUME TreeInv, IsTable(db), NEW r \in DOMAIN db, r \notin Elsewhere, NEW row \in Row,
         RefersToRows(db, row)
  PROVE  LET t == [db EXCEPT ![r] = row] IN Intact(t) /\ Untouched(t)
<1> DEFINE t == With(db, r, row)
<1>1. [db EXCEPT ![r] = row] = t /\ r \in RowIds
  BY WrittenIsWith, RowsOfTables
<1>2. DOMAIN db \subseteq DOMAIN t
  BY DEF With
<1>3. RefersToRows(t, row)
  BY <1>2 DEF RefersToRows
<1> HIDE DEF t
<1>4. Intact(t) /\ Untouched(t)
  BY <1>1, <1>3, WritingStays DEF t, TreeInv
<1> QED BY <1>1, <1>4

\* A matched row is updated.
LEMMA UpdateStays ==
  ASSUME WalkInv, Nested, TreeInv, NEW r \in RowIds, UpsertUpdates(r)
  PROVE  TreeInv'
<1> DEFINE i == op.update
           g == UpdateFrame(i, r)
           data == [db[r] EXCEPT !.key = NewKey(i, r)]
<1>1. /\ Running("enter") /\ stack # <<>> /\ op.op = "upsert" /\ i # None
      /\ r \in Matches(op.where, top.parent)
      /\ Become(g) /\ db' = SetNow(r, "key", NewKey(i, r))
      /\ UNCHANGED <<committed, outcome, walkVars>>
  BY DEF UpsertUpdates, Matched, Running
<1>2. /\ top \in FrameType /\ Stays(top) /\ op = Node[top.node] /\ top.node \in Nodes
      /\ \A j \in {op.create, op.update} \ {None} : LinksOf(j) = <<>>
      /\ IsTable(db)
  BY <1>1, TreeTop
<1>3. i \in Inputs /\ LinksOf(i) = <<>>
  BY <1>1, <1>2, NodesTyped
<1>4. /\ r \in DOMAIN db /\ r \notin Elsewhere /\ db[r] \in Row
      /\ top.as = "item" => db[r].owner = top.parent
  BY <1>1, MatchesStay
<1>5. NewKey(i, r) \in Keys \cup {None}
  BY <1>3, <1>4, InputsTyped DEF NewKey, Row
<1>6. /\ data \in Row /\ \A c \in Columns : data[c] = db[r][c]
  BY <1>4, <1>5 DEF Row, Columns, Links
<1>7. g \in FrameType
  <2>1. op.op \notin Removals
    BY <1>1 DEF Removals
  <2>2. Fits(g, Len(stack))
    BY <1>1, <1>3, <1>4, <2>1, UpdateFrameFits
  <2> QED BY <2>2 DEF Fits
<1>8. g = [top EXCEPT !.mode = "update", !.input = i, !.row = r, !.links = LinksOf(i),
             !.items = Input[i].items, !.data = data]
  BY DEF UpdateFrame
<1>9. Intact(db') /\ Untouched(db')
  <2>1. CASE db' = db
    BY <2>1 DEF TreeInv
  <2>2. CASE db' # db
    <3>1. db' = [db EXCEPT ![r] = data]
      BY <1>1, <2>2 DEF SetNow
    <3>2. RefersToRows(db, data)
      BY <1>4, <1>6 DEF TreeInv, Intact, RefersToRows
    <3> HIDE DEF data
    <3> QED BY <1>2, <1>4, <1>6, <3>1, <3>2, RowStays
  <2> QED BY <2>1, <2>2
<1>10. data.owner = db[r].owner
  BY <1>6 DEF Columns
<1> HIDE DEF data
<1>11. /\ g.mode = "update" /\ g.as = top.as /\ g.parent = top.parent /\ g.row = r
       /\ g.links = <<>> /\ g.replaced = top.replaced /\ g.data = data
  BY <1>2, <1>3, <1>8 DEF FrameType
<1> HIDE DEF g
<1>12. Stays(g)
  BY <1>2, <1>4, <1>10, <1>11 DEF Stays
<1> QED BY <1>1, <1>7, <1>9, <1>11, <1>12, BecomeStays
\* A matched row is left alone.
LEMMA AppendStays ==
  ASSUME WalkInv, Nested, TreeInv, NEW r \in RowIds, UpsertAppends(r) \/ UpsertStays(r)
  PROVE  TreeInv'
<1>1. /\ Running("enter") /\ stack # <<>> /\ op.op = "upsert"
      /\ r \in Matches(op.where, top.parent)
      /\ UNCHANGED <<committed, db, outcome, walkVars>>
  BY DEF UpsertAppends, UpsertStays, Matched, Running
<1>2. PICK items : /\ items = <<>> \/ (op.create # None /\ items = Input[op.create].items)
                   /\ Become(AppendFrame(r, items))
  <2>1. CASE UpsertAppends(r)
    BY <2>1 DEF UpsertAppends
  <2>2. CASE UpsertStays(r)
    BY <2>2 DEF UpsertStays
  <2> QED BY <2>1, <2>2
<1> DEFINE g == AppendFrame(r, items)
<1>3. top \in FrameType /\ Stays(top)
  BY <1>1, TreeTop
<1>4. /\ r \in DOMAIN db /\ r \notin Elsewhere
      /\ top.as = "item" => db[r].owner = top.parent
  BY <1>1, MatchesStay
<1>5. g \in FrameType
  <2>1. Fits(g, Len(stack))
    BY <1>1, <1>2, <1>4, AppendFrameFits
  <2> QED BY <2>1 DEF Fits
<1>6. /\ g.mode = "append" /\ g.as = top.as /\ g.parent = top.parent /\ g.row = r
      /\ g.links = top.links /\ g.replaced = top.replaced /\ g.data = db[r]
  BY <1>3 DEF AppendFrame, FrameType
<1> HIDE DEF g
<1>7. Stays(g)
  BY <1>3, <1>4, <1>6 DEF Stays
<1>8. Intact(db') /\ Untouched(db')
  BY <1>1 DEF TreeInv
<1> QED BY <1>1, <1>2, <1>5, <1>6, <1>7, <1>8, BecomeStays DEF g

\* A new row is inserted.
LEMMA InsertStays ==
  ASSUME WalkInv, Nested, TreeInv, Insert
  PROVE  TreeInv'
<1> DEFINE row == [top.data EXCEPT !.owner = top.parent]
           g == [top EXCEPT !.row = NewId, !.data = row, !.saved = TRUE]
<1>1. /\ stack # <<>> /\ top.mode = "create" /\ RowIds \ DOMAIN db # {}
      /\ RefersToRows(db, row) /\ db' = With(db, NewId, row) /\ Become(g)
      /\ UNCHANGED <<committed, outcome, walkVars>>
  BY DEF Insert, Running
<1>2. top \in FrameType /\ Stays(top) /\ IsTable(db)
  BY <1>1, TreeTop
<1>3. NewId \in RowIds /\ NewId \notin DOMAIN db
  BY <1>1 DEF NewId
<1>4. NewId \notin Elsewhere
  BY <1>3 DEF TreeInv, Untouched
<1>5. row \in Row /\ row.owner = top.parent
  BY <1>2 DEF FrameType, Row
<1>6. RefersToRows(With(db, NewId, row), row)
  BY <1>1 DEF RefersToRows, With
<1> HIDE DEF row
<1>7. Intact(db') /\ Untouched(db')
  BY <1>1, <1>2, <1>3, <1>4, <1>5, <1>6, WritingStays DEF TreeInv
<1>8. /\ g \in FrameType
      /\ g.mode = "create" /\ g.as = top.as /\ g.parent = top.parent /\ g.row = NewId
      /\ g.links = top.links /\ g.replaced = top.replaced /\ g.data = row
  BY <1>1, <1>2, <1>3, <1>5 DEF FrameType
<1> HIDE DEF g
<1>9. Stays(g)
  BY <1>2, <1>4, <1>5, <1>8 DEF Stays
<1> QED BY <1>1, <1>7, <1>8, <1>9, BecomeStays

\* A row of the tree is saved.
LEMMA SaveStays ==
  ASSUME WalkInv, Nested, TreeInv, Save
  PROVE  TreeInv'
<1> DEFINE g == [top EXCEPT !.saved = TRUE]
<1>1. /\ stack # <<>> /\ top.mode = "update"
      /\ RefersToRows(Saved, Held(top)) /\ db' = Saved /\ Become(g)
      /\ UNCHANGED <<committed, outcome, walkVars>>
  BY DEF Save, Running
<1>2. top \in FrameType /\ Stays(top) /\ IsTable(db) /\ Rowed(top)
  BY <1>1, TreeTop
<1>3. top.row \in RowIds /\ top.row \notin Elsewhere /\ top.data \in Row
  BY <1>1, <1>2 DEF Rowed, Stays, FrameType
<1>4. Intact(db') /\ Untouched(db')
  <2>1. CASE db' = db
    BY <2>1 DEF TreeInv
  <2>2. CASE db' # db
    <3>1. orm # "sqlalchemy" /\ db' = With(db, top.row, top.data)
      BY <1>1, <2>2 DEF Saved
    <3>2. RefersToRows(With(db, top.row, top.data), top.data)
      BY <1>1, <3>1 DEF Held
    <3> QED BY <1>2, <1>3, <3>1, <3>2, WritingStays DEF TreeInv
  <2> QED BY <2>1, <2>2
<1>5. /\ g \in FrameType
      /\ g.mode = top.mode /\ g.as = top.as /\ g.parent = top.parent /\ g.row = top.row
      /\ g.links = top.links /\ g.replaced = top.replaced /\ g.data = top.data
  BY <1>2 DEF FrameType
<1> HIDE DEF g
<1>6. Stays(g)
  BY <1>1, <1>2, <1>5 DEF Stays
<1> QED BY <1>1, <1>4, <1>5, <1>6, BecomeStays

\* An item begins below a row of the tree.
LEMMA BeginItemStays ==
  ASSUME WalkInv, Nested, TreeInv, BeginItem
  PROVE  TreeInv'
<1> DEFINE g == [top EXCEPT !.items = Tail(@)]
           f == Frame(Head(top.items), top.row, "item")
<1>1. /\ Writing /\ stack # <<>> /\ top.mode # "enter" /\ top.saved /\ top.items # <<>>
      /\ UNCHANGED <<committed, db, outcome, walkVars>>
      /\ stack' = <<f, g>> \o Tail(stack)
  BY DEF BeginItem, Writing, Running
<1>2. /\ top \in FrameType /\ Stays(top) /\ Rowed(top)
      /\ Wait(Tail(stack)) /\ Tail(stack) \in Seq(FrameType)
      /\ IsTable(start)
  BY <1>1, TreeTop
<1>3. top.row \in RowIds /\ top.row \notin Elsewhere
  BY <1>1, <1>2 DEF Rowed, Stays
<1>4. /\ top.items \in Seq(Nodes) /\ Tail(top.items) \in Seq(Nodes)
      /\ Head(top.items) \in Nodes
  BY <1>1, <1>2 DEF FrameType
<1>5. /\ g \in FrameType
      /\ g.mode = top.mode /\ g.as = top.as /\ g.parent = top.parent /\ g.row = top.row
      /\ g.links = top.links /\ g.replaced = top.replaced /\ g.data = top.data
      /\ g.saved = top.saved
  BY <1>2, <1>4 DEF FrameType
<1> HIDE DEF g
<1>6. Stays(g)
  BY <1>2, <1>5 DEF Stays
<1>7. f \in FrameType
  <2>1. Head(top.items) \in NestedIn(top.node)
    <3>1. Carried(top)
      BY <1>1, TopFrame DEF Fits
    <3>2. Head(top.items) = top.items[1] /\ 1 \in 1 .. Len(top.items)
      BY <1>1, <1>4
    <3> QED BY <3>1, <3>2 DEF Carried
  <2> QED BY <1>1, <1>3, <2>1, NestedGoesDeeper DEF Fits
<1>8. /\ f.mode = "enter" /\ f.as = "item" /\ f.parent = top.row /\ f.row = None
      /\ f.links = <<>> /\ f.replaced = <<>> /\ f.saved = FALSE
  BY DEF Frame
<1> HIDE DEF f
<1>9. None \notin Elsewhere
  BY <1>2, ElsewhereIsApart DEF TreeInv
<1>10. Stays(f)
  BY <1>3, <1>8, <1>9 DEF Stays
<1> DEFINE s == <<g>> \o Tail(stack)
<1>11. Wait(s) /\ s \in Seq(FrameType)
  BY <1>1, <1>2, <1>5, <1>6, WaitingStacks
<1>12. stack' = <<f>> \o s
  BY <1>1, <1>2, <1>5, <1>7
<1> HIDE DEF s
<1>13. f.as # "root"
  BY <1>8
<1>14. StayInTree(stack') /\ Begun(stack')
  BY <1>7, <1>10, <1>11, <1>12, <1>13, WaitingStacks
<1>15. Intact(db') /\ Untouched(db')
  BY <1>1 DEF TreeInv
<1> QED BY <1>1, <1>14, <1>15, TreeStepsKeep

\* A member of a row of the tree is found, and removed.
LEMMA RemovalsStay ==
  ASSUME WalkInv, Nested, TreeInv, FindMember \/ RemoveMember
  PROVE  TreeInv'
<1>1. stack # <<>> /\ UNCHANGED <<committed, outcome, walkVars>>
  BY DEF FindMember, RemoveMember, Running
<1>2. /\ top \in FrameType /\ Stays(top) /\ IsTable(db) /\ IsTable(start)
      /\ Wait(Tail(stack)) /\ Tail(stack) \in Seq(FrameType)
      /\ top.as = "root" => op.op = "upsert"
  BY <1>1, TreeTop
<1>3. CASE FindMember
  <2> DEFINE g == [top EXCEPT !.mode = "remove", !.row = op.id, !.data = db[op.id]]
  <2>1. /\ db' = db /\ Become(g) /\ op.id \in DOMAIN db /\ op.op \in Removals
        /\ db[op.id].owner = top.parent
    BY <1>3 DEF FindMember, Member
  <2>2. top.as = "item"
    BY <1>2, <2>1 DEF Removals, Stays
  <2>3. top.parent \in RowIds /\ top.parent \notin Elsewhere
    BY <1>2, <2>2 DEF Stays
  <2>4. op.id \notin Elsewhere
    BY <2>1, <2>3, ChildrenStay
  <2>5. op.id \in RowIds /\ db[op.id] \in Row
    BY <1>2, <2>1, RowsOfTables
  <2>6. /\ g \in FrameType
        /\ g.mode = "remove" /\ g.as = top.as /\ g.parent = top.parent /\ g.row = op.id
        /\ g.links = top.links /\ g.replaced = top.replaced /\ g.data = db[op.id]
    BY <1>2, <2>5 DEF FrameType
  <2> HIDE DEF g
  <2>7. Stays(g)
    BY <1>2, <2>1, <2>4, <2>6 DEF Stays
  <2>8. Intact(db') /\ Untouched(db')
    BY <2>1 DEF TreeInv
  <2> QED BY <1>1, <2>1, <2>6, <2>7, <2>8, BecomeStays
<1>4. CASE RemoveMember
  <2>1. /\ top.row \in DOMAIN db /\ stack' = Tail(stack)
        /\ \/ db' = [db EXCEPT ![top.row].owner = None]
           \/ db' = Deleted(db, top.row)
    BY <1>4 DEF RemoveMember
  <2>2. top.row \notin Elsewhere /\ top.row \in RowIds /\ db[top.row] \in Row
    BY <1>2, <2>1, RowsOfTables DEF Stays
  <2>3. Intact(db') /\ Untouched(db')
    <3>1. CASE db' = [db EXCEPT ![top.row].owner = None]
      <4> DEFINE row == [db[top.row] EXCEPT !.owner = None]
      <4>1. db' = [db EXCEPT ![top.row] = row]
        BY <2>1, <3>1
      <4>2. /\ row \in Row /\ row.owner = None
            /\ row.a = db[top.row].a /\ row.b = db[top.row].b
        BY <2>2 DEF Row
      <4> HIDE DEF row
      <4>3. RefersToRows(db, row)
        <5>1. RefersToRows(db, db[top.row])
          BY <2>1 DEF TreeInv, Intact
        <5> QED BY <4>2, <5>1 DEF RefersToRows, Columns, Links
      <4> QED BY <1>2, <2>1, <2>2, <4>1, <4>2, <4>3, RowStays
    <3>2. CASE db' = Deleted(db, top.row)
      BY <1>2, <2>1, <2>2, <3>2, DeletingStays DEF TreeInv
    <3> QED BY <2>1, <3>1, <3>2
  <2>4. StayInTree(stack') /\ Begun(stack')
    BY <1>2, <2>1, WaitingStacks
  <2> QED BY <1>1, <2>3, <2>4, TreeStepsKeep
<1> QED BY <1>3, <1>4

\* An item's row is linked to its parent.
LEMMA ReturnItemStays ==
  ASSUME WalkInv, Nested, TreeInv, ReturnItem
  PROVE  TreeInv'
<1>1. /\ stack # <<>> /\ top.as = "item" /\ top.saved
      /\ UNCHANGED <<committed, outcome, walkVars>>
      /\ stack' = Tail(stack)
      /\ \/ db' = db
         \/ /\ Held(top).owner # top.parent
            /\ {top.row, top.parent} \subseteq DOMAIN db
            /\ db' = [db EXCEPT ![top.row] =
                        [(IF orm = "tortoise" THEN top.data ELSE @)
                           EXCEPT !.owner = top.parent]]
  BY DEF ReturnItem, Writing, Running, Finished
<1>2. /\ top \in FrameType /\ Stays(top) /\ IsTable(db)
      /\ Wait(Tail(stack)) /\ Tail(stack) \in Seq(FrameType)
  BY <1>1, TreeTop
<1>3. Intact(db') /\ Untouched(db')
  <2>1. CASE db' = db
    BY <2>1 DEF TreeInv
  <2>2. CASE db' # db
    <3> DEFINE r == top.row
               row == [db[r] EXCEPT !.owner = top.parent]
    <3>1. /\ r \in DOMAIN db /\ top.parent \in DOMAIN db
          /\ Held(top).owner # top.parent
      BY <1>1, <2>2
    <3>2. top.data.owner = top.parent
      BY <1>1, <1>2 DEF Stays
    <3>3. orm = "sqlalchemy"
      BY <3>1, <3>2 DEF Held
    <3>4. db' = [db EXCEPT ![r] = row]
      BY <1>1, <2>2, <3>3
    <3>5. db[r] \in Row /\ r \in RowIds /\ r \notin Elsewhere /\ top.parent \in RowIds
      BY <1>2, <3>1, RowsOfTables DEF Stays
    <3>6. /\ row \in Row /\ row.owner = top.parent
          /\ row.a = db[r].a /\ row.b = db[r].b
      BY <3>5 DEF Row
    <3> HIDE DEF row
    <3>7. RefersToRows(db, row)
      <4>1. RefersToRows(db, db[r])
        BY <3>1 DEF TreeInv, Intact
      <4> QED BY <3>1, <3>6, <4>1 DEF RefersToRows, Columns, Links
    <3> QED BY <1>2, <3>1, <3>4, <3>5, <3>6, <3>7, RowStays
  <2> QED BY <2>1, <2>2
<1>4. StayInTree(stack') /\ Begun(stack')
  BY <1>1, <1>2, WaitingStacks
<1> QED BY <1>1, <1>3, <1>4, TreeStepsKeep

\* What a nested payload does not do.
LEMMA NestedHasNoLinks ==
  ASSUME WalkInv, Nested, TreeInv
  PROVE  ~ EnterUpdate /\ ~ BeginLink /\ ~ DeleteReplaced /\ ~ ReturnLink
<1>1. ASSUME stack # <<>>
      PROVE  /\ op.op # "update" /\ top.links = <<>> /\ top.replaced = <<>>
             /\ top.as \in {"root", "item"}
  BY <1>1, TreeTop DEF Stays
<1> QED BY <1>1 DEF EnterUpdate, BeginLink, DeleteReplaced, ReturnLink, Replaceable,
              Writing, Running, Linked, Links
\* Every step of the walk leaves the rows elsewhere as they were.
LEMMA WalkStays ==
  ASSUME WalkInv, Nested, TreeInv, Step, ~ Commit, ~ Fail
  PROVE  TreeInv'
<1>1. CASE EnterCreate
  <2>1. /\ Running("enter") /\ stack # <<>> /\ op.op = "create"
        /\ UNCHANGED <<committed, db, outcome, walkVars>>
        /\ Become(CreateFrame(op.create, None))
    BY <1>1 DEF EnterCreate, Running
  <2>2. op.create \in Inputs
    BY <2>1, TreeTop, NodesTyped
  <2> QED BY <2>1, <2>2, CreateStays
<1>2. CASE UpsertMisses
  <2>1. /\ Running("enter") /\ stack # <<>> /\ op.op = "upsert" /\ op.create # None
        /\ UNCHANGED <<committed, db, outcome, walkVars>>
        /\ Become(CreateFrame(op.create, op.where))
    BY <1>2 DEF UpsertMisses, Running
  <2>2. op.create \in Inputs /\ op.where \in Keys \cup {None}
    BY <2>1, TreeTop, NodesTyped
  <2> QED BY <2>1, <2>2, CreateStays
<1> QED BY <1>1, <1>2, NestedHasNoLinks, UpdateStays, AppendStays, InsertStays, SaveStays,
           BeginItemStays, RemovalsStay, ReturnItemStays DEF Step

\* A payload is sent: its walk is to begin with the table as it is.
LEMMA SendStays ==
  ASSUME ElsewhereInv, Send
  PROVE  ElsewhereInv'
<1>1. /\ WalkInv /\ db = committed
      /\ start' = committed /\ UNCHANGED <<orm, committed, db, root>>
  BY DEF ElsewhereInv, Send
<1>2. WalkInv'
  BY <1>1, SendKeeps
<1>3. /\ outcome' # "running" => db' = committed'
      /\ outcome' = "running" => committed' = start'
  BY <1>1
<1>4. ASSUME Nested' PROVE TreeInv'
  <2>1. Nested
    BY <1>1, <1>4 DEF Nested, Payload
  <2>2. Intact(db)' /\ Intact(start)'
    BY <1>1, <2>1 DEF ElsewhereInv, TreeInv, Intact
  <2>3. IsTable(start)'
    BY <1>2 DEF WalkInv, TypeOK
  <2>4. Elsewhere' \subseteq DOMAIN start' /\ None \notin Elsewhere'
    <3>1. Elsewhere' \subseteq DOMAIN start'
      BY DEF Elsewhere
    <3>2. None \notin DOMAIN start'
      BY <2>3, TablesAreFinite
    <3> QED BY <3>1, <3>2
  <2>5. Untouched(db)'
    BY <1>1, <2>4 DEF Untouched
  <2>6. (~ Begun(stack) => db = start)'
    BY <1>1
  <2>7. StayInTree(stack)'
    <3>1. CASE stack' = <<>>
      BY <3>1 DEF StayInTree
    <3>2. CASE stack' # <<>>
      <4> DEFINE f == Frame(root, None, "root")
      <4>1. stack' = <<f>>
        BY <3>2 DEF Send
      <4>2. /\ f.as = "root" /\ f.links = <<>> /\ f.replaced = <<>> /\ f.parent = None
            /\ f.row = None
        BY DEF Frame
      <4> HIDE DEF f
      <4>3. Stays(f)'
        BY <1>1, <2>4, <4>2 DEF Stays, f, Frame
      <4>4. Head(stack') = f /\ Tail(stack') = <<>>
        BY <4>1
      <4>5. (Wait(<<>>))'
        BY DEF Wait
      <4>6. f' = f
        BY <1>1 DEF f, Frame
      <4> QED BY <4>3, <4>4, <4>5, <4>6 DEF StayInTree
    <3> QED BY <3>1, <3>2
  <2> QED BY <2>2, <2>5, <2>6, <2>7 DEF TreeInv
<1> QED BY <1>2, <1>3, <1>4 DEF ElsewhereInv

\* The write ends: its table is committed, or the one before it is there again.
LEMMA EndsStay ==
  ASSUME ElsewhereInv, Commit \/ Fail
  PROVE  ElsewhereInv'
<1>1. /\ WalkInv /\ outcome = "running" /\ committed = start
      /\ stack' = <<>> /\ outcome' # "running" /\ db' = committed'
      /\ UNCHANGED <<root, start>>
      /\ db' = db \/ db' = start
  BY DEF ElsewhereInv, Commit, Fail, Writing, Running, walkVars
<1>2. WalkInv'
  BY <1>1, EndsKeep
<1>3. ASSUME Nested' PROVE TreeInv'
  <2>1. Nested /\ Elsewhere' = Elsewhere
    BY <1>1, <1>3, SettledWhenSent
  <2>2. TreeInv
    BY <2>1 DEF ElsewhereInv
  <2>3. IsTable(start)
    BY <1>1 DEF WalkInv, TypeOK
  <2>4. Intact(db') /\ Intact(start')
    BY <1>1, <2>2 DEF TreeInv
  <2>5. \A r \in Elsewhere : r \in DOMAIN db' /\ db'[r] = start[r]
    BY <1>1, <2>2, <2>3, ElsewhereIsApart DEF TreeInv, Untouched
  <2>6. Intact(db)' /\ Intact(start)' /\ Untouched(db)'
    BY <1>1, <2>1, <2>4, <2>5 DEF Intact, Untouched
  <2>7. StayInTree(stack)' /\ Begun(stack)'
    BY <1>1 DEF StayInTree, Begun
  <2> QED BY <2>6, <2>7 DEF TreeInv
<1> QED BY <1>1, <1>2, <1>3 DEF ElsewhereInv

LEMMA NextElsewhereInv == ElsewhereInv /\ [Next]_vars => ElsewhereInv'
<1> SUFFICES ASSUME ElsewhereInv, [Next]_vars PROVE ElsewhereInv'
  OBVIOUS
<1>1. CASE Step /\ ~ Commit /\ ~ Fail
  <2>1. UNCHANGED <<committed, outcome>> /\ UNCHANGED <<root, start>> /\ outcome = "running"
    <3>1. UNCHANGED <<committed, outcome>>
      BY <1>1, WalkIsPrivate
    <3>2. UNCHANGED <<root, start>> /\ outcome = "running"
      BY <1>1 DEF Step, EnterCreate, EnterUpdate, UpsertMisses, UpsertUpdates, UpsertAppends,
         UpsertStays, Matched, BeginLink, Insert, Save, DeleteReplaced, BeginItem, FindMember,
         RemoveMember, ReturnLink, ReturnItem, Writing, Running, walkVars
    <3> QED BY <3>1, <3>2
  <2>2. WalkInv'
    BY NextWalkInv DEF ElsewhereInv
  <2>3. Nested' = Nested
    BY <2>1, SettledWhenSent
  <2>4. Nested => TreeInv'
    BY <1>1, WalkStays DEF ElsewhereInv
  <2> QED BY <2>1, <2>2, <2>3, <2>4 DEF ElsewhereInv
<1>2. CASE UNCHANGED vars
  <2>1. UNCHANGED <<orm, committed, db, root, stack, outcome, sent, done, start>>
    BY <1>2 DEF vars
  <2>2. WalkInv'
    BY NextWalkInv DEF ElsewhereInv
  <2>3. Nested' = Nested /\ Elsewhere' = Elsewhere
    BY <2>1, SettledWhenSent
  <2>4. TreeInv => TreeInv'
    BY <2>1, <2>3 DEF TreeInv, Intact, Untouched, StayInTree, Begun, Wait, Stays
  <2> QED BY <2>1, <2>2, <2>3, <2>4 DEF ElsewhereInv
<1> QED BY <1>1, <1>2, SendStays, EndsStay DEF Next

LEMMA InitElsewhereInv == Init => ElsewhereInv
<1> SUFFICES ASSUME Init PROVE ElsewhereInv
  OBVIOUS
<1>1. /\ committed \in Tables /\ db = committed /\ start = committed
      /\ stack = <<>> /\ outcome = "new"
  BY DEF Init
<1>2. WalkInv /\ IsTable(start)
  BY InitWalkInv DEF WalkInv, TypeOK
<1>3. Intact(db) /\ Intact(start)
  BY <1>1, TablesAssumption DEF Intact
<1>4. Untouched(db)
  BY <1>1, <1>2, <1>3, ElsewhereIsApart DEF Untouched
<1> QED BY <1>1, <1>2, <1>3, <1>4 DEF ElsewhereInv, TreeInv, StayInTree, Begun

\* A payload whose operations name no row without its parent changes, re-parents and
\* removes no row outside of the tree below the row its root matches, however deep
\* it is and whatever its deletions cascade to.
THEOREM NestedWritesStay == Spec => []RowsElsewhereAreUntouched
<1>1. ElsewhereInv => RowsElsewhereAreUntouched
  BY DEF ElsewhereInv, TreeInv, Untouched, RowsElsewhereAreUntouched
<1> QED BY <1>1, InitElsewhereInv, NextElsewhereInv, PTL DEF Spec
-----------------------------------------------------------------------------
(* A payload that only adds is met by what it left.                       *)

\* No row that is there is changed, and every operation looks for its row first.
Additive == Immutable /\ \A n \in Payload : Node[n].op = "upsert"

\* The rows of t that an operation meets below a parent.
Meets(t, n, parent) ==
  {r \in DOMAIN t : t[r].key = Node[n].where /\ (parent # None => t[r].owner = parent)}

\* The operations that add below a row they meet, and what they add.
Appending(n) == Node[n].onMatch = "APPEND" /\ Node[n].create # None

Members(q) == {q[k] : k \in 1 .. Len(q)}
ItemsOf(n) == Members(Input[Node[n].create].items)

\* C is a set of operations, each below a parent, that create nothing in t: all of
\* them meet a row, and what they add below it is in C again.
Covered(t, C) ==
  \A n, parent : <<n, parent>> \in C =>
    /\ Meets(t, n, parent) # {}
    /\ \A r : Meets(t, n, parent) = {r} /\ Appending(n)
         => \A i \in ItemsOf(n) : <<i, r>> \in C

\* Rows were added to t.
Grown(t, u) == DOMAIN t \subseteq DOMAIN u /\ \A r \in DOMAIN t : u[r] = t[r]

\* A frame of such a payload looks for a row, creates one, or adds below one; once
\* it has a row, its operation meets it.
Adding(f, t) ==
  /\ f.mode \in {"enter", "create", "append"} /\ f.replaced = <<>>
  /\ f.mode # "create" => f.links = <<>>
  /\ f.mode = "enter" => ~ f.saved
  /\ f.mode = "append" => f.saved
  /\ f.as = "item" <=> f.parent # None
  /\ f.mode = "create" => f.data.key = Node[f.node].where
  /\ f.mode = "create" /\ ~ f.saved /\ Appending(f.node)
       => ItemsOf(f.node) \subseteq Members(f.items)
  /\ f.saved => /\ f.links = <<>> /\ f.data = t[f.row]
                /\ f.row \in Meets(t, f.node, f.parent)

\* What the innermost frame is to add is left to do, or is in C.
Rest(f, C) ==
  f.mode # "enter" /\ Appending(f.node) =>
    \A i \in ItemsOf(f.node) : i \in Members(f.items) \/ <<i, f.row>> \in C

\* The frame g waits for f, which does what g no longer has to do.
Waits(g, f, C) ==
  /\ g.mode # "enter"
  /\ f.as \in Links => g.mode = "create" /\ ~ g.saved
  /\ f.as = "item" => g.saved /\ f.parent = g.row
  /\ Appending(g.node) =>
       \A i \in ItemsOf(g.node) : \/ i \in Members(g.items)
                                  \/ <<i, g.row>> \in C
                                  \/ f.as = "item" /\ f.node = i

\* The frames s below f.
Waiting(s, f, C, t) ==
  \A k \in 1 .. Len(s) :
    Adding(s[k], t) /\ Waits(s[k], IF k = 1 THEN f ELSE s[k - 1], C)

Progress(s, C, t) ==
  s # <<>> => /\ Adding(Head(s), t) /\ Rest(Head(s), C)
              /\ Waiting(Tail(s), Head(s), C, t)

\* The frames of a walk that creates nothing.
Meeting(f, C) ==
  /\ f.mode # "create"
  /\ <<f.node, f.parent>> \in C
  /\ f.mode # "enter" => \A i \in Members(f.items) : <<i, f.row>> \in C

OnCourse(s, C) == \A k \in 1 .. Len(s) : Meeting(s[k], C)

\* What is left of the items.
LEMMA ItemsLeft ==
  ASSUME NEW S, NEW q \in Seq(S), q # <<>>
  PROVE  Members(q) = {Head(q)} \cup Members(Tail(q))
<1>1. /\ Len(q) \in Nat /\ 1 \in 1 .. Len(q) /\ Head(q) = q[1]
      /\ Tail(q) \in Seq(S) /\ Len(Tail(q)) = Len(q) - 1
      /\ \A k \in 1 .. Len(q) - 1 : Tail(q)[k] = q[k + 1]
  OBVIOUS
<1>2. ASSUME NEW k \in 1 .. Len(q) PROVE q[k] \in {Head(q)} \cup Members(Tail(q))
  <2>1. CASE k = 1
    BY <1>1, <2>1
  <2>2. CASE k # 1
    <3>1. k - 1 \in 1 .. Len(Tail(q)) /\ Tail(q)[k - 1] = q[k - 1 + 1] /\ k - 1 + 1 = k
      BY <1>1, <2>2
    <3> QED BY <3>1 DEF Members
  <2> QED BY <2>1, <2>2
<1>3. ASSUME NEW k \in 1 .. Len(Tail(q)) PROVE Tail(q)[k] \in Members(q)
  <2>1. k + 1 \in 1 .. Len(q) /\ Tail(q)[k] = q[k + 1]
    BY <1>1
  <2> QED BY <2>1 DEF Members
<1> QED BY <1>1, <1>2, <1>3 DEF Members

\* Rows that are added to a table take nothing from what meets a row of it.
LEMMA GrowingKeeps ==
  ASSUME NEW t, NEW u, Grown(t, u)
  PROVE  /\ \A n, parent : Meets(t, n, parent) \subseteq Meets(u, n, parent)
         /\ \A C : Covered(t, C) => Covered(u, C)
         /\ \A f : Adding(f, t) => Adding(f, u)
<1>1. \A n, parent : Meets(t, n, parent) \subseteq Meets(u, n, parent)
  BY DEF Grown, Meets
<1>2. ASSUME NEW C, Covered(t, C) PROVE Covered(u, C)
  <2> SUFFICES ASSUME NEW n, NEW parent, <<n, parent>> \in C
               PROVE  /\ Meets(u, n, parent) # {}
                      /\ \A r : Meets(u, n, parent) = {r} /\ Appending(n)
                           => \A i \in ItemsOf(n) : <<i, r>> \in C
    BY DEF Covered
  <2>1. Meets(t, n, parent) # {} /\ Meets(t, n, parent) \subseteq Meets(u, n, parent)
    BY <1>1, <1>2 DEF Covered
  <2>2. \A r : Meets(u, n, parent) = {r} => Meets(t, n, parent) = {r}
    BY <2>1
  <2> QED BY <1>2, <2>1, <2>2 DEF Covered
<1>3. ASSUME NEW f, Adding(f, t) PROVE Adding(f, u)
  <2>1. f.saved => f.data = u[f.row] /\ f.row \in Meets(u, f.node, f.parent)
    <3>1. f.saved => f.row \in DOMAIN t
      BY <1>3 DEF Adding, Meets
    <3> QED BY <1>1, <1>3, <3>1 DEF Adding, Grown
  <2> QED BY <1>3, <2>1 DEF Adding
<1> QED BY <1>1, <1>2, <1>3

\* Frames wait on when rows are added, and more is covered.
LEMMA WaitingKeeps ==
  ASSUME NEW s, NEW f, NEW C, NEW t, Waiting(s, f, C, t),
         NEW D, C \subseteq D, NEW u, Grown(t, u),
         NEW g, g.as = f.as, g.node = f.node, g.parent = f.parent
  PROVE  Waiting(s, g, D, u)
<1> SUFFICES ASSUME NEW k \in 1 .. Len(s)
             PROVE  Adding(s[k], u) /\ Waits(s[k], IF k = 1 THEN g ELSE s[k - 1], D)
  BY DEF Waiting
<1>1. Adding(s[k], t) /\ Waits(s[k], IF k = 1 THEN f ELSE s[k - 1], C)
  BY DEF Waiting
<1>2. Adding(s[k], u)
  BY <1>1, GrowingKeeps
<1>3. CASE k = 1
  BY <1>1, <1>2, <1>3 DEF Waits
<1>4. CASE k # 1
  BY <1>1, <1>2, <1>4 DEF Waits
<1> QED BY <1>3, <1>4

\* A frame is pushed on one that waits for it.
LEMMA WaitingGrows ==
  ASSUME NEW s \in Seq(FrameType), NEW g \in FrameType, NEW f \in FrameType,
         NEW C, NEW t, Waiting(s, g, C, t), Adding(g, t), Waits(g, f, C)
  PROVE  Waiting(<<g>> \o s, f, C, t) /\ <<g>> \o s \in Seq(FrameType)
<1> DEFINE q == <<g>> \o s
<1>1. /\ q \in Seq(FrameType) /\ Len(q) = Len(s) + 1 /\ q[1] = g /\ Len(s) \in Nat
      /\ \A k \in 1 .. Len(s) : q[k + 1] = s[k]
  OBVIOUS
<1> HIDE DEF q
<1>2. ASSUME NEW k \in 1 .. Len(q)
      PROVE  Adding(q[k], t) /\ Waits(q[k], IF k = 1 THEN f ELSE q[k - 1], C)
  <2>1. CASE k = 1
    BY <1>1, <2>1
  <2>2. CASE k # 1
    <3>1. PICK m \in 1 .. Len(s) : k = m + 1
      <4>1. k - 1 \in 1 .. Len(s) /\ k = k - 1 + 1
        BY <1>1, <2>2
      <4> QED BY <4>1
    <3>2. q[k] = s[m] /\ k - 1 = m
      BY <1>1, <3>1
    <3>3. Adding(s[m], t) /\ Waits(s[m], IF m = 1 THEN g ELSE s[m - 1], C)
      BY <3>1 DEF Waiting
    <3>4. q[m] = IF m = 1 THEN g ELSE s[m - 1]
      <4>1. CASE m = 1
        BY <1>1, <4>1
      <4>2. CASE m # 1
        <5>1. m - 1 \in 1 .. Len(s) /\ m - 1 + 1 = m
          BY <1>1, <3>1, <4>2
        <5> QED BY <1>1, <4>2, <5>1
      <4> QED BY <4>1, <4>2
    <3> QED BY <2>2, <3>2, <3>3, <3>4
  <2> QED BY <2>1, <2>2
<1> QED BY <1>1, <1>2 DEF Waiting, q

\* The frame that waits for f, and those below it.
LEMMA WaitingShrinks ==
  ASSUME NEW s \in Seq(FrameType), s # <<>>, NEW f, NEW C, NEW t, Waiting(s, f, C, t)
  PROVE  /\ Head(s) \in FrameType /\ Tail(s) \in Seq(FrameType)
         /\ Adding(Head(s), t) /\ Waits(Head(s), f, C)
         /\ Waiting(Tail(s), Head(s), C, t)
<1>1. /\ Len(s) \in Nat /\ 1 \in 1 .. Len(s) /\ Head(s) = s[1] /\ Head(s) \in FrameType
      /\ Tail(s) \in Seq(FrameType) /\ Len(Tail(s)) = Len(s) - 1
      /\ \A k \in 1 .. Len(s) - 1 : Tail(s)[k] = s[k + 1]
  OBVIOUS
<1>2. Adding(Head(s), t) /\ Waits(Head(s), f, C)
  BY <1>1 DEF Waiting
<1>3. ASSUME NEW k \in 1 .. Len(Tail(s))
      PROVE  /\ Adding(Tail(s)[k], t)
             /\ Waits(Tail(s)[k], IF k = 1 THEN Head(s) ELSE Tail(s)[k - 1], C)
  <2>1. k + 1 \in 1 .. Len(s) /\ Tail(s)[k] = s[k + 1] /\ k + 1 # 1 /\ k + 1 - 1 = k
    BY <1>1
  <2>2. Adding(s[k + 1], t) /\ Waits(s[k + 1], s[k], C)
    BY <2>1 DEF Waiting
  <2>3. s[k] = IF k = 1 THEN Head(s) ELSE Tail(s)[k - 1]
    <3>1. CASE k = 1
      BY <1>1, <3>1
    <3>2. CASE k # 1
      <4>1. k - 1 \in 1 .. Len(s) - 1 /\ k - 1 + 1 = k
        BY <1>1, <3>2
      <4> QED BY <1>1, <3>2, <4>1
    <3> QED BY <3>1, <3>2
  <2> QED BY <2>1, <2>2, <2>3
<1> QED BY <1>1, <1>2, <1>3 DEF Waiting

\* An operation that is done is covered, with what it added.
LEMMA FrameCovers ==
  ASSUME NEW f, NEW t, Adding(f, t), f.saved, f.items = <<>>,
         NEW C, Covered(t, C), Rest(f, C)
  PROVE  Covered(t, C \cup {<<f.node, f.parent>>})
<1> DEFINE D == C \cup {<<f.node, f.parent>>}
<1> SUFFICES ASSUME NEW n, NEW parent, <<n, parent>> \in D
             PROVE  /\ Meets(t, n, parent) # {}
                    /\ \A r : Meets(t, n, parent) = {r} /\ Appending(n)
                         => \A i \in ItemsOf(n) : <<i, r>> \in D
  BY DEF Covered
<1>1. CASE <<n, parent>> \in C
  BY <1>1 DEF Covered
<1>2. CASE n = f.node /\ parent = f.parent
  <2>1. f.row \in Meets(t, n, parent) /\ f.mode # "enter"
    BY <1>2 DEF Adding
  <2>2. Members(f.items) = {}
    BY DEF Members
  <2>3. \A i \in ItemsOf(n) : Appending(n) => <<i, f.row>> \in C
    BY <1>2, <2>1, <2>2 DEF Rest
  <2> QED BY <2>1, <2>3
<1> QED BY <1>1, <1>2
LEMMA GrownTables ==
  /\ \A t : Grown(t, t)
  /\ \A t, r, row : r \notin DOMAIN t => Grown(t, With(t, r, row))
BY DEF Grown, With

\* The innermost frame of a payload that only adds.
LEMMA AddTop ==
  ASSUME WalkInv, Additive, stack # <<>>, NEW C, Progress(stack, C, db)
  PROVE  /\ top \in FrameType /\ Rowed(top) /\ op = Node[top.node] /\ top.node \in Nodes
         /\ Tail(stack) \in Seq(FrameType) /\ IsTable(db) /\ stack \in Seq(FrameType)
         /\ Adding(top, db) /\ Rest(top, C) /\ Waiting(Tail(stack), top, C, db)
         /\ op.op = "upsert" /\ op.onMatch # "UPDATE"
         /\ op.create \in Inputs \cup {None} /\ op.where \in Keys
         /\ op.create # None => Input[op.create].key \in {None, op.where}
         /\ top.as = "root" => top.node = root
         /\ top.as # "root" => Tail(stack) # <<>>
<1>1. /\ top \in FrameType /\ Fits(top, Len(stack)) /\ Rowed(top) /\ op = Node[top.node]
      /\ top.node \in Nodes /\ IsTable(db)
  BY TopFrame
<1>2. /\ Len(stack) \in Nat /\ 1 <= Len(stack) /\ Len(stack) <= MaxVisits + 1
      /\ StackFits(Tail(stack)) /\ Len(Tail(stack)) = Len(stack) - 1 /\ StackFits(stack)
      /\ Valid(root)
  BY TopAndTail DEF WalkInv
<1>3. Len(stack) \in Depths /\ Tail(stack) \in Seq(FrameType) /\ stack \in Seq(FrameType)
  BY <1>2, WriterAssumption DEF Depths, StackFits
<1>4. top.node \in Levels(root)[Len(stack)] /\ top.node \in Payload
  BY <1>1, <1>3 DEF Fits, Payload
<1>5. op.op = "upsert" /\ op.onMatch # "UPDATE"
  BY <1>1, <1>4 DEF Additive, Immutable
<1>6. Allowed(top.node, Len(stack))
  BY <1>2, <1>3, <1>4 DEF Valid
<1>7. /\ op.create \in Inputs \cup {None} /\ op.where \in Keys \cup {None}
  BY <1>1, NodesTyped
<1>8. /\ op.where # None
      /\ op.create # None => Input[op.create].key \in {None, op.where}
  BY <1>1, <1>5, <1>6 DEF Allowed
<1>9. top.as = "root" <=> Len(stack) = 1
  BY <1>1 DEF Fits
<1>10. Levels(root)[1] = {root}
  BY LevelsGoDown
<1>11. top.as # "root" => Tail(stack) # <<>>
  BY <1>2, <1>9
<1>12. Adding(top, db) /\ Rest(top, C) /\ Waiting(Tail(stack), top, C, db)
  BY DEF Progress, top
<1> QED BY <1>1, <1>3, <1>4, <1>5, <1>7, <1>8, <1>9, <1>10, <1>11, <1>12

\* The innermost frame goes on adding.
LEMMA BecomeAdds ==
  ASSUME WalkInv, Additive, stack # <<>>, NEW C, Progress(stack, C, db),
         Grown(db, db'), NEW g \in FrameType, Become(g),
         g.as = top.as, g.node = top.node, g.parent = top.parent,
         Adding(g, db'), Rest(g, C)
  PROVE  Progress(stack', C, db')
<1>1. Waiting(Tail(stack), top, C, db) /\ Tail(stack) \in Seq(FrameType)
  BY AddTop
<1>2. Waiting(Tail(stack), g, C, db')
  BY <1>1, WaitingKeeps
<1>3. stack' = <<g>> \o Tail(stack)
  BY DEF Become
<1>4. Head(stack') = g /\ Tail(stack') = Tail(stack)
  BY <1>1, <1>3
<1> QED BY <1>2, <1>4 DEF Progress

\* What is in the way of a payload that only adds.
LEMMA OnlyAdds ==
  ASSUME WalkInv, Additive, NEW C, Progress(stack, C, db)
  PROVE  /\ ~ EnterCreate /\ ~ EnterUpdate /\ ~ FindMember /\ ~ RemoveMember
         /\ ~ Save /\ ~ DeleteReplaced
         /\ \A r \in RowIds : ~ UpsertUpdates(r)
<1>1. ASSUME stack # <<>>
      PROVE  /\ op.op = "upsert" /\ op.onMatch # "UPDATE"
             /\ top.mode \notin {"update", "remove"}
  BY <1>1, AddTop DEF Adding
<1> QED BY <1>1 DEF EnterCreate, EnterUpdate, FindMember, RemoveMember, Save, DeleteReplaced,
              UpsertUpdates, Matched, Replaceable, Running, Removals

\* An upsert that meets nothing creates.
LEMMA MissesAdd ==
  ASSUME WalkInv, Additive, NEW C, Progress(stack, C, db), UpsertMisses
  PROVE  db' = db /\ Progress(stack', C, db')
<1> DEFINE i == op.create
           g == CreateFrame(i, op.where)
           data == [top.data EXCEPT !.key = Seeded(i, op.where)]
<1>1. /\ stack # <<>> /\ top.mode = "enter" /\ i # None
      /\ Become(g) /\ db' = db
  BY DEF UpsertMisses, Running
<1>2. /\ top \in FrameType /\ op = Node[top.node] /\ Adding(top, db) /\ op.op = "upsert"
      /\ i \in Inputs /\ op.where \in Keys /\ Input[i].key \in {None, op.where}
  BY <1>1, AddTop
<1>3. g \in FrameType
  <2>1. op.op \notin Removals
    BY <1>2 DEF Removals
  <2>2. Fits(g, Len(stack))
    BY <1>1, <1>2, <2>1, CreateFrameFits
  <2> QED BY <2>2 DEF Fits
<1>4. Seeded(i, op.where) = op.where
  BY <1>2 DEF Seeded
<1>5. top.data \in Row
  BY <1>2 DEF FrameType
<1>6. data.key = op.where
  BY <1>4, <1>5 DEF Row
<1>7. g = [top EXCEPT !.mode = "create", !.input = i, !.links = LinksOf(i),
             !.items = Input[i].items, !.data = data]
  BY <1>2 DEF CreateFrame, FrameType
<1> HIDE DEF data
<1>8. /\ g.mode = "create" /\ g.as = top.as /\ g.parent = top.parent /\ g.node = top.node
      /\ g.items = Input[i].items /\ g.replaced = top.replaced /\ g.saved = top.saved
      /\ g.data = data
  BY <1>2, <1>7 DEF FrameType
<1> HIDE DEF g
<1>9. ItemsOf(g.node) = Members(g.items)
  BY <1>2, <1>8 DEF ItemsOf
<1>10. Adding(g, db') /\ Rest(g, C)
  BY <1>1, <1>2, <1>6, <1>8, <1>9 DEF Adding, Rest
<1> QED BY <1>1, <1>3, <1>8, <1>10, GrownTables, BecomeAdds

\* An upsert that meets one row adds below it, or leaves it.
LEMMA MatchesAdd ==
  ASSUME WalkInv, Additive, NEW C, Progress(stack, C, db), NEW r \in RowIds,
         UpsertAppends(r) \/ UpsertStays(r)
  PROVE  db' = db /\ Progress(stack', C, db')
<1>1. /\ Running("enter") /\ stack # <<>> /\ top.mode = "enter" /\ op.op = "upsert"
      /\ r \in Matches(op.where, top.parent) /\ db' = db
  BY DEF UpsertAppends, UpsertStays, Matched, Running
<1>2. /\ top \in FrameType /\ op = Node[top.node] /\ Adding(top, db)
      /\ op.onMatch # "UPDATE"
  BY <1>1, AddTop
<1>3. PICK items : /\ items = <<>> \/ (op.create # None /\ items = Input[op.create].items)
                   /\ Become(AppendFrame(r, items))
                   /\ Appending(top.node) => items = Input[op.create].items
  <2>1. CASE UpsertAppends(r)
    BY <2>1 DEF UpsertAppends
  <2>2. CASE UpsertStays(r)
    <3>1. ~ Appending(top.node)
      BY <1>2, <2>2 DEF UpsertStays, Appending
    <3> QED BY <2>2, <3>1 DEF UpsertStays
  <2> QED BY <2>1, <2>2
<1> DEFINE g == AppendFrame(r, items)
<1>4. r \in DOMAIN db /\ r \in Meets(db, top.node, top.parent)
  BY <1>1, <1>2 DEF Matches, Meets
<1>5. g \in FrameType
  <2>1. Fits(g, Len(stack))
    BY <1>1, <1>3, <1>4, AppendFrameFits
  <2> QED BY <2>1 DEF Fits
<1>6. /\ g.mode = "append" /\ g.as = top.as /\ g.parent = top.parent /\ g.row = r
      /\ g.links = top.links /\ g.replaced = top.replaced /\ g.data = db[r]
      /\ g.node = top.node /\ g.items = items /\ g.saved = TRUE
  BY <1>2 DEF AppendFrame, FrameType
<1> HIDE DEF g
<1>7. Appending(g.node) => ItemsOf(g.node) = Members(g.items)
  BY <1>2, <1>3, <1>6 DEF ItemsOf
<1>8. Adding(g, db') /\ Rest(g, C)
  BY <1>1, <1>2, <1>4, <1>6, <1>7 DEF Adding, Rest
<1>9. Grown(db, db')
  BY <1>1, GrownTables
<1> QED BY <1>1, <1>3, <1>5, <1>6, <1>8, <1>9, BecomeAdds DEF g

\* A link or an item begins: a frame waits for it.
LEMMA BeginsAdd ==
  ASSUME WalkInv, Additive, NEW C, Progress(stack, C, db), BeginLink \/ BeginItem
  PROVE  db' = db /\ Progress(stack', C, db')
<1>1. Writing /\ stack # <<>> /\ top.mode # "enter" /\ db' = db
  BY DEF BeginLink, BeginItem, Writing, Running
<1>2. /\ top \in FrameType /\ Rowed(top) /\ Carried(top) /\ Adding(top, db) /\ Rest(top, C)
      /\ Tail(stack) \in Seq(FrameType) /\ Waiting(Tail(stack), top, C, db)
  BY <1>1, AddTop, TopFrame DEF Fits
<1>3. \E n, parent, as, g :
        /\ n \in NestedIn(top.node) /\ parent \in RowIds \cup {None}
        /\ as \in Links \cup {"item"} /\ (as = "item" <=> parent # None)
        /\ g \in FrameType /\ g.as = top.as /\ g.node = top.node /\ g.parent = top.parent
        /\ Adding(g, db) /\ Waits(g, Frame(n, parent, as), C)
        /\ stack' = <<Frame(n, parent, as), g>> \o Tail(stack)
  <2>1. CASE BeginLink
    <3> DEFINE c == Head(top.links)
               n == Input[top.input][c]
               g == [top EXCEPT !.links = Tail(@)]
    <3>1. stack' = <<Frame(n, None, c), g>> \o Tail(stack) /\ top.links # <<>>
      BY <2>1 DEF BeginLink, Linked
    <3>2. /\ top.links \in Seq(Links) /\ Tail(top.links) \in Seq(Links)
          /\ c = top.links[1] /\ c \in Links /\ 1 \in 1 .. Len(top.links)
      BY <1>2, <3>1 DEF FrameType
    <3>3. n \in NestedIn(top.node)
      BY <1>2, <3>2 DEF Carried
    <3>4. /\ g \in FrameType /\ g.as = top.as /\ g.node = top.node /\ g.parent = top.parent
          /\ g.mode = top.mode /\ g.row = top.row /\ g.items = top.items
          /\ g.replaced = top.replaced /\ g.data = top.data /\ g.saved = top.saved
      BY <1>2, <3>2 DEF FrameType
    <3>5. top.mode = "create" /\ ~ top.saved
      BY <1>2, <3>1 DEF Adding
    <3> HIDE DEF g, c, n
    <3>6. Frame(n, None, c).as = c /\ c # "item"
      BY <3>2 DEF Frame, Links
    <3>7. Adding(g, db)
      BY <1>2, <3>4, <3>5 DEF Adding
    <3>8. Waits(g, Frame(n, None, c), C)
      BY <1>1, <1>2, <3>4, <3>5, <3>6 DEF Waits, Rest
    <3> QED BY <3>1, <3>2, <3>3, <3>4, <3>6, <3>7, <3>8
  <2>2. CASE BeginItem
    <3> DEFINE n == Head(top.items)
               g == [top EXCEPT !.items = Tail(@)]
    <3>1. /\ stack' = <<Frame(n, top.row, "item"), g>> \o Tail(stack)
          /\ top.items # <<>> /\ top.saved
      BY <2>2 DEF BeginItem
    <3>2. /\ top.items \in Seq(Nodes) /\ Tail(top.items) \in Seq(Nodes)
          /\ n = top.items[1] /\ 1 \in 1 .. Len(top.items)
      BY <1>2, <3>1 DEF FrameType
    <3>3. n \in NestedIn(top.node)
      BY <1>2, <3>2 DEF Carried
    <3>4. /\ g \in FrameType /\ g.as = top.as /\ g.node = top.node /\ g.parent = top.parent
          /\ g.mode = top.mode /\ g.row = top.row /\ g.links = top.links
          /\ g.replaced = top.replaced /\ g.data = top.data /\ g.saved = top.saved
          /\ g.items = Tail(top.items)
      BY <1>2, <3>2 DEF FrameType
    <3>5. top.row \in RowIds /\ top.row # None
      BY <1>2, <3>1, PayloadAssumption DEF Rowed
    <3>6. Members(top.items) = {n} \cup Members(g.items)
      BY <3>1, <3>2, <3>4, ItemsLeft
    <3> HIDE DEF g, n
    <3>7. /\ Frame(n, top.row, "item").as = "item" /\ Frame(n, top.row, "item").node = n
          /\ Frame(n, top.row, "item").parent = top.row
      BY DEF Frame
    <3>8. Adding(g, db)
      BY <1>2, <3>1, <3>4 DEF Adding
    <3>9. Waits(g, Frame(n, top.row, "item"), C)
      BY <1>1, <1>2, <3>1, <3>4, <3>6, <3>7 DEF Waits, Rest, Links
    <3> QED BY <3>1, <3>3, <3>4, <3>5, <3>8, <3>9
  <2> QED BY <2>1, <2>2
<1>4. PICK n, parent, as, g :
        /\ n \in NestedIn(top.node) /\ parent \in RowIds \cup {None}
        /\ as \in Links \cup {"item"} /\ (as = "item" <=> parent # None)
        /\ g \in FrameType /\ g.as = top.as /\ g.node = top.node /\ g.parent = top.parent
        /\ Adding(g, db) /\ Waits(g, Frame(n, parent, as), C)
        /\ stack' = <<Frame(n, parent, as), g>> \o Tail(stack)
  BY <1>3
<1> DEFINE f == Frame(n, parent, as)
<1>5. f \in FrameType
  BY <1>1, <1>4, NestedGoesDeeper DEF Fits
<1>6. /\ f.mode = "enter" /\ f.as = as /\ f.parent = parent /\ f.links = <<>>
      /\ f.replaced = <<>> /\ f.saved = FALSE
  BY DEF Frame
<1> HIDE DEF f
<1>7. Adding(f, db) /\ Rest(f, C)
  BY <1>4, <1>6 DEF Adding, Rest
<1> DEFINE s == <<g>> \o Tail(stack)
<1>8. Waiting(Tail(stack), g, C, db)
  BY <1>2, <1>4, GrownTables, WaitingKeeps
<1>9. Waiting(s, f, C, db) /\ s \in Seq(FrameType)
  BY <1>2, <1>4, <1>5, <1>8, WaitingGrows DEF f
<1>10. stack' = <<f>> \o s
  <2>1. ASSUME NEW q \in Seq(FrameType)
        PROVE  <<f, g>> \o q = <<f>> \o (<<g>> \o q)
    BY <1>4, <1>5
  <2>2. stack' = <<f, g>> \o Tail(stack)
    BY <1>4 DEF f
  <2> QED BY <1>2, <2>1, <2>2
<1> HIDE DEF s
<1>11. Head(stack') = f /\ Tail(stack') = s
  BY <1>5, <1>9, <1>10
<1> QED BY <1>1, <1>7, <1>9, <1>11 DEF Progress

\* A row is inserted: the operation meets it.
LEMMA InsertAdds ==
  ASSUME WalkInv, Additive, NEW C, Progress(stack, C, db), Insert
  PROVE  Grown(db, db') /\ Progress(stack', C, db')
<1> DEFINE row == [top.data EXCEPT !.owner = top.parent]
           g == [top EXCEPT !.row = NewId, !.data = row, !.saved = TRUE]
<1>1. /\ stack # <<>> /\ top.mode = "create" /\ ~ top.saved /\ top.links = <<>>
      /\ RowIds \ DOMAIN db # {}
      /\ db' = With(db, NewId, row) /\ Become(g)
  BY DEF Insert, Running, Linked
<1>2. top \in FrameType /\ Adding(top, db) /\ Rest(top, C)
  BY <1>1, AddTop
<1>3. NewId \in RowIds /\ NewId \notin DOMAIN db
  BY <1>1 DEF NewId
<1>4. row \in Row /\ row.owner = top.parent /\ row.key = top.data.key
  BY <1>2 DEF FrameType, Row
<1>5. Grown(db, db')
  BY <1>1, <1>3, GrownTables
<1> HIDE DEF row
<1>6. NewId \in DOMAIN db' /\ db'[NewId] = row
  BY <1>1 DEF With
<1>7. /\ g \in FrameType /\ g.node = top.node /\ g.items = top.items /\ g.saved = TRUE
      /\ g.mode = "create" /\ g.as = top.as /\ g.parent = top.parent /\ g.row = NewId
      /\ g.links = top.links /\ g.replaced = top.replaced /\ g.data = row
  BY <1>1, <1>2, <1>3, <1>4 DEF FrameType
<1> HIDE DEF g
<1>8. NewId \in Meets(db', g.node, g.parent)
  BY <1>1, <1>2, <1>4, <1>6, <1>7 DEF Meets, Adding
<1>9. Adding(g, db') /\ Rest(g, C)
  BY <1>1, <1>2, <1>4, <1>6, <1>7, <1>8 DEF Adding, Rest
<1> QED BY <1>1, <1>5, <1>7, <1>9, BecomeAdds

\* A target returns to the row that is being created.
LEMMA ReturnLinkAdds ==
  ASSUME WalkInv, Additive, NEW C, Progress(stack, C, db), ReturnLink
  PROVE  db' = db /\ Progress(stack', C, db')
<1> DEFINE caller == stack[2]
           previous == Held(caller)[top.as]
           goes == caller.mode = "update" /\ op.deletes /\ previous \notin {None, top.row}
           data == [caller.data EXCEPT ![top.as] = top.row]
           g == [caller EXCEPT !.data[top.as] = top.row,
                               !.replaced = IF goes THEN Append(@, previous) ELSE @]
<1>1. /\ stack # <<>> /\ top.as \in Links
      /\ stack' = <<g>> \o Tail(Tail(stack))
      /\ db' = IF caller.mode = "update" THEN SetNow(caller.row, top.as, top.row) ELSE db
  BY DEF ReturnLink, Writing, Running
<1>2. /\ top \in FrameType /\ Tail(stack) \in Seq(FrameType) /\ stack \in Seq(FrameType)
      /\ Waiting(Tail(stack), top, C, db) /\ Tail(stack) # <<>>
  BY <1>1, AddTop DEF Links
<1>3. caller = Head(Tail(stack))
  <2> DEFINE t == Tail(stack)
  <2>1. t[1] = stack[2] /\ Head(t) = t[1]
    BY <1>1, <1>2
  <2> QED BY <2>1
<1>4. /\ caller \in FrameType /\ Tail(Tail(stack)) \in Seq(FrameType)
      /\ Adding(caller, db) /\ Waits(caller, top, C)
      /\ Waiting(Tail(Tail(stack)), caller, C, db)
  BY <1>2, <1>3, WaitingShrinks
<1> HIDE DEF caller
<1>5. caller.mode = "create" /\ ~ caller.saved
  BY <1>1, <1>4 DEF Waits
<1>6. top.row \in RowIds \cup {None} /\ caller.data \in Row
  BY <1>2, <1>4 DEF FrameType
<1>7. data \in Row /\ data.key = caller.data.key
  <2>1. Fills(top.as, top.row)
    BY <1>1, <1>6 DEF Fills, Columns, Links
  <2>2. data \in Row
    BY <1>6, <2>1, RowsFilled
  <2>3. top.as # "key"
    BY <1>1 DEF Links
  <2> QED BY <1>6, <2>2, <2>3 DEF Row
<1>8. g = [caller EXCEPT !.data = data]
  BY <1>4, <1>5 DEF FrameType
<1> HIDE DEF g, data
<1>9. /\ g \in FrameType /\ g.as = caller.as /\ g.node = caller.node
      /\ g.parent = caller.parent /\ g.mode = caller.mode /\ g.row = caller.row
      /\ g.links = caller.links /\ g.items = caller.items
      /\ g.replaced = caller.replaced /\ g.saved = caller.saved /\ g.data = data
  BY <1>4, <1>7, <1>8 DEF FrameType
<1>10. Adding(g, db)
  BY <1>4, <1>5, <1>7, <1>9 DEF Adding
<1>11. Rest(g, C)
  BY <1>1, <1>4, <1>9 DEF Waits, Rest, Links
<1>12. Waiting(Tail(Tail(stack)), g, C, db)
  BY <1>4, <1>9, GrownTables, WaitingKeeps
<1>13. Head(stack') = g /\ Tail(stack') = Tail(Tail(stack))
  <2>1. ASSUME NEW q \in Seq(FrameType)
        PROVE  Head(<<g>> \o q) = g /\ Tail(<<g>> \o q) = q
    BY <1>9
  <2>2. stack' = <<g>> \o Tail(Tail(stack))
    BY <1>1 DEF g
  <2> QED BY <1>4, <2>1, <2>2
<1>14. db' = db
  BY <1>1, <1>5
<1> QED BY <1>10, <1>11, <1>12, <1>13, <1>14 DEF Progress

\* An operation that is done is covered.
LEMMA DoneIsCovered ==
  ASSUME WalkInv, Additive, stack # <<>>, NEW C, Progress(stack, C, db), Covered(db, C),
         Writing, Finished(top)
  PROVE  Covered(db, C \cup {<<top.node, top.parent>>})
<1>1. Adding(top, db) /\ Rest(top, C)
  BY AddTop
<1> QED BY <1>1, FrameCovers DEF Finished

\* An item's row returns to its parent, where it is.
LEMMA ReturnItemAdds ==
  ASSUME WalkInv, Additive, NEW C, Progress(stack, C, db), ReturnItem
  PROVE  db' = db /\ Progress(stack', C \cup {<<top.node, top.parent>>}, db')
<1> DEFINE D == C \cup {<<top.node, top.parent>>}
<1>1. /\ stack # <<>> /\ top.saved /\ top.as = "item" /\ stack' = Tail(stack)
      /\ Held(top).owner = top.parent => db' = db
  BY DEF ReturnItem, Writing, Running, Finished
<1>2. /\ top \in FrameType /\ Adding(top, db) /\ Tail(stack) # <<>>
      /\ Tail(stack) \in Seq(FrameType) /\ Waiting(Tail(stack), top, C, db)
  BY <1>1, AddTop
<1>3. db' = db
  <2>1. top.data = db[top.row] /\ db[top.row].owner = top.parent
    BY <1>1, <1>2 DEF Adding, Meets
  <2> QED BY <1>1, <2>1 DEF Held
<1> DEFINE g == Head(Tail(stack))
<1>4. Adding(g, db) /\ Waits(g, top, C) /\ Waiting(Tail(Tail(stack)), g, C, db)
  BY <1>2, WaitingShrinks
<1>5. g.row = top.parent
  BY <1>1, <1>4 DEF Waits
<1>6. Rest(g, D)
  BY <1>4, <1>5 DEF Waits, Rest
<1>7. Waiting(Tail(Tail(stack)), g, D, db)
  <2>1. C \subseteq D
    OBVIOUS
  <2> HIDE DEF D, g
  <2> QED BY <1>4, <2>1, GrownTables, WaitingKeeps
<1> QED BY <1>1, <1>3, <1>4, <1>6, <1>7 DEF Progress
-----------------------------------------------------------------------------
(* The payload is sent again.                                             *)

LEMMA TwoArePushed ==
  ASSUME NEW f \in FrameType, NEW g \in FrameType, NEW q \in Seq(FrameType)
  PROVE  /\ <<f, g>> \o q = <<f>> \o (<<g>> \o q)
         /\ <<g>> \o q \in Seq(FrameType)
<1> DEFINE p == <<g>> \o q
           a == <<f, g>> \o q
           b == <<f>> \o p
<1>1. /\ p \in Seq(FrameType) /\ Len(p) = Len(q) + 1 /\ p[1] = g /\ Len(q) \in Nat
      /\ \A k \in 1 .. Len(q) : p[k + 1] = q[k]
  OBVIOUS
<1>2. /\ a \in Seq(FrameType) /\ Len(a) = Len(q) + 2 /\ a[1] = f /\ a[2] = g
      /\ \A k \in 1 .. Len(q) : a[k + 2] = q[k]
  OBVIOUS
<1> HIDE DEF p, a
<1>3. /\ b \in Seq(FrameType) /\ Len(b) = Len(p) + 1 /\ b[1] = f
      /\ \A k \in 1 .. Len(p) : b[k + 1] = p[k]
  BY <1>1
<1> HIDE DEF b
<1>4. ASSUME NEW k \in 1 .. Len(a) PROVE a[k] = b[k]
  <2>1. CASE k = 1
    BY <1>2, <1>3, <2>1
  <2>2. CASE k = 2
    <3>1. b[2] = p[1] /\ 1 \in 1 .. Len(p) /\ 1 + 1 = 2
      BY <1>1, <1>3
    <3> QED BY <1>1, <1>2, <2>2, <3>1
  <2>3. CASE k > 2
    <3>1. PICK m \in 1 .. Len(q) : k = m + 2
      <4>1. k - 2 \in 1 .. Len(q) /\ k = k - 2 + 2
        BY <1>1, <1>2, <2>3
      <4> QED BY <4>1
    <3>2. m + 1 \in 1 .. Len(p) /\ m + 1 + 1 = k
      BY <1>1, <3>1
    <3>3. b[k] = p[m + 1]
      BY <1>3, <3>2
    <3> QED BY <1>1, <1>2, <3>1, <3>3
  <2>4. k = 1 \/ k = 2 \/ k > 2
    BY <1>1, <1>2
  <2> QED BY <2>1, <2>2, <2>3, <2>4
<1>5. a = b
  <2>1. Len(a) = Len(b)
    BY <1>1, <1>2, <1>3
  <2> QED BY <1>2, <1>3, <1>4, <2>1
<1> QED BY <1>1, <1>5 DEF p, a, b

LEMMA CourseStacks ==
  ASSUME NEW s \in Seq(FrameType), NEW C, OnCourse(s, C)
  PROVE  /\ s # <<>> => Meeting(Head(s), C) /\ OnCourse(Tail(s), C)
         /\ \A f \in FrameType : Meeting(f, C) => OnCourse(<<f>> \o s, C)
<1>1. ASSUME s # <<>> PROVE Meeting(Head(s), C) /\ OnCourse(Tail(s), C)
  <2>1. /\ Len(s) \in Nat /\ 1 \in 1 .. Len(s) /\ Head(s) = s[1]
        /\ Tail(s) \in Seq(FrameType) /\ Len(Tail(s)) = Len(s) - 1
        /\ \A k \in 1 .. Len(s) - 1 : Tail(s)[k] = s[k + 1] /\ k + 1 \in 1 .. Len(s)
    BY <1>1
  <2> QED BY <2>1 DEF OnCourse
<1>2. ASSUME NEW f \in FrameType, Meeting(f, C) PROVE OnCourse(<<f>> \o s, C)
  <2> DEFINE q == <<f>> \o s
  <2>1. /\ q \in Seq(FrameType) /\ Len(q) = Len(s) + 1 /\ q[1] = f /\ Len(s) \in Nat
        /\ \A k \in 1 .. Len(s) : q[k + 1] = s[k]
    OBVIOUS
  <2> HIDE DEF q
  <2>2. ASSUME NEW k \in 1 .. Len(q) PROVE Meeting(q[k], C)
    <3>1. CASE k = 1
      BY <1>2, <2>1, <3>1
    <3>2. CASE k # 1
      <4>1. PICK m \in 1 .. Len(s) : k = m + 1
        <5>1. k - 1 \in 1 .. Len(s) /\ k = k - 1 + 1
          BY <2>1, <3>2
        <5> QED BY <5>1
      <4>2. q[k] = s[m]
        BY <2>1, <4>1
      <4> QED BY <4>1, <4>2 DEF OnCourse
    <3> QED BY <3>1, <3>2
  <2> QED BY <2>2 DEF OnCourse, q
<1> QED BY <1>1, <1>2

\* A walk that creates nothing goes on like that.
LEMMA CourseKeeps ==
  ASSUME WalkInv, Additive, NEW C, Progress(stack, C, db),
         NEW D, Covered(db, D), OnCourse(stack, D), Step, ~ Commit, ~ Fail
  PROVE  db' = db /\ OnCourse(stack', D)
<1>0. stack # <<>>
  BY DEF Step, EnterCreate, EnterUpdate, UpsertMisses, UpsertUpdates, UpsertAppends,
         UpsertStays, Matched, BeginLink, Insert, Save, DeleteReplaced, BeginItem, FindMember,
         RemoveMember, ReturnLink, ReturnItem, Writing, Running
<1>1. /\ top \in FrameType /\ op = Node[top.node] /\ Adding(top, db) /\ Rowed(top)
      /\ Tail(stack) \in Seq(FrameType) /\ stack \in Seq(FrameType)
      /\ top.node \in Nodes /\ top.as # "root" => Tail(stack) # <<>>
  BY <1>0, AddTop
<1>2. Meeting(top, D) /\ OnCourse(Tail(stack), D)
  BY <1>0, <1>1, CourseStacks DEF top
<1>3. ASSUME NEW g \in FrameType, Become(g), Meeting(g, D) PROVE OnCourse(stack', D)
  BY <1>1, <1>2, <1>3, CourseStacks DEF Become
<1>4. ~ UpsertMisses
  <2>1. Matches(op.where, top.parent) = Meets(db, top.node, top.parent)
    BY <1>1 DEF Matches, Meets
  <2>2. Meets(db, top.node, top.parent) # {}
    BY <1>2 DEF Meeting, Covered
  <2> QED BY <2>1, <2>2 DEF UpsertMisses
<1>5. ASSUME NEW r \in RowIds, UpsertAppends(r) \/ UpsertStays(r)
      PROVE  db' = db /\ OnCourse(stack', D)
  <2>1. /\ Matched(r) /\ db' = db /\ op.op = "upsert" /\ r \in DOMAIN db
        /\ Meets(db, top.node, top.parent) = {r}
    <3>1. Matched(r) /\ db' = db
      BY <1>5 DEF UpsertAppends, UpsertStays
    <3>2. /\ op.op = "upsert" /\ Matches(op.where, top.parent) = {r}
          /\ Matches(op.where, top.parent) = Meets(db, top.node, top.parent)
      BY <1>1, <3>1 DEF Matched, Matches, Meets
    <3>3. r \in Meets(db, top.node, top.parent)
      BY <3>2
    <3> QED BY <3>1, <3>2, <3>3 DEF Meets
  <2>2. PICK items :
          /\ items = <<>> \/ (Appending(top.node) /\ items = Input[op.create].items)
          /\ Become(AppendFrame(r, items))
    <3>1. CASE UpsertAppends(r)
      <4>1. Appending(top.node)
        BY <1>1, <3>1 DEF UpsertAppends, Appending
      <4> QED BY <3>1, <4>1 DEF UpsertAppends
    <3>2. CASE UpsertStays(r)
      BY <3>2 DEF UpsertStays
    <3> QED BY <1>5, <3>1, <3>2
  <2> DEFINE g == AppendFrame(r, items)
  <2>3. g \in FrameType
    <3>1. items = <<>> \/ (op.create # None /\ items = Input[op.create].items)
      BY <1>1, <2>2 DEF Appending
    <3>2. Fits(g, Len(stack))
      BY <1>0, <2>1, <3>1, AppendFrameFits
    <3> QED BY <3>2 DEF Fits
  <2>4. /\ g.mode = "append" /\ g.parent = top.parent /\ g.row = r
        /\ g.node = top.node /\ g.items = items
    BY <1>1 DEF AppendFrame, FrameType
  <2> HIDE DEF g
  <2>5. \A i \in Members(g.items) : <<i, r>> \in D
    <3>1. CASE items = <<>>
      BY <2>4, <3>1 DEF Members
    <3>2. CASE Appending(top.node) /\ items = Input[op.create].items
      <4>1. Members(g.items) = ItemsOf(top.node)
        BY <1>1, <2>4, <3>2 DEF ItemsOf
      <4> QED BY <1>2, <2>1, <3>2, <4>1 DEF Meeting, Covered
    <3> QED BY <2>2, <3>1, <3>2
  <2>6. Meeting(g, D)
    BY <1>2, <2>4, <2>5 DEF Meeting
  <2> QED BY <1>3, <2>1, <2>2, <2>3, <2>6 DEF g
<1>6. CASE BeginItem
  <2> DEFINE n == Head(top.items)
             f == Frame(n, top.row, "item")
             g == [top EXCEPT !.items = Tail(@)]
  <2>1. /\ stack' = <<f, g>> \o Tail(stack) /\ db' = db
        /\ top.items # <<>> /\ top.saved /\ Writing /\ top.mode # "enter"
    BY <1>6 DEF BeginItem, Writing, Running
  <2>2. /\ top.items \in Seq(Nodes) /\ Tail(top.items) \in Seq(Nodes)
        /\ n = top.items[1] /\ 1 \in 1 .. Len(top.items)
    BY <1>1, <2>1 DEF FrameType
  <2>3. Members(top.items) = {n} \cup Members(Tail(top.items))
    BY <2>1, <2>2, ItemsLeft
  <2>4. /\ g \in FrameType /\ g.mode = top.mode /\ g.node = top.node
        /\ g.parent = top.parent /\ g.row = top.row /\ g.items = Tail(top.items)
    BY <1>1, <2>2 DEF FrameType
  <2>5. f \in FrameType
    <3>1. n \in NestedIn(top.node)
      <4>1. Carried(top)
        BY <1>0, TopFrame DEF Fits
      <4> QED BY <2>2, <4>1 DEF Carried
    <3>2. top.row \in RowIds
      BY <1>1, <2>1 DEF Rowed
    <3> HIDE DEF n
    <3> QED BY <2>1, <3>1, <3>2, NestedGoesDeeper DEF Fits
  <2>6. f.mode = "enter" /\ f.node = n /\ f.parent = top.row
    BY DEF Frame
  <2> HIDE DEF f, g, n
  <2>7. Meeting(g, D) /\ Meeting(f, D)
    BY <1>2, <2>1, <2>3, <2>4, <2>6 DEF Meeting
  <2> DEFINE s == <<g>> \o Tail(stack)
  <2>10. f \in FrameType /\ g \in FrameType
    BY <2>4, <2>5
  <2>11. /\ <<f, g>> \o Tail(stack) = <<f>> \o s
         /\ s \in Seq(FrameType)
    BY <1>1, <2>10, TwoArePushed
  <2>8. OnCourse(s, D) /\ s \in Seq(FrameType)
    BY <1>1, <1>2, <2>7, <2>10, <2>11, CourseStacks
  <2>9. stack' = <<f>> \o s
    BY <1>1, <2>1, <2>11
  <2> HIDE DEF s
  <2> QED BY <2>1, <2>5, <2>7, <2>8, <2>9, CourseStacks
<1>7. CASE ReturnItem
  <2>1. db' = db
    BY <1>7, ReturnItemAdds
  <2>2. stack' = Tail(stack)
    BY <1>7 DEF ReturnItem
  <2> QED BY <1>2, <2>1, <2>2
<1>8. ~ BeginLink /\ ~ Insert
  <2>1. top.mode # "create" /\ top.links = <<>>
    BY <1>1, <1>2 DEF Meeting, Adding
  <2> QED BY <2>1 DEF BeginLink, Insert, Linked, Running
<1>9. ~ ReturnLink
  <2>1. ASSUME ReturnLink PROVE FALSE
    <3>1. top.as \in Links /\ top.as # "root"
      BY <2>1 DEF ReturnLink, Links
    <3>2. Tail(stack) # <<>> /\ Waiting(Tail(stack), top, C, db)
      BY <1>0, <3>1, AddTop
    <3>3. Head(Tail(stack)).mode = "create"
      BY <1>1, <3>1, <3>2, WaitingShrinks DEF Waits
    <3>4. Meeting(Head(Tail(stack)), D)
      BY <1>1, <1>2, <3>2, CourseStacks
    <3> QED BY <3>3, <3>4 DEF Meeting
  <2> QED BY <2>1
<1> QED BY <1>4, <1>5, <1>6, <1>7, <1>8, <1>9, OnlyAdds DEF Step

\* What a walk adds as it goes on is covered once it is done.
LEMMA ProgressKeeps ==
  ASSUME WalkInv, Additive, NEW C, Covered(db, C), Progress(stack, C, db),
         Step, ~ Commit, ~ Fail
  PROVE  \E D : Covered(db', D) /\ Progress(stack', D, db')
<1>1. CASE UpsertMisses \/ \E r \in RowIds : UpsertAppends(r) \/ UpsertStays(r)
  BY <1>1, MissesAdd, MatchesAdd
<1>2. CASE BeginLink \/ BeginItem \/ ReturnLink
  BY <1>2, BeginsAdd, ReturnLinkAdds
<1>3. CASE Insert
  BY <1>3, InsertAdds, GrowingKeeps
<1>4. CASE ReturnItem
  <2>1. stack # <<>> /\ Writing /\ Finished(top)
    BY <1>4 DEF ReturnItem, Writing, Running
  <2>2. Covered(db, C \cup {<<top.node, top.parent>>})
    BY <2>1, DoneIsCovered
  <2> QED BY <1>4, <2>2, ReturnItemAdds
<1> QED BY <1>1, <1>2, <1>3, <1>4, OnlyAdds DEF Step

\* The invariant of ResendAddsNothing: what a write added is covered, and one that is
\* sent again finds everything covered.
ResendInv ==
  /\ ElsewhereInv
  /\ outcome # "running" => stack = <<>>
  /\ Additive =>
       /\ \E C : /\ Covered(db, C) /\ Progress(stack, C, db)
                 /\ outcome = "ok" => <<root, None>> \in C
       /\ done => /\ db = start
                  /\ \E C : /\ Covered(db, C) /\ <<root, None>> \in C
                            /\ OnCourse(stack, C)

LEMMA AdditiveWhenSent ==
  ASSUME UNCHANGED root
  PROVE  Additive' = Additive
BY DEF Additive, Immutable, Payload

LEMMA NothingIsCovered ==
  /\ \A t : Covered(t, {})
  /\ \A C, t : Progress(<<>>, C, t)
  /\ \A C : OnCourse(<<>>, C)
BY DEF Covered, Progress, OnCourse

\* The payload is sent: it is the first time, or everything is covered.
LEMMA SendResends ==
  ASSUME ResendInv, Send
  PROVE  ResendInv'
<1>1. /\ outcome # "running" /\ stack = <<>> /\ db = committed
      /\ done' = (done \/ outcome = "ok") /\ start' = db /\ UNCHANGED <<db, root>>
  BY DEF ResendInv, ElsewhereInv, Send
<1>2. ElsewhereInv'
  BY SendStays DEF ResendInv
<1>3. \/ outcome' = "running" /\ stack' = <<Frame(root, None, "root")>>
      \/ outcome' = "rejected" /\ stack' = <<>>
  BY DEF Send
<1>4. outcome' # "running" => stack' = <<>>
  BY <1>3
<1> DEFINE f == Frame(root, None, "root")
<1>5. /\ f.mode = "enter" /\ f.replaced = <<>> /\ f.links = <<>> /\ f.saved = FALSE
      /\ f.as = "root" /\ f.parent = None /\ f.node = root
  BY DEF Frame
<1>6. stack' = <<>> \/ (stack' = <<f>> /\ outcome' = "running")
  BY <1>3
<1> HIDE DEF f
<1>7. ASSUME Additive
      PROVE  /\ \E C : /\ Covered(db', C) /\ Progress(stack', C, db')
                       /\ outcome' = "ok" => <<root', None>> \in C
             /\ done' => /\ db' = start'
                         /\ \E C : /\ Covered(db', C) /\ <<root', None>> \in C
                                   /\ OnCourse(stack', C)
  <2>1. Progress(stack', {}, db')
    <3>1. CASE stack' = <<>>
      BY <3>1, NothingIsCovered
    <3>2. CASE stack' = <<f>>
      <4>1. Adding(f, db') /\ Rest(f, {})
        BY <1>5 DEF Adding, Rest
      <4>2. Head(stack') = f /\ Tail(stack') = <<>>
        BY <3>2
      <4>3. Waiting(<<>>, f, {}, db')
        BY DEF Waiting
      <4> QED BY <4>1, <4>2, <4>3 DEF Progress
    <3> QED BY <1>6, <3>1, <3>2
  <2>2. outcome' # "ok" /\ db' = start'
    BY <1>1, <1>3
  <2>3. ASSUME done'
        PROVE  \E C : /\ Covered(db', C) /\ <<root', None>> \in C
                      /\ OnCourse(stack', C)
    <3>1. PICK C : Covered(db, C) /\ <<root, None>> \in C
      BY <1>1, <1>7, <2>3 DEF ResendInv
    <3>2. OnCourse(stack', C)
      <4>1. CASE stack' = <<>>
        BY <4>1, NothingIsCovered
      <4>2. CASE stack' = <<f>>
        <5>1. Meeting(f, C)
          BY <1>5, <3>1 DEF Meeting
        <5>2. Len(stack') = 1 /\ stack'[1] = f
          BY <4>2
        <5> QED BY <5>1, <5>2 DEF OnCourse
      <4> QED BY <1>6, <4>1, <4>2
    <3> QED BY <1>1, <3>1, <3>2
  <2> QED BY <2>1, <2>2, <2>3, NothingIsCovered
<1>8. Additive' = Additive
  BY <1>1, AdditiveWhenSent
<1> QED BY <1>2, <1>4, <1>7, <1>8 DEF ResendInv

\* The write ends: it is covered when it is committed.
LEMMA EndsResend ==
  ASSUME ResendInv, Commit \/ Fail
  PROVE  ResendInv'
<1>1. /\ outcome = "running" /\ stack' = <<>> /\ outcome' \in {"ok", "failed"}
      /\ committed = start /\ UNCHANGED <<root, start, done>>
      /\ WalkInv
  BY DEF ResendInv, ElsewhereInv, Commit, Fail, Writing, Running, walkVars
<1>2. ElsewhereInv'
  BY EndsStay DEF ResendInv
<1>3. \/ outcome' = "failed" /\ db' = start
      \/ Commit /\ db' = db
  BY <1>1 DEF Commit, Fail
<1>4. ASSUME Additive
      PROVE  /\ \E C : /\ Covered(db', C) /\ Progress(stack', C, db')
                       /\ outcome' = "ok" => <<root', None>> \in C
             /\ done' => /\ db' = start'
                         /\ \E C : /\ Covered(db', C) /\ <<root', None>> \in C
                                   /\ OnCourse(stack', C)
  <2>1. PICK C : Covered(db, C) /\ Progress(stack, C, db)
    BY <1>4 DEF ResendInv
  <2>2. \E D : /\ Covered(db', D) /\ Progress(stack', D, db')
               /\ outcome' = "ok" => <<root', None>> \in D
    <3>1. CASE outcome' = "failed"
      BY <1>1, <3>1, NothingIsCovered
    <3>2. CASE Commit /\ db' = db
      <4>1. stack # <<>> /\ Writing /\ Finished(top) /\ top.as = "root"
        BY <3>2 DEF Commit, Writing, Running
      <4>2. Covered(db, C \cup {<<top.node, top.parent>>})
        BY <1>1, <1>4, <2>1, <4>1, DoneIsCovered
      <4>3. top.node = root /\ Adding(top, db)
        BY <1>1, <1>4, <2>1, <4>1, AddTop
      <4>4. top.parent = None
        BY <4>1, <4>3 DEF Adding
      <4> QED BY <1>1, <3>2, <4>2, <4>3, <4>4, NothingIsCovered
    <3> QED BY <1>3, <3>1, <3>2
  <2>3. ASSUME done'
        PROVE  /\ db' = start'
               /\ \E D : /\ Covered(db', D) /\ <<root', None>> \in D
                         /\ OnCourse(stack', D)
    <3>1. db = start /\ \E D : Covered(db, D) /\ <<root, None>> \in D
      BY <1>1, <1>4, <2>3 DEF ResendInv
    <3>2. db' = db
      BY <1>3, <3>1
    <3> QED BY <1>1, <3>1, <3>2, NothingIsCovered
  <2> QED BY <2>2, <2>3
<1>5. Additive' = Additive
  BY <1>1, AdditiveWhenSent
<1> QED BY <1>1, <1>2, <1>4, <1>5 DEF ResendInv

LEMMA NextResendInv == ResendInv /\ [Next]_vars => ResendInv'
<1> SUFFICES ASSUME ResendInv, [Next]_vars PROVE ResendInv'
  OBVIOUS
<1>0. ElsewhereInv' /\ WalkInv
  BY NextElsewhereInv DEF ResendInv, ElsewhereInv
<1>1. CASE Step /\ ~ Commit /\ ~ Fail
  <2>1. UNCHANGED <<committed, outcome>> /\ UNCHANGED <<root, start, done>> /\ outcome = "running"
    <3>1. UNCHANGED <<committed, outcome>>
      BY <1>1, WalkIsPrivate
    <3>2. UNCHANGED <<root, start, done>> /\ outcome = "running"
      BY <1>1 DEF Step, EnterCreate, EnterUpdate, UpsertMisses, UpsertUpdates, UpsertAppends,
         UpsertStays, Matched, BeginLink, Insert, Save, DeleteReplaced, BeginItem, FindMember,
         RemoveMember, ReturnLink, ReturnItem, Writing, Running, walkVars
    <3> QED BY <3>1, <3>2
  <2>2. Additive' = Additive
    BY <2>1, AdditiveWhenSent
  <2>3. ASSUME Additive
        PROVE  /\ \E C : /\ Covered(db', C) /\ Progress(stack', C, db')
                         /\ outcome' = "ok" => <<root', None>> \in C
               /\ done' => /\ db' = start'
                           /\ \E C : /\ Covered(db', C) /\ <<root', None>> \in C
                                     /\ OnCourse(stack', C)
    <3>1. PICK C : Covered(db, C) /\ Progress(stack, C, db)
      BY <2>3 DEF ResendInv
    <3>2. \E D : Covered(db', D) /\ Progress(stack', D, db')
      BY <1>0, <1>1, <2>3, <3>1, ProgressKeeps
    <3>3. ASSUME done'
          PROVE  /\ db' = start'
                 /\ \E D : /\ Covered(db', D) /\ <<root', None>> \in D
                           /\ OnCourse(stack', D)
      <4>1. db = start
        BY <2>1, <2>3, <3>3 DEF ResendInv
      <4>2. PICK D : Covered(db, D) /\ <<root, None>> \in D /\ OnCourse(stack, D)
        BY <2>1, <2>3, <3>3 DEF ResendInv
      <4>3. db' = db /\ OnCourse(stack', D)
        BY <1>0, <1>1, <2>3, <3>1, <4>2, CourseKeeps
      <4> QED BY <2>1, <4>1, <4>2, <4>3
    <3> QED BY <2>1, <3>2, <3>3
  <2> QED BY <1>0, <2>1, <2>2, <2>3 DEF ResendInv
<1>2. CASE UNCHANGED vars
  <2>1. UNCHANGED <<orm, committed, db, root, stack, outcome, sent, done, start>>
    BY <1>2 DEF vars
  <2>2. Additive' = Additive
    BY <2>1, AdditiveWhenSent
  <2> QED BY <1>0, <2>1, <2>2 DEF ResendInv
<1> QED BY <1>1, <1>2, SendResends, EndsResend DEF Next

LEMMA InitResendInv == Init => ResendInv
<1> SUFFICES ASSUME Init PROVE ResendInv
  OBVIOUS
<1>1. stack = <<>> /\ outcome = "new" /\ done = FALSE
  BY DEF Init
<1> QED BY <1>1, InitElsewhereInv, NothingIsCovered DEF ResendInv

\* A payload that only adds, once it was written, adds nothing when it is sent again:
\* every upsert of it meets what the first write left, whatever else is in the table.
THEOREM ResendsAddNothing == Spec => []ResendAddsNothing
<1>1. ResendInv => ResendAddsNothing
  BY DEF ResendInv, ResendAddsNothing, Additive
<1> QED BY <1>1, InitResendInv, NextResendInv, PTL DEF Spec
=============================================================================
