---------------------- MODULE RelationConnectionProofs ----------------------
(***************************************************************************)
(* Proofs about RelationConnection: one shared read serves the siblings,   *)
(* and as long as rows keep their addresses no field is given the page of  *)
(* another parent.                                                         *)
(***************************************************************************)
EXTENDS RelationConnection, TLAPS

\* A page under an address is that of the row kept there.
FetchedIsOwn ==
  \A p \in Parents :
    Loaded(p) /\ fetched[at[p]] # NoPage => fetched[at[p]] = PkOf[p]

\* A row at this address is kept: no other row can be loaded there.
Kept(a) == \E p \in Parents : GroupOf[p] \in Retained /\ at[p] = a

\* An address with a page stays occupied.
FetchedIsOccupied == \A a \in Addresses : fetched[a] # NoPage => Kept(a)

GroupsAreLoaded ==
  \A g \in {stash, reader} \ {NoGroup} :
    g \in Retained /\ \A p \in Members(g) : Loaded(p)

\* A field that has started and not yet answered still has its row.
FieldsHaveRows == \A p \in Parents : pc[p] \notin {"start", "end"} => Loaded(p)

HandedIsOwn == \A p \in Parents : handed[p] \in {NoPage, PkOf[p]}

\* A read under way, or finished, has a group that it reads for.
TaskHasReader == task \in {"rows", "totals"} => reader # NoGroup

PageInv ==
  /\ at \in [Parents -> Addresses \cup {Nowhere}]
  /\ stash \in Groups \cup {NoGroup}
  /\ reader \in Groups \cup {NoGroup}
  /\ fetched \in [Addresses -> Keys \cup {NoPage}]
  /\ handed \in [Parents -> Keys \cup {NoPage}]
  /\ answer \in [Parents -> Keys \cup {Unanswered, Failed}]
  /\ pc \in [Parents -> {"start", "waiting", "resolving", "reading", "end"}]
  /\ FieldsHaveRows
  /\ Placed(at)
  /\ GroupsAreLoaded
  /\ FetchedIsOwn
  /\ FetchedIsOccupied
  /\ HandedIsOwn
  /\ TaskHasReader
  /\ NeverWrongPage

\* Nothing is loaded, read or answered at first.
THEOREM InitPageInv == Init => PageInv
<1> SUFFICES ASSUME Init PROVE PageInv
  OBVIOUS
<1>1. /\ at = [p \in Parents |-> Nowhere] /\ stash = NoGroup /\ reader = NoGroup
      /\ fetched = [a \in Addresses |-> NoPage]
      /\ handed = [p \in Parents |-> NoPage]
      /\ answer = [p \in Parents |-> Unanswered]
      /\ pc = [p \in Parents |-> "start"] /\ task = "none"
  BY DEF Init, RowsInit
<1>2. Placed(at) /\ GroupsAreLoaded /\ HandedIsOwn /\ NeverWrongPage /\ TaskHasReader
  BY <1>1 DEF Placed, GroupsAreLoaded, HandedIsOwn, NeverWrongPage, TaskHasReader
<1>3. FetchedIsOwn /\ FetchedIsOccupied
  BY <1>1 DEF FetchedIsOwn, FetchedIsOccupied, Kept, Loaded
<1>4. FieldsHaveRows
  BY <1>1 DEF FieldsHaveRows
<1>5. /\ at \in [Parents -> Addresses \cup {Nowhere}]
      /\ stash \in Groups \cup {NoGroup}
      /\ reader \in Groups \cup {NoGroup}
      /\ fetched \in [Addresses -> Keys \cup {NoPage}]
      /\ handed \in [Parents -> Keys \cup {NoPage}]
      /\ answer \in [Parents -> Keys \cup {Unanswered, Failed}]
      /\ pc \in [Parents -> {"start", "waiting", "resolving", "reading", "end"}]
  BY <1>1
<1> QED BY <1>2, <1>3, <1>4, <1>5 DEF PageInv

\* The pages read for a group are those of the rows at their addresses.
LEMMA PagesOfIsOwn ==
  ASSUME PageInv, NEW g \in Groups, g \in Retained, \A p \in Members(g) : Loaded(p)
  PROVE  /\ PagesOf(g) \in [Addresses -> Keys \cup {NoPage}]
         /\ \A p \in Parents :
              Loaded(p) => PagesOf(g)[at[p]] \in {NoPage, PkOf[p]}
         /\ \A a \in Addresses : PagesOf(g)[a] # NoPage => Kept(a)
<1> DEFINE first(a) == CHOOSE p \in Members(g) : at[p] = a
<1>1. \A a \in Addresses :
        (\E p \in Members(g) : at[p] = a) =>
          first(a) \in Members(g) /\ at[first(a)] = a
  OBVIOUS
<1> HIDE DEF first
<1>2. PagesOf(g) = [a \in Addresses |-> IF \E p \in Members(g) : at[p] = a
                                          THEN PkOf[first(a)] ELSE NoPage]
  BY DEF PagesOf, first
<1>3. \A p \in Members(g) : p \in Parents /\ PkOf[p] \in Keys
  BY DEF Members, Keys
<1>4. PagesOf(g) \in [Addresses -> Keys \cup {NoPage}]
  <2>1. \A a \in Addresses : PagesOf(g)[a] \in Keys \cup {NoPage}
    BY <1>1, <1>2, <1>3
  <2> QED BY <1>2, <2>1
<1>5. ASSUME NEW p \in Parents, Loaded(p)
      PROVE  PagesOf(g)[at[p]] \in {NoPage, PkOf[p]}
  <2>1. at[p] \in Addresses
    BY <1>5 DEF PageInv, Loaded
  <2>2. CASE \E q \in Members(g) : at[q] = at[p]
    <3>1. first(at[p]) \in Parents /\ at[first(at[p])] = at[p]
      BY <1>1, <1>3, <2>1, <2>2
    <3>2. PkOf[first(at[p])] = PkOf[p]
      BY <1>5, <3>1 DEF PageInv, Placed, Loaded
    <3> QED BY <1>2, <2>1, <2>2, <3>2
  <2>3. CASE ~ \E q \in Members(g) : at[q] = at[p]
    BY <1>2, <2>1, <2>3
  <2> QED BY <2>2, <2>3
<1>6. ASSUME NEW a \in Addresses, PagesOf(g)[a] # NoPage
      PROVE  Kept(a)
  BY <1>2, <1>3, <1>6 DEF Members, Kept
<1> QED BY <1>4, <1>5, <1>6

\* A new group gets addresses that no page belongs to, unless it reads a row
\* again.
LEMMA LoadGroupKeepsPageInv ==
  ASSUME BatchedRowsAreKept, PageInv, NEW g \in Groups, LoadGroup(g)
  PROVE  PageInv'
<1>1. PICK a \in [Members(g) -> Addresses] :
        at' = [p \in Parents |-> IF p \in Members(g) THEN a[p] ELSE at[p]]
  BY DEF LoadGroup, Load
<1>2. UNCHANGED <<task, fetched, reader, pc, handed, answer>>
  BY DEF LoadGroup
<1>3. /\ at \in [Parents -> Addresses \cup {Nowhere}]
      /\ \A p \in Members(g) : p \in Parents /\ at[p] = Nowhere
  BY DEF PageInv, LoadGroup, Members, Loaded
<1>4. at' \in [Parents -> Addresses \cup {Nowhere}]
  BY <1>1, <1>3
<1>5. \A p \in Parents : at[p] # Nowhere => at'[p] = at[p]
  BY <1>1, <1>3
<1>6. Placed(at')
  BY DEF LoadGroup, Load
<1>7. stash' = stash \/ (stash' = g /\ g \in Retained)
  BY DEF LoadGroup, Load, Stashed, BatchedRowsAreKept
<1>8. GroupsAreLoaded'
  <2>1. \A p \in Members(g) : at'[p] # Nowhere
    BY <1>1, <1>3, ParentsAssumption
  <2>2. \A h \in {stash, reader} \ {NoGroup} :
          h \in Retained /\ \A p \in Members(h) : at'[p] # Nowhere
    BY <1>5 DEF PageInv, GroupsAreLoaded, Members, Loaded
  <2> QED BY <1>2, <1>7, <2>1, <2>2 DEF GroupsAreLoaded, Members, Loaded
<1>9. FetchedIsOccupied'
  BY <1>2, <1>5, ParentsAssumption DEF PageInv, FetchedIsOccupied, Kept
<1>10. FetchedIsOwn'
  <2> SUFFICES ASSUME NEW p \in Parents, at'[p] # Nowhere, fetched[at'[p]] # NoPage
               PROVE  fetched[at'[p]] = PkOf[p]
    BY <1>2 DEF FetchedIsOwn, Loaded
  <2>1. at'[p] \in Addresses
    BY <1>4
  <2>2. PICK q \in Parents : at[q] = at'[p]
    BY <2>1 DEF PageInv, FetchedIsOccupied, Kept
  <2>3. at'[q] = at'[p]
    BY <1>5, <2>2
  <2>4. PkOf[p] = PkOf[q]
    BY <1>6, <2>3 DEF Placed
  <2>5. fetched[at[q]] = PkOf[q]
    BY <2>2 DEF PageInv, FetchedIsOwn, Loaded
  <2> QED BY <2>2, <2>4, <2>5
<1>11. (HandedIsOwn /\ NeverWrongPage /\ TaskHasReader)'
  BY <1>2 DEF PageInv, HandedIsOwn, NeverWrongPage, TaskHasReader
<1>12. FieldsHaveRows'
  BY <1>2, <1>5 DEF PageInv, FieldsHaveRows, Loaded
<1>13. stash' \in Groups \cup {NoGroup}
  BY <1>7 DEF PageInv
<1> QED BY <1>2, <1>4, <1>6, <1>8, <1>9, <1>10, <1>11, <1>12, <1>13 DEF PageInv

\* A step of fields and the task that keeps rows where they are.
LEMMA FieldStepKeepsPageInv ==
  ASSUME PageInv, UNCHANGED <<at, stash>>,
         reader' \in Groups \cup {NoGroup},
         fetched' \in [Addresses -> Keys \cup {NoPage}],
         handed' \in [Parents -> Keys \cup {NoPage}],
         answer' \in [Parents -> Keys \cup {Unanswered, Failed}],
         pc' \in [Parents -> {"start", "waiting", "resolving", "reading", "end"}],
         \A p \in Parents : pc'[p] \notin {"start", "end"} => Loaded(p),
         (GroupsAreLoaded /\ FetchedIsOwn /\ FetchedIsOccupied)',
         (HandedIsOwn /\ TaskHasReader /\ NeverWrongPage)'
  PROVE  PageInv'
<1>1. Placed(at') /\ at' \in [Parents -> Addresses \cup {Nowhere}]
  BY DEF PageInv
<1>2. FieldsHaveRows'
  BY DEF FieldsHaveRows, Loaded
<1> QED BY <1>1, <1>2 DEF PageInv

\* The steps of a field keep the invariant.
LEMMA FieldKeepsPageInv ==
  ASSUME PageInv, NEW p \in Parents, Field(p)
  PROVE  PageInv'
<1> USE DEF PageInv
<1>1. UNCHANGED <<at, stash>> /\ Loaded(p) /\ at[p] \in Addresses /\ PkOf[p] \in Keys
  <2>1. UNCHANGED <<at, stash>>
    BY DEF Field, RunPlain, Bail, StartRead, StartFails, JoinRead, UsePages, Resume,
           ResumeFails, TakePage, ReadAlone
  <2>2. Loaded(p)
    BY DEF Field, RunPlain, Bail, StartRead, StartFails, JoinRead, UsePages, Resume,
           ResumeFails, TakePage, ReadAlone, Leads, Starts, FieldsHaveRows
  <2> QED BY <2>1, <2>2 DEF Loaded, Keys
<1>2. ASSUME UNCHANGED <<reader, fetched, task, handed, answer>>,
             \E place \in {"waiting", "reading"} : Goto(p, place)
      PROVE  PageInv'
  <2>1. /\ pc' \in [Parents -> {"start", "waiting", "resolving", "reading", "end"}]
        /\ \A q \in Parents : pc'[q] \notin {"start", "end"} => Loaded(q)
    BY <1>1, <1>2 DEF Goto, FieldsHaveRows
  <2>2. /\ (GroupsAreLoaded /\ FetchedIsOwn /\ FetchedIsOccupied)'
        /\ (HandedIsOwn /\ TaskHasReader /\ NeverWrongPage)'
    BY <1>1, <1>2 DEF GroupsAreLoaded, FetchedIsOwn, FetchedIsOccupied, Kept, HandedIsOwn,
                      TaskHasReader, NeverWrongPage, Loaded
  <2> QED BY <1>1, <1>2, <2>1, <2>2, FieldStepKeepsPageInv
<1>3. ASSUME UNCHANGED <<reader, fetched, task, handed>>,
             \E v \in {PkOf[p], Failed} : Answer(p, v)
      PROVE  PageInv'
  <2>1. /\ pc' \in [Parents -> {"start", "waiting", "resolving", "reading", "end"}]
        /\ \A q \in Parents : pc'[q] \notin {"start", "end"} => Loaded(q)
    BY <1>1, <1>3 DEF Goto, Answer, FieldsHaveRows
  <2>2. /\ answer' \in [Parents -> Keys \cup {Unanswered, Failed}]
        /\ NeverWrongPage'
    BY <1>1, <1>3 DEF Answer, NeverWrongPage
  <2>3. /\ (GroupsAreLoaded /\ FetchedIsOwn /\ FetchedIsOccupied)'
        /\ (HandedIsOwn /\ TaskHasReader)'
    BY <1>1, <1>3 DEF GroupsAreLoaded, FetchedIsOwn, FetchedIsOccupied, Kept, HandedIsOwn,
                      TaskHasReader, Loaded
  <2> QED BY <1>1, <1>3, <2>1, <2>2, <2>3, FieldStepKeepsPageInv
<1>4. ASSUME UNCHANGED <<reader, fetched, answer>>, task' \in {task, "done"},
             handed' = [handed EXCEPT ![p] = fetched[at[p]]], Goto(p, "resolving")
      PROVE  PageInv'
  <2>1. /\ pc' \in [Parents -> {"start", "waiting", "resolving", "reading", "end"}]
        /\ \A q \in Parents : pc'[q] \notin {"start", "end"} => Loaded(q)
    BY <1>1, <1>4 DEF Goto, FieldsHaveRows
  <2>2. /\ handed' \in [Parents -> Keys \cup {NoPage}]
        /\ HandedIsOwn'
    BY <1>1, <1>4 DEF HandedIsOwn, FetchedIsOwn
  <2>3. /\ (GroupsAreLoaded /\ FetchedIsOwn /\ FetchedIsOccupied)'
        /\ (TaskHasReader /\ NeverWrongPage)'
    BY <1>1, <1>4 DEF GroupsAreLoaded, FetchedIsOwn, FetchedIsOccupied, Kept,
                      TaskHasReader, NeverWrongPage, Loaded
  <2> QED BY <1>1, <1>4, <2>1, <2>2, <2>3, FieldStepKeepsPageInv
<1>5. CASE RunPlain(p) \/ Bail(p) \/ JoinRead(p)
  BY <1>2, <1>5 DEF RunPlain, Bail, JoinRead
<1>6. CASE StartRead(p)
  <2>1. /\ stash \in Groups /\ stash # NoGroup /\ stash \in Retained
        /\ \A q \in Members(stash) : Loaded(q)
    BY <1>6 DEF StartRead, Leads, Siblings, GroupsAreLoaded
  <2>2. reader' = stash /\ UNCHANGED answer
    BY <1>6 DEF StartRead
  <2>3. GroupsAreLoaded' /\ NeverWrongPage'
    BY <1>1, <2>1, <2>2 DEF GroupsAreLoaded, NeverWrongPage, Loaded
  <2>4. CASE async
    <3>1. task' = "rows" /\ Goto(p, "waiting") /\ UNCHANGED <<fetched, handed>>
      BY <1>6, <2>4 DEF StartRead
    <3>2. /\ pc' \in [Parents -> {"start", "waiting", "resolving", "reading", "end"}]
          /\ \A q \in Parents : pc'[q] \notin {"start", "end"} => Loaded(q)
      BY <1>1, <3>1 DEF Goto, FieldsHaveRows
    <3>3. (FetchedIsOwn /\ FetchedIsOccupied /\ HandedIsOwn /\ TaskHasReader)'
      BY <1>1, <2>1, <2>2, <3>1
         DEF FetchedIsOwn, FetchedIsOccupied, Kept, HandedIsOwn, TaskHasReader, Loaded
    <3> QED BY <1>1, <2>1, <2>2, <2>3, <3>1, <3>2, <3>3, FieldStepKeepsPageInv
  <2>5. CASE ~async
    <3>1. /\ task' = "done" /\ fetched' = PagesOf(stash) /\ Goto(p, "resolving")
          /\ handed' = [handed EXCEPT ![p] = PagesOf(stash)[at[p]]]
      BY <1>6, <2>5 DEF StartRead
    <3>2. /\ pc' \in [Parents -> {"start", "waiting", "resolving", "reading", "end"}]
          /\ \A q \in Parents : pc'[q] \notin {"start", "end"} => Loaded(q)
      BY <1>1, <3>1 DEF Goto, FieldsHaveRows
    <3>3. /\ PagesOf(stash) \in [Addresses -> Keys \cup {NoPage}]
          /\ \A q \in Parents : Loaded(q) => PagesOf(stash)[at[q]] \in {NoPage, PkOf[q]}
          /\ \A a \in Addresses :
               PagesOf(stash)[a] # NoPage => Kept(a)
      BY <2>1, PagesOfIsOwn
    <3>4. handed' \in [Parents -> Keys \cup {NoPage}] /\ HandedIsOwn'
      BY <1>1, <3>1, <3>3 DEF HandedIsOwn
    <3>5. (FetchedIsOwn /\ FetchedIsOccupied /\ TaskHasReader)'
      BY <1>1, <3>1, <3>3 DEF FetchedIsOwn, FetchedIsOccupied, Kept, TaskHasReader, Loaded
    <3> QED BY <1>1, <2>1, <2>2, <2>3, <3>1, <3>2, <3>3, <3>4, <3>5,
               FieldStepKeepsPageInv
  <2> QED BY <2>4, <2>5
<1>7. CASE StartFails(p) \/ ResumeFails(p) \/ ReadAlone(p)
  BY <1>3, <1>7 DEF StartFails, ResumeFails, ReadAlone
<1>8. CASE UsePages(p) \/ Resume(p)
  BY <1>4, <1>8 DEF UsePages, Resume
<1>9. CASE TakePage(p)
  <2>1. /\ UNCHANGED <<reader, fetched, task>>
        /\ handed' = [handed EXCEPT ![p] = NoPage]
    BY <1>9 DEF TakePage
  <2>2. handed' \in [Parents -> Keys \cup {NoPage}] /\ HandedIsOwn'
    BY <2>1 DEF HandedIsOwn
  <2>3. /\ \E place \in {"reading", "end"} : Goto(p, place)
        /\ answer' \in {answer, [answer EXCEPT ![p] = PkOf[p]]}
    BY <1>9 DEF TakePage, HandedIsOwn, Answer
  <2>4. /\ pc' \in [Parents -> {"start", "waiting", "resolving", "reading", "end"}]
        /\ \A q \in Parents : pc'[q] \notin {"start", "end"} => Loaded(q)
    BY <1>1, <2>3 DEF Goto, FieldsHaveRows
  <2>5. answer' \in [Parents -> Keys \cup {Unanswered, Failed}] /\ NeverWrongPage'
    BY <1>1, <2>3 DEF NeverWrongPage
  <2>6. (GroupsAreLoaded /\ FetchedIsOwn /\ FetchedIsOccupied /\ TaskHasReader)'
    BY <1>1, <2>1 DEF GroupsAreLoaded, FetchedIsOwn, FetchedIsOccupied, Kept, TaskHasReader,
                      Loaded
  <2> QED BY <1>1, <2>1, <2>2, <2>4, <2>5, <2>6, FieldStepKeepsPageInv
<1> QED BY <1>5, <1>6, <1>7, <1>8, <1>9 DEF Field

\* The steps of the shared read keep the invariant.
LEMMA TaskKeepsPageInv ==
  ASSUME PageInv, Task
  PROVE  PageInv'
<1> USE DEF PageInv
<1>1. UNCHANGED <<at, stash, reader, pc, handed, answer>>
  BY DEF Task, RowsArrive, TotalsArrive, ReadFails
<1>2. (GroupsAreLoaded /\ HandedIsOwn /\ NeverWrongPage)'
  BY <1>1 DEF GroupsAreLoaded, HandedIsOwn, NeverWrongPage, Loaded
<1>3. TaskHasReader'
  BY <1>1 DEF TaskHasReader, Task, RowsArrive, TotalsArrive, ReadFails
<1>4. CASE TotalsArrive
  <2>1. fetched' = PagesOf(reader)
    BY <1>4 DEF TotalsArrive
  <2>2. /\ reader \in Groups /\ reader \in Retained
        /\ \A p \in Members(reader) : Loaded(p)
    BY <1>4 DEF TotalsArrive, TaskHasReader, GroupsAreLoaded
  <2>3. /\ PagesOf(reader) \in [Addresses -> Keys \cup {NoPage}]
        /\ \A p \in Parents : Loaded(p) => PagesOf(reader)[at[p]] \in {NoPage, PkOf[p]}
        /\ \A a \in Addresses :
             PagesOf(reader)[a] # NoPage => Kept(a)
    BY <2>2, PagesOfIsOwn
  <2>4. (FetchedIsOwn /\ FetchedIsOccupied)'
    BY <1>1, <2>1, <2>3 DEF FetchedIsOwn, FetchedIsOccupied, Kept, Loaded
  <2> QED BY <1>1, <1>2, <1>3, <2>1, <2>3, <2>4, FieldStepKeepsPageInv DEF FieldsHaveRows
<1>5. CASE RowsArrive \/ ReadFails
  <2>1. UNCHANGED fetched
    BY <1>5 DEF RowsArrive, ReadFails
  <2>2. (FetchedIsOwn /\ FetchedIsOccupied)'
    BY <1>1, <2>1 DEF FetchedIsOwn, FetchedIsOccupied, Kept, Loaded
  <2> QED BY <1>1, <1>2, <1>3, <2>1, <2>2, FieldStepKeepsPageInv DEF FieldsHaveRows
<1> QED BY <1>4, <1>5 DEF Task

\* Only groups that no page was read for lose their rows.
LEMMA ReleaseGroupKeepsPageInv ==
  ASSUME PageInv, NEW g \in Groups, ReleaseGroup(g)
  PROVE  PageInv'
<1>1. /\ g \notin Retained /\ \A p \in Members(g) : pc[p] = "end"
      /\ UNCHANGED <<stash, task, fetched, reader, pc, handed, answer>>
      /\ at' = [p \in Parents |-> IF p \in Members(g) THEN Nowhere ELSE at[p]]
  BY DEF ReleaseGroup, Release
<1>2. /\ \A p \in Parents : GroupOf[p] \in Retained => at'[p] = at[p]
      /\ \A p \in Parents : at'[p] # Nowhere => at'[p] = at[p]
      /\ \A p \in Parents : pc[p] # "end" => at'[p] = at[p]
      /\ at' \in [Parents -> Addresses \cup {Nowhere}]
  BY <1>1 DEF PageInv, Members
<1>3. Placed(at')
  BY <1>2 DEF PageInv, Placed
<1>4. GroupsAreLoaded' /\ FieldsHaveRows'
  BY <1>1, <1>2 DEF PageInv, GroupsAreLoaded, FieldsHaveRows, Members, Loaded
<1>5. FetchedIsOccupied' /\ FetchedIsOwn'
  BY <1>1, <1>2 DEF PageInv, FetchedIsOccupied, FetchedIsOwn, Kept, Loaded
<1>6. (HandedIsOwn /\ NeverWrongPage /\ TaskHasReader)'
  BY <1>1 DEF PageInv, HandedIsOwn, NeverWrongPage, TaskHasReader
<1> QED BY <1>1, <1>2, <1>3, <1>4, <1>5, <1>6 DEF PageInv

\* Every step keeps the invariant, as long as no batched row is released.
LEMMA NextPageInv ==
  ASSUME BatchedRowsAreKept, PageInv, [Next]_vars
  PROVE  PageInv'
<1>1. CASE \E g \in Groups : LoadGroup(g)
  BY <1>1, LoadGroupKeepsPageInv
<1>2. CASE \E g \in Groups : ReleaseGroup(g)
  BY <1>2, ReleaseGroupKeepsPageInv
<1>3. CASE \E p \in Parents : Field(p)
  BY <1>3, FieldKeepsPageInv
<1>4. CASE Task
  BY <1>4, TaskKeepsPageInv
<1>5. CASE UNCHANGED vars
  <2>1. (GroupsAreLoaded /\ FetchedIsOwn /\ FetchedIsOccupied /\ HandedIsOwn
           /\ TaskHasReader /\ NeverWrongPage)'
    BY <1>5 DEF PageInv, vars, GroupsAreLoaded, FetchedIsOwn, FetchedIsOccupied, Kept,
                HandedIsOwn, TaskHasReader, NeverWrongPage, Loaded
  <2> QED BY <1>5, <2>1, FieldStepKeepsPageInv DEF PageInv, FieldsHaveRows, vars
<1> QED BY <1>1, <1>2, <1>3, <1>4, <1>5 DEF Next

\* As long as the rows that are batched keep their addresses, no field is given the
\* page of another parent, whichever group the shared read was started for.
THEOREM PagesAreNeverWrong ==
  ASSUME BatchedRowsAreKept
  PROVE  Spec => []NeverWrongPage
<1>1. PageInv /\ [Next]_vars => PageInv'
  BY NextPageInv
<1>2. PageInv => NeverWrongPage
  BY DEF PageInv
<1> QED BY InitPageInv, <1>1, <1>2, PTL DEF Spec

-----------------------------------------------------------------------------
\* A path without pages has only seen reads that failed before there was a task.
ReadsInv ==
  /\ reads \in Nat /\ faults \in Nat
  /\ OneSharedRead
  /\ pages = "none" => reads <= faults

\* Whatever becomes of the rows, the siblings of a path share one read; a
\* further one needs one that failed.
THEOREM ReadsAreShared == Spec => []OneSharedRead
<1>1. Init => ReadsInv
  BY DEF Init, ReadsInv, OneSharedRead
<1>2. ReadsInv /\ [Next]_vars => ReadsInv'
  <2> SUFFICES ASSUME ReadsInv, [Next]_vars PROVE ReadsInv'
    OBVIOUS
  <2> USE DEF ReadsInv, OneSharedRead
  <2>1. CASE \E g \in Groups : LoadGroup(g) \/ ReleaseGroup(g)
    BY <2>1 DEF LoadGroup, ReleaseGroup
  <2>2. CASE \E p \in Parents : Field(p)
    <3> PICK p \in Parents : Field(p)
      BY <2>2
    <3>1. CASE RunPlain(p) \/ Bail(p) \/ JoinRead(p) \/ UsePages(p) \/ Resume(p)
                 \/ ResumeFails(p) \/ TakePage(p)
      BY <3>1 DEF RunPlain, Bail, JoinRead, UsePages, Resume, ResumeFails, TakePage
    <3>2. CASE StartRead(p)
      BY <3>2 DEF StartRead, Leads, Cached
    <3>3. CASE StartFails(p)
      BY <3>3 DEF StartFails, Leads, Fault
    <3>4. CASE ReadAlone(p)
      BY <3>4 DEF ReadAlone, Fault
    <3> QED BY <3>1, <3>2, <3>3, <3>4 DEF Field
  <2>3. CASE Task
    BY <2>3 DEF Task, RowsArrive, TotalsArrive, ReadFails, Fault
  <2>4. CASE UNCHANGED vars
    BY <2>4 DEF vars
  <2> QED BY <2>1, <2>2, <2>3, <2>4 DEF Next
<1>3. ReadsInv => OneSharedRead
  BY DEF ReadsInv
<1> QED BY <1>1, <1>2, <1>3, PTL DEF Spec
-----------------------------------------------------------------------------
(* A page handed over, or read alone, implements per-parent resolution.   *)

\* A field is answered once, when it ends, and a task that failed is counted.
AnswerInv ==
  /\ faults \in Nat
  /\ \A p \in Parents : pc[p] # "end" => answer[p] = Unanswered
  /\ task = "failed" => faults > 0

LEMMA InitAnswerInv == Init => AnswerInv /\ AsIfAlone!Init
BY DEF Init, AnswerInv, AsIfAlone!Init

\* What a step of a field may do to its answer.
LEMMA FieldAnswers ==
  ASSUME PageInv, AnswerInv, NEW p \in Parents, Field(p)
  PROVE  /\ pc[p] # "end"
         /\ \A q \in Parents : q # p => pc'[q] = pc[q]
         /\ task' = "failed" => task = "failed"
         /\ \/ UNCHANGED <<answer, faults>>
            \/ /\ answer' = [answer EXCEPT ![p] = PkOf[p]] /\ pc'[p] = "end"
               /\ UNCHANGED faults
            \/ /\ answer' = [answer EXCEPT ![p] = Failed] /\ pc'[p] = "end"
               /\ faults' \in {faults, faults + 1} /\ faults' > 0
<1>1. /\ faults \in Nat /\ (task = "failed" => faults > 0)
      /\ pc \in [Parents -> {"start", "waiting", "resolving", "reading", "end"}]
  BY DEF AnswerInv, PageInv
<1>2. CASE RunPlain(p) \/ Bail(p) \/ JoinRead(p) \/ UsePages(p) \/ Resume(p)
  BY <1>1, <1>2 DEF RunPlain, Bail, JoinRead, UsePages, Resume, Leads, Starts, Goto
<1>3. CASE StartRead(p)
  BY <1>1, <1>3 DEF StartRead, Leads, Starts, Goto
<1>4. CASE StartFails(p)
  BY <1>1, <1>4 DEF StartFails, Leads, Starts, Fault, Answer, Goto
<1>5. CASE ResumeFails(p)
  BY <1>1, <1>5 DEF ResumeFails, Answer, Goto
<1>6. CASE TakePage(p)
  <2>1. handed[p] \in {NoPage, PkOf[p]}
    BY DEF PageInv, HandedIsOwn
  <2> QED BY <1>1, <1>6, <2>1 DEF TakePage, Answer, Goto
<1>7. CASE ReadAlone(p)
  BY <1>1, <1>7 DEF ReadAlone, Fault, Answer, Goto
<1> QED BY <1>2, <1>3, <1>4, <1>5, <1>6, <1>7 DEF Field

\* A field answers its own page, or fails after a read has failed.
LEMMA FieldImplements ==
  ASSUME PageInv, AnswerInv, NEW p \in Parents, Field(p)
  PROVE  /\ AnswerInv'
         /\ AsIfAlone!Next \/ UNCHANGED <<answer, faults>>
<1>1. /\ pc[p] # "end"
      /\ \A q \in Parents : q # p => pc'[q] = pc[q]
      /\ task' = "failed" => task = "failed"
      /\ \/ UNCHANGED <<answer, faults>>
         \/ /\ answer' = [answer EXCEPT ![p] = PkOf[p]] /\ pc'[p] = "end"
            /\ UNCHANGED faults
         \/ /\ answer' = [answer EXCEPT ![p] = Failed] /\ pc'[p] = "end"
            /\ faults' \in {faults, faults + 1} /\ faults' > 0
  BY FieldAnswers
<1>2. /\ answer \in [Parents -> Keys \cup {Unanswered, Failed}]
      /\ faults \in Nat /\ (task = "failed" => faults > 0)
      /\ \A q \in Parents : pc[q] # "end" => answer[q] = Unanswered
  BY DEF PageInv, AnswerInv
<1>3. AnswerInv'
  <2>1. faults' \in Nat /\ (task' = "failed" => faults' > 0)
    BY <1>1, <1>2
  <2>2. \A q \in Parents : q # p => answer'[q] = answer[q]
    BY <1>1, <1>2
  <2>3. \A q \in Parents : pc'[q] # "end" => answer'[q] = Unanswered
    BY <1>1, <1>2, <2>2
  <2> QED BY <2>1, <2>3 DEF AnswerInv
<1>4. answer[p] = Unanswered
  BY <1>1, <1>2
<1>5. CASE UNCHANGED <<answer, faults>>
  BY <1>3, <1>5
<1>6. CASE answer' = [answer EXCEPT ![p] = PkOf[p]] /\ UNCHANGED faults
  <2>1. AsIfAlone!Resolve(p)
    BY <1>4, <1>6 DEF AsIfAlone!Resolve
  <2> QED BY <1>3, <2>1 DEF AsIfAlone!Next
<1>7. CASE /\ answer' = [answer EXCEPT ![p] = Failed]
           /\ faults' \in {faults, faults + 1} /\ faults' > 0
  <2>1. AsIfAlone!Fail(p)
    BY <1>4, <1>7 DEF AsIfAlone!Fail
  <2> QED BY <1>3, <2>1 DEF AsIfAlone!Next
<1> QED BY <1>1, <1>5, <1>6, <1>7

\* Rows come and go, and the task goes on or fails: no field is answered.
LEMMA OthersImplement ==
  ASSUME AnswerInv, Task \/ UNCHANGED vars \/ \E g \in Groups : LoadGroup(g) \/ ReleaseGroup(g)
  PROVE  /\ AnswerInv'
         /\ AsIfAlone!Next \/ UNCHANGED <<answer, faults>>
<1>1. CASE UNCHANGED <<answer, faults, pc>> /\ (task' = "failed" => task = "failed")
  BY <1>1 DEF AnswerInv
<1>2. CASE ReadFails
  <2>1. UNCHANGED <<answer, pc>> /\ faults' = faults + 1 /\ faults \in Nat
    BY <1>2 DEF ReadFails, Fault, AnswerInv
  <2>2. AnswerInv'
    BY <2>1 DEF AnswerInv
  <2>3. AsIfAlone!StatementFails
    BY <2>1 DEF AsIfAlone!StatementFails
  <2> QED BY <2>2, <2>3 DEF AsIfAlone!Next
<1>3. CASE RowsArrive \/ TotalsArrive
  <2>1. UNCHANGED <<answer, faults, pc>> /\ task' # "failed"
    BY <1>3 DEF RowsArrive, TotalsArrive
  <2> QED BY <1>1, <2>1
<1>4. CASE UNCHANGED vars \/ \E g \in Groups : LoadGroup(g) \/ ReleaseGroup(g)
  <2>1. UNCHANGED <<answer, faults, pc, task>>
    BY <1>4 DEF vars, LoadGroup, ReleaseGroup
  <2> QED BY <1>1, <2>1
<1> QED BY <1>2, <1>3, <1>4 DEF Task

\* From a page of the shared read, alone, or by a failure, every field is answered
\* as if its parent had been resolved alone, as long as the rows that are
\* batched keep their addresses.
THEOREM ConnectionsImplementPerParent ==
  ASSUME BatchedRowsAreKept
  PROVE  Spec => ResolvesAsIfAlone
<1>1. Init => PageInv /\ AnswerInv /\ AsIfAlone!Init
  BY InitPageInv, InitAnswerInv
<1>2. PageInv /\ AnswerInv /\ [Next]_vars
        => /\ PageInv' /\ AnswerInv'
           /\ [AsIfAlone!Next]_<<[p \in Parents |-> PkOf[p]], answer, faults>>
  <2> SUFFICES ASSUME PageInv, AnswerInv, [Next]_vars
               PROVE  /\ PageInv' /\ AnswerInv'
                      /\ AsIfAlone!Next \/ UNCHANGED <<answer, faults>>
    OBVIOUS
  <2>1. PageInv'
    BY NextPageInv
  <2>2. CASE \E p \in Parents : Field(p)
    BY <2>1, <2>2, FieldImplements
  <2>3. CASE ~ \E p \in Parents : Field(p)
    <3>1. Task \/ UNCHANGED vars \/ \E g \in Groups : LoadGroup(g) \/ ReleaseGroup(g)
      BY <2>3 DEF Next
    <3> QED BY <2>1, <3>1, OthersImplement
  <2> QED BY <2>2, <2>3
<1> QED BY <1>1, <1>2, PTL DEF Spec, ResolvesAsIfAlone, AsIfAlone!Spec

-----------------------------------------------------------------------------
(* Types, whatever becomes of the rows.                                   *)

TypeInv == TypeOK /\ FieldsHaveRows

LEMMA PagesTyped ==
  ASSUME NEW g
  PROVE  PagesOf(g) \in [Addresses -> Keys \cup {NoPage}]
<1> DEFINE first(a) == CHOOSE p \in Members(g) : at[p] = a
<1>1. \A a \in Addresses : (\E p \in Members(g) : at[p] = a) => first(a) \in Members(g)
  OBVIOUS
<1> HIDE DEF first
<1>2. PagesOf(g) = [a \in Addresses |-> IF \E p \in Members(g) : at[p] = a
                                          THEN PkOf[first(a)] ELSE NoPage]
  BY DEF PagesOf, first
<1>3. \A p \in Members(g) : PkOf[p] \in Keys
  BY DEF Members, Keys
<1> QED BY <1>1, <1>2, <1>3

LEMMA FieldKeepsTypes ==
  ASSUME TypeInv, NEW p \in Parents, Field(p)
  PROVE  TypeInv'
<1> USE DEF TypeInv, TypeOK
<1>1. /\ UNCHANGED <<at, stash, async, windowable>> /\ Loaded(p)
      /\ at[p] \in Addresses /\ PkOf[p] \in Keys
  <2>1. UNCHANGED <<at, stash, async, windowable>>
    BY DEF Field, RunPlain, Bail, StartRead, StartFails, JoinRead, UsePages, Resume,
           ResumeFails, TakePage, ReadAlone
  <2>2. Loaded(p)
    BY DEF Field, RunPlain, Bail, StartRead, StartFails, JoinRead, UsePages, Resume,
           ResumeFails, TakePage, ReadAlone, Leads, Starts, FieldsHaveRows
  <2> QED BY <2>1, <2>2 DEF RowsTypeOK, Loaded, Keys
<1>2. RowsTypeOK' /\ async' \in Modes /\ windowable' \in [Groups -> BOOLEAN]
  BY <1>1 DEF RowsTypeOK
<1>3. \E place \in {"waiting", "resolving", "reading", "end"} : Goto(p, place)
  BY DEF Field, RunPlain, Bail, StartRead, StartFails, JoinRead, UsePages, Resume,
         ResumeFails, TakePage, ReadAlone, Answer
<1>4. /\ pc' \in [Parents -> {"start", "waiting", "resolving", "reading", "end"}]
      /\ FieldsHaveRows'
  BY <1>1, <1>3 DEF Goto, FieldsHaveRows, Loaded
<1>5. PagesOf(stash) \in [Addresses -> Keys \cup {NoPage}]
  BY PagesTyped
<1>6. /\ pages' \in {"none", "unbatchable", "task", "dict"}
      /\ task' \in {"none", "rows", "totals", "done", "failed"}
      /\ fetched' \in [Addresses -> Keys \cup {NoPage}]
      /\ reader' \in Groups \cup {NoGroup}
      /\ handed' \in [Parents -> Keys \cup {NoPage}]
      /\ answer' \in [Parents -> Keys \cup {Unanswered, Failed}]
      /\ reads' \in Nat
      /\ faults' \in 0..MaxFaults
  <2>1. CASE RunPlain(p) \/ Bail(p) \/ JoinRead(p)
    BY <2>1 DEF RunPlain, Bail, JoinRead
  <2>2. CASE StartRead(p)
    BY <1>1, <1>5, <2>2 DEF StartRead, Leads, Siblings, RowsTypeOK, Cached
  <2>3. CASE StartFails(p) \/ ResumeFails(p) \/ ReadAlone(p)
    BY <1>1, <2>3, ConnectionAssumption
       DEF StartFails, ResumeFails, ReadAlone, Fault, Answer
  <2>4. CASE UsePages(p) \/ Resume(p)
    BY <1>1, <2>4 DEF UsePages, Resume
  <2>5. CASE TakePage(p)
    BY <1>1, <2>5 DEF TakePage, Answer
  <2> QED BY <2>1, <2>2, <2>3, <2>4, <2>5 DEF Field
<1> QED BY <1>2, <1>4, <1>6

\* Every variable has its type, whichever rows are released: an address is never
\* looked up for a row that has gone.
THEOREM ConnectionsAreTyped == Spec => []TypeOK
<1>1. Init => TypeInv
  BY ConnectionAssumption
     DEF Init, TypeInv, TypeOK, RowsInit, RowsTypeOK, FieldsHaveRows
<1>2. TypeInv /\ [Next]_vars => TypeInv'
  <2> SUFFICES ASSUME TypeInv, [Next]_vars PROVE TypeInv'
    OBVIOUS
  <2>1. CASE \E p \in Parents : Field(p)
    BY <2>1, FieldKeepsTypes
  <2>2. CASE \E g \in Groups : LoadGroup(g) \/ ReleaseGroup(g)
    <3> PICK g \in Groups : LoadGroup(g) \/ ReleaseGroup(g)
      BY <2>2
    <3>1. UNCHANGED <<async, windowable, pages, task, fetched, reader, pc, handed, answer,
                      reads, faults>>
      BY DEF LoadGroup, ReleaseGroup
    <3>2. RowsTypeOK' /\ FieldsHaveRows'
      <4>1. CASE LoadGroup(g)
        <5>1. PICK a \in [Members(g) -> Addresses] :
                at' = [p \in Parents |-> IF p \in Members(g) THEN a[p] ELSE at[p]]
          BY <4>1 DEF LoadGroup, Load
        <5>2. stash' \in Groups \cup {NoGroup}
          BY <4>1 DEF LoadGroup, Load, Stashed, TypeInv, TypeOK, RowsTypeOK
        <5>3. at' \in [Parents -> Addresses \cup {Nowhere}]
          BY <5>1 DEF TypeInv, TypeOK, RowsTypeOK
        <5>4. \A p \in Parents : Loaded(p) => at'[p] # Nowhere
          BY <5>1, ParentsAssumption DEF Loaded
        <5> QED BY <3>1, <5>2, <5>3, <5>4
                DEF RowsTypeOK, FieldsHaveRows, Loaded, TypeInv
      <4>2. CASE ReleaseGroup(g)
        BY <3>1, <4>2 DEF ReleaseGroup, Release, RowsTypeOK, FieldsHaveRows, Loaded, TypeInv,
                          TypeOK
      <4> QED BY <4>1, <4>2
    <3> QED BY <3>1, <3>2 DEF TypeInv, TypeOK
  <2>3. CASE Task
    <3>1. PagesOf(reader) \in [Addresses -> Keys \cup {NoPage}]
      BY PagesTyped
    <3>2. UNCHANGED <<at, stash, async, windowable, pages, reader, pc, handed, answer, reads>>
      BY <2>3 DEF Task, RowsArrive, TotalsArrive, ReadFails
    <3>3. /\ task' \in {"none", "rows", "totals", "done", "failed"}
          /\ fetched' \in [Addresses -> Keys \cup {NoPage}]
          /\ faults' \in 0..MaxFaults
      BY <2>3, <3>1, ConnectionAssumption
         DEF Task, RowsArrive, TotalsArrive, ReadFails, Fault, TypeInv, TypeOK
    <3> QED BY <3>2, <3>3 DEF TypeInv, TypeOK, RowsTypeOK, FieldsHaveRows, Loaded
  <2>4. CASE UNCHANGED vars
    BY <2>4 DEF vars, TypeInv, TypeOK, RowsTypeOK, FieldsHaveRows, Loaded
  <2> QED BY <2>1, <2>2, <2>3, <2>4 DEF Next
<1>3. TypeInv => TypeOK
  BY DEF TypeInv
<1> QED BY <1>1, <1>2, <1>3, PTL DEF Spec
=============================================================================
