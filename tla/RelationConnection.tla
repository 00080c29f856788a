------------------------- MODULE RelationConnection -------------------------
(***************************************************************************)
(* RelationConnectionExtension (batching.py): one windowed read, and one   *)
(* grouped count, answer the page of every sibling parent.                 *)
(*                                                                         *)
(* On an asynchronous backend the siblings reach resolve() before any      *)
(* page exists.  The first starts a task that reads for all of them; the   *)
(* others, and the parents of later groups, await that task.               *)
(***************************************************************************)
EXTENDS ParentRows

CONSTANTS
  Modes,       \* whether the backend may answer asynchronously, or not
  MaxFaults,   \* bound: reads that fail
  NoPage, Unanswered, Failed

Keys == {PkOf[p] : p \in Parents}

ASSUME ConnectionAssumption ==
  /\ Modes \subseteq BOOLEAN /\ MaxFaults \in Nat
  /\ NoPage \notin Keys /\ Unanswered \notin Keys /\ Failed \notin Keys
  /\ Unanswered # Failed

VARIABLES
  async,       \* whether the backend answers asynchronously
  windowable,  \* whether the siblings of each group can be read at once
  pages,       \* what pages[key] is
  task,        \* the stage of the shared read
  fetched,     \* what the shared read found, by the address of the parent
  reader,      \* the group it reads for
  pc,          \* where each field is
  handed,      \* the page left on the row for each place
  answer,      \* the parent whose page each field answered
  reads,       \* history: shared reads started
  faults       \* reads that failed

vars == <<at, stash, async, windowable, pages, task, fetched, reader, pc, handed, answer,
          reads, faults>>

TypeOK ==
  /\ RowsTypeOK
  /\ async \in Modes
  /\ windowable \in [Groups -> BOOLEAN]
  /\ pages \in {"none", "unbatchable", "task", "dict"}
  /\ task \in {"none", "rows", "totals", "done", "failed"}
  /\ fetched \in [Addresses -> Keys \cup {NoPage}]
  /\ reader \in Groups \cup {NoGroup}
  /\ pc \in [Parents -> {"start", "waiting", "resolving", "reading", "end"}]
  /\ handed \in [Parents -> Keys \cup {NoPage}]
  /\ answer \in [Parents -> Keys \cup {Unanswered, Failed}]
  /\ reads \in Nat
  /\ faults \in 0..MaxFaults

Init ==
  /\ RowsInit
  /\ async \in Modes
  /\ windowable \in {w \in [Groups -> BOOLEAN] : \A g \in Groups : w[g] => Several(g)}
  /\ pages = "none"
  /\ task = "none"
  /\ fetched = [a \in Addresses |-> NoPage]
  /\ reader = NoGroup
  /\ pc = [p \in Parents |-> "start"]
  /\ handed = [p \in Parents |-> NoPage]
  /\ answer = [p \in Parents |-> Unanswered]
  /\ reads = 0
  /\ faults = 0

-----------------------------------------------------------------------------
Goto(p, place) == pc' = [pc EXCEPT ![p] = place]

Answer(p, page) ==
  /\ answer' = [answer EXCEPT ![p] = page]
  /\ Goto(p, "end")

\* Where a field starts.
Starts(p) == Loaded(p) /\ pc[p] = "start"

Leads(p) == Starts(p) /\ pages = "none" /\ Siblings(p) # {}

Fault == faults < MaxFaults /\ faults' = faults + 1

\* The path bailed, or the row has no siblings: the field runs plain.
RunPlain(p) ==
  /\ Starts(p)
  /\ pages = "unbatchable" \/ (pages = "none" /\ Siblings(p) = {})
  /\ Goto(p, "reading")
  /\ UNCHANGED <<at, stash, async, windowable, pages, task, fetched, reader, handed,
                 answer, reads, faults>>

\* _Bail: no key, no page size, a malformed cursor, one before the first row.
Bail(p) ==
  /\ Leads(p)
  /\ ~windowable[stash]
  /\ pages' = "unbatchable"
  /\ Goto(p, "reading")
  /\ UNCHANGED <<at, stash, async, windowable, task, fetched, reader, handed, answer,
                 reads, faults>>

\* Mutant of PagesOf: every parent is given the page of one of them.
PagesOfOne(g) ==
  [a \in Addresses |-> IF \E p \in Members(g) : at[p] = a
                         THEN PkOf[CHOOSE p \in Members(g) : TRUE] ELSE NoPage]

\* _assemble: the page of each parent, under its address.
PagesOf(g) ==
  [a \in Addresses |-> IF \E p \in Members(g) : at[p] = a
                         THEN PkOf[CHOOSE p \in Members(g) : at[p] = a] ELSE NoPage]

\* Mutant of Cached: the read is not kept as a task that others can await.
CachedNothing == "none"

\* What pages[key] becomes: the read itself, or its result.
Cached == IF async THEN "task" ELSE "dict"

\* The first sibling starts the read; a synchronous backend has finished it.
StartRead(p) ==
  /\ Leads(p)
  /\ windowable[stash]
  /\ reader' = stash
  /\ reads' = reads + 1
  /\ pages' = Cached
  /\ IF async
       THEN /\ task' = "rows" /\ Goto(p, "waiting")
            /\ UNCHANGED <<fetched, handed>>
       ELSE /\ task' = "done" /\ fetched' = PagesOf(stash)
            /\ Goto(p, "resolving")
            /\ handed' = [handed EXCEPT ![p] = PagesOf(stash)[at[p]]]
  /\ UNCHANGED <<at, stash, async, windowable, answer, faults>>

\* Building or reading the pages raises before there is anything to await.
StartFails(p) ==
  /\ Leads(p)
  /\ windowable[stash]
  /\ Fault
  /\ reads' = reads + 1
  /\ Answer(p, Failed)
  /\ UNCHANGED <<at, stash, async, windowable, pages, task, fetched, reader, handed>>

\* A sibling, or a parent of another group, finds the read under way.
JoinRead(p) ==
  /\ Starts(p)
  /\ pages = "task"
  /\ Goto(p, "waiting")
  /\ UNCHANGED <<at, stash, async, windowable, pages, task, fetched, reader, handed,
                 answer, reads, faults>>

\* ... or finds its result.
UsePages(p) ==
  /\ Starts(p)
  /\ pages = "dict"
  /\ handed' = [handed EXCEPT ![p] = fetched[at[p]]]
  /\ Goto(p, "resolving")
  /\ UNCHANGED <<at, stash, async, windowable, pages, task, fetched, reader, answer,
                 reads, faults>>

-----------------------------------------------------------------------------
(* The task that reads.                                                   *)

RowsArrive ==
  /\ task = "rows"
  /\ task' = "totals"
  /\ UNCHANGED <<at, stash, async, windowable, pages, fetched, reader, pc, handed, answer,
                 reads, faults>>

TotalsArrive ==
  /\ task = "totals"
  /\ task' = "done"
  /\ fetched' = PagesOf(reader)
  /\ UNCHANGED <<at, stash, async, windowable, pages, reader, pc, handed, answer, reads,
                 faults>>

ReadFails ==
  /\ task \in {"rows", "totals"}
  /\ Fault
  /\ task' = "failed"
  /\ UNCHANGED <<at, stash, async, windowable, pages, fetched, reader, pc, handed, answer,
                 reads>>

-----------------------------------------------------------------------------
(* A field that awaited the task, and its resolver.                       *)

\* _resolve_async continues: the result replaces the task, the page is left on
\* the row, and the resolver runs.
Resume(p) ==
  /\ pc[p] = "waiting"
  /\ task = "done"
  /\ pages' = "dict"
  /\ handed' = [handed EXCEPT ![p] = fetched[at[p]]]
  /\ Goto(p, "resolving")
  /\ UNCHANGED <<at, stash, async, windowable, task, fetched, reader, answer, reads, faults>>

\* Mutant of ResumeFails: nobody is told that the task failed.
ResumeNever(p) == FALSE /\ UNCHANGED vars

\* The exception of the task is raised in every field that awaits it.
ResumeFails(p) ==
  /\ pc[p] = "waiting"
  /\ task = "failed"
  /\ Answer(p, Failed)
  /\ UNCHANGED <<at, stash, async, windowable, pages, task, fetched, reader, handed, reads,
                 faults>>

\* The resolver takes its page off the row; without one it reads its own.
TakePage(p) ==
  /\ pc[p] = "resolving"
  /\ handed' = [handed EXCEPT ![p] = NoPage]
  /\ IF handed[p] # NoPage THEN Answer(p, handed[p])
                           ELSE Goto(p, "reading") /\ UNCHANGED answer
  /\ UNCHANGED <<at, stash, async, windowable, pages, task, fetched, reader, reads, faults>>

ReadAlone(p) ==
  /\ pc[p] = "reading"
  /\ \/ Answer(p, PkOf[p]) /\ UNCHANGED faults
     \/ Answer(p, Failed) /\ Fault
  /\ UNCHANGED <<at, stash, async, windowable, pages, task, fetched, reader, handed, reads>>

-----------------------------------------------------------------------------
LoadGroup(g) ==
  /\ \A p \in Members(g) : ~Loaded(p) /\ pc[p] = "start"
  /\ Load(g)
  /\ UNCHANGED <<async, windowable, pages, task, fetched, reader, pc, handed, answer, reads,
                 faults>>

\* A read under way holds the parents it reads for.
ReleaseGroup(g) ==
  /\ \E p \in Members(g) : Loaded(p)
  /\ \A p \in Members(g) : pc[p] = "end"
  /\ reader = g => task \notin {"rows", "totals"}
  /\ Release(g)
  /\ UNCHANGED <<async, windowable, pages, task, fetched, reader, pc, handed, answer, reads,
                 faults>>

Field(p) ==
  \/ RunPlain(p) \/ Bail(p)
  \/ StartRead(p) \/ StartFails(p)
  \/ JoinRead(p) \/ UsePages(p)
  \/ Resume(p) \/ ResumeFails(p)
  \/ TakePage(p) \/ ReadAlone(p)

Task == RowsArrive \/ TotalsArrive \/ ReadFails

Next ==
  \/ \E g \in Groups : LoadGroup(g) \/ ReleaseGroup(g)
  \/ \E p \in Parents : Field(p)
  \/ Task

Spec == Init /\ [][Next]_vars

\* The event loop runs every field that can go on, and the database answers.
FairSpec == Spec /\ WF_vars(Task) /\ \A p \in Parents : WF_vars(Field(p))

-----------------------------------------------------------------------------
(* Properties.                                                            *)

\* A field answers the page of its own parent, whoever read it.
NeverWrongPage ==
  \A p \in Parents : answer[p] \in {Unanswered, Failed, PkOf[p]}

\* Siblings share one read for the path: none starts a second one, unless the
\* first failed before there was a task ("the N+1 this exists to collapse").
OneSharedRead == reads <= 1 + faults

\* Every field that starts is answered, though the task it awaits may fail: time
\* and again no field is left open.
FieldsAnswer == []<>(\A p \in Parents : Loaded(p) => pc[p] = "end")

\* Every field is answered as if it were resolved alone.
AsIfAlone == INSTANCE PerParentResolution
               WITH own <- [p \in Parents |-> PkOf[p]]

ResolvesAsIfAlone == AsIfAlone!Spec
=============================================================================
