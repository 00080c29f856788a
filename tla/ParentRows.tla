----------------------------- MODULE ParentRows -----------------------------
(***************************************************************************)
(* The parent rows below which one relation field is resolved, and what    *)
(* the batching extensions of batching.py know of them.                    *)
(*                                                                         *)
(* A field path of an operation is reached once per group of parents: the  *)
(* posts of each user are a group of users.posts.comments.  The optimizer  *)
(* stashes each group it produces, the latest one only, and the extensions *)
(* know a row by its address, id(row).                                     *)
(***************************************************************************)
EXTENDS Integers, FiniteSets

CONSTANTS
  Parents,     \* the places of the response where a parent row is read
  Groups,
  GroupOf,     \* the list each of them is an item of
  PkOf,        \* the primary key of the row that is read there
  Addresses,   \* where rows can be kept in memory
  Retained     \* the groups whose rows outlive them, in their own parent or in
               \* the batch that read them

Nowhere == "nowhere"
NoGroup == "no group"

ASSUME ParentsAssumption ==
  /\ GroupOf \in [Parents -> Groups]
  /\ DOMAIN PkOf = Parents
  /\ Nowhere \notin Addresses /\ NoGroup \notin Groups
  /\ IsFiniteSet(Parents)
  /\ Retained \subseteq Groups

VARIABLES
  at,      \* id(row) of each parent row that is in memory
  stash    \* the group last recorded by stash_parents

rowVars == <<at, stash>>

Members(g) == {p \in Parents : GroupOf[p] = g}

Loaded(p) == at[p] # Nowhere

\* The rows a place reads; the same row may be read at several places.
SameRow(p, q) == Loaded(p) /\ at[p] = at[q]

RowsTypeOK ==
  /\ at \in [Parents -> Addresses \cup {Nowhere}]
  /\ stash \in Groups \cup {NoGroup}

RowsInit ==
  /\ at = [p \in Parents |-> Nowhere]
  /\ stash = NoGroup

\* Two rows in memory have different addresses; one row may be read twice.
Placed(a) ==
  \A p, q \in Parents : a[p] # Nowhere /\ a[p] = a[q] => PkOf[p] = PkOf[q]

\* stash_parents records a list of at least two rows.
Several(g) == Cardinality(Members(g)) >= 2

Stashed(g) == IF Several(g) THEN g ELSE stash

\* Something keeps the rows that may be batched until the operation ends.
BatchedRowsAreKept == \A g \in Groups : Several(g) => g \in Retained

\* The parent field returns a group of rows, and its item fields can start.
Load(g) ==
  /\ Members(g) # {}
  /\ \E a \in [Members(g) -> Addresses] :
       at' = [p \in Parents |-> IF p \in Members(g) THEN a[p] ELSE at[p]]
  /\ Placed(at')
  /\ stash' = Stashed(g)

\* Nothing refers to the rows of a group any more: the interpreter frees them.
Release(g) ==
  /\ g \notin Retained
  /\ stash # g
  /\ at' = [p \in Parents |-> IF p \in Members(g) THEN Nowhere ELSE at[p]]
  /\ UNCHANGED stash

\* _siblings: the stashed rows, if this row is one of them.
Siblings(p) ==
  IF stash # NoGroup /\ \E q \in Members(stash) : SameRow(p, q)
    THEN Members(stash)
    ELSE {}
=============================================================================
