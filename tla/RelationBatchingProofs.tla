----------------------- MODULE RelationBatchingProofs -----------------------
(***************************************************************************)
(* Proofs about RelationBatching: the rewrite gives each parent the rows   *)
(* of its own query, and as long as rows keep their addresses, so does     *)
(* every field, whatever was batched, cached or abandoned.                 *)
(***************************************************************************)
EXTENDS RelationBatching, FiniteSetTheorems, TLAPS

\* What is left of a batched read for one parent is what its own query reads:
\* the parent's condition is taken out, widened to the keys of all siblings,
\* and applied again by grouping.
LEMMA RewriteIsExact ==
  ASSUME NEW p \in Parents, NEW S, p \in S, Rewritable(p)
  PROVE  Grouped(p, S) = Matching(resolver[p].query)
<1> DEFINE q == resolver[p].query
           hit == ParentCondition(q, PkOf[p])
<1>1. hit \in q.eq /\ hit.val = PkOf[p]
  BY DEF Rewritable, Splits, ParentConditions, ParentCondition
<1>2. SignatureOf(p) = [col |-> hit.col, eq |-> q.eq \ {hit}, rest |-> q.rest]
  BY DEF SignatureOf, Signature
<1>3. PkOf[p] \in KeysOf(SignatureOf(p), S)
  BY DEF KeysOf
<1> HIDE DEF hit
<1>4. Grouped(p, S) =
        {r \in q.rest : /\ \A c \in q.eq \ {hit} : ValueOf[r][c.col] = c.val
                        /\ ValueOf[r][hit.col] = PkOf[p]}
  BY <1>2, <1>3 DEF Grouped, BatchedRows
<1>5. Matching(q) =
        {r \in q.rest : /\ \A c \in q.eq \ {hit} : ValueOf[r][c.col] = c.val
                        /\ ValueOf[r][hit.col] = hit.val}
  BY <1>1 DEF Matching
<1> QED BY <1>1, <1>4, <1>5

-----------------------------------------------------------------------------
(* The inductive invariant.                                               *)

\* Places that read the same row run the same resolver.
SameKeySameResolver ==
  \A p, q \in Parents : PkOf[p] = PkOf[q] => resolver[p] = resolver[q]

\* What is cached for an address belongs to the row that is kept there.
CacheIsOwn ==
  \A p \in Parents :
    Loaded(p) /\ cache[at[p]] # Missing => cache[at[p]] = OwnAnswer(p)

\* A row at this address is kept: no other row can be loaded there.
Kept(a) == \E p \in Parents : GroupOf[p] \in Retained /\ at[p] = a

\* An address with cached rows stays occupied.
CachedIsOccupied == \A a \in Addresses : cache[a] # Missing => Kept(a)

StashIsLoaded ==
  stash # NoGroup => stash \in Retained /\ \A p \in Members(stash) : Loaded(p)

IInv ==
  /\ at \in [Parents -> Addresses \cup {Nowhere}]
  /\ stash \in Groups \cup {NoGroup}
  /\ resolver \in [Parents -> Outcome]
  /\ cache \in [Addresses -> (SUBSET Rows) \cup {Missing}]
  /\ answer \in [Parents -> (SUBSET Rows) \cup {Unanswered, Failed}]
  /\ SameKeySameResolver
  /\ Placed(at)
  /\ StashIsLoaded
  /\ CachedIsOccupied
  /\ CacheIsOwn
  /\ NeverWrongRows

\* The resolver of a place only depends on its row, and nothing is loaded yet.
THEOREM InitIInv == Init => IInv
<1> SUFFICES ASSUME Init PROVE IInv
  OBVIOUS
<1>1. PICK f \in [Keys -> UNION {Outcomes[k] : k \in Keys}] :
        /\ \A k \in Keys : f[k] \in Outcomes[k]
        /\ resolver = [p \in Parents |-> f[PkOf[p]]]
  BY DEF Init
<1>2. \A p \in Parents : PkOf[p] \in Keys
  BY DEF Keys
<1>3. \A p \in Parents : f[PkOf[p]] \in Outcome
  BY <1>1, <1>2, RelationAssumption
<1>4. resolver \in [Parents -> Outcome]
  BY <1>1, <1>3
<1>5. SameKeySameResolver
  BY <1>1 DEF SameKeySameResolver
<1>6. /\ at = [p \in Parents |-> Nowhere]
      /\ stash = NoGroup
      /\ cache = [a \in Addresses |-> Missing]
      /\ answer = [p \in Parents |-> Unanswered]
  BY DEF Init, RowsInit
<1>7. Placed(at) /\ StashIsLoaded
  BY <1>6 DEF Placed, StashIsLoaded
<1>9. CachedIsOccupied /\ CacheIsOwn
  BY <1>6 DEF CachedIsOccupied, CacheIsOwn, Loaded
<1>10. NeverWrongRows
  BY <1>6 DEF NeverWrongRows
<1>8. /\ at \in [Parents -> Addresses \cup {Nowhere}]
      /\ stash \in Groups \cup {NoGroup}
      /\ cache \in [Addresses -> (SUBSET Rows) \cup {Missing}]
      /\ answer \in [Parents -> (SUBSET Rows) \cup {Unanswered, Failed}]
  BY <1>6
<1> QED BY <1>4, <1>5, <1>7, <1>8, <1>9, <1>10 DEF IInv

\* Places with the same key have the same answer of their own.
LEMMA SameKeySameAnswer ==
  ASSUME IInv, NEW p \in Parents, NEW q \in Parents, PkOf[p] = PkOf[q]
  PROVE  OwnAnswer(p) = OwnAnswer(q)
BY DEF IInv, SameKeySameResolver, OwnAnswer

\* What a resolver answers alone is a set of rows, or a failure.
LEMMA OwnAnswerType ==
  ASSUME IInv, NEW p \in Parents
  PROVE  /\ OwnAnswer(p) \in (SUBSET Rows) \cup {Failed}
         /\ resolver[p].kind # "raises" =>
              OwnAnswer(p) = Matching(resolver[p].query) /\ OwnAnswer(p) \in SUBSET Rows
<1>1. resolver[p].query.rest \in SUBSET Rows
  BY DEF IInv, Outcome, Query
<1>2. Matching(resolver[p].query) \in SUBSET Rows
  BY <1>1 DEF Matching
<1> QED BY <1>2 DEF OwnAnswer

\* A field that runs plain answers for itself, or fails.
LEMMA AloneIsOwn ==
  ASSUME IInv, NEW p \in Parents, Alone(p)
  PROVE  /\ answer' \in [Parents -> (SUBSET Rows) \cup {Unanswered, Failed}]
         /\ \A q \in Parents : answer'[q] \in {answer[q], OwnAnswer(q), Failed}
<1>1. \E v \in {OwnAnswer(p), Failed} : answer' = [answer EXCEPT ![p] = v]
  BY DEF Alone
<1>2. OwnAnswer(p) \in (SUBSET Rows) \cup {Failed}
  BY OwnAnswerType
<1>3. answer \in [Parents -> (SUBSET Rows) \cup {Unanswered, Failed}]
  BY DEF IInv
<1> QED BY <1>1, <1>2, <1>3

\* A step that only answers fields, each for itself, keeps the invariant.
LEMMA AnswersKeepIInv ==
  ASSUME IInv, UNCHANGED <<at, stash, resolver, cache>>,
         answer' \in [Parents -> (SUBSET Rows) \cup {Unanswered, Failed}],
         \A q \in Parents : answer'[q] \in {answer[q], OwnAnswer(q), Failed}
  PROVE  IInv'
<1>1. \A q \in Parents : OwnAnswer(q)' = OwnAnswer(q)
  BY DEF OwnAnswer
<1>2. NeverWrongRows'
  BY <1>1 DEF IInv, NeverWrongRows
<1>3. CacheIsOwn'
  BY <1>1 DEF IInv, CacheIsOwn, Loaded
<1>4. (SameKeySameResolver /\ Placed(at) /\ StashIsLoaded /\ CachedIsOccupied)'
  BY DEF IInv, SameKeySameResolver, Placed, StashIsLoaded, CachedIsOccupied, Kept, Loaded
<1> QED BY <1>2, <1>3, <1>4 DEF IInv
-----------------------------------------------------------------------------
(* The steps.                                                             *)

\* A new group gets addresses that no cached rows belong to, unless a row it
\* shares with an earlier group is read again.
LEMMA LoadGroupKeepsIInv ==
  ASSUME BatchedRowsAreKept, IInv, NEW g \in Groups, LoadGroup(g)
  PROVE  IInv'
<1>1. PICK a \in [Members(g) -> Addresses] :
        at' = [p \in Parents |-> IF p \in Members(g) THEN a[p] ELSE at[p]]
  BY DEF LoadGroup, Load
<1>2. UNCHANGED <<resolver, cache, answer>>
  BY DEF LoadGroup
<1>3. /\ at \in [Parents -> Addresses \cup {Nowhere}]
      /\ \A p \in Members(g) : p \in Parents /\ at[p] = Nowhere
  BY DEF IInv, LoadGroup, Members, Loaded
<1>4. at' \in [Parents -> Addresses \cup {Nowhere}]
  BY <1>1, <1>3
<1>5. \A p \in Parents : at[p] # Nowhere => at'[p] = at[p]
  BY <1>1, <1>3
<1>6. Placed(at')
  BY DEF LoadGroup, Load
<1>7. stash' = stash \/ (stash' = g /\ g \in Retained)
  BY DEF LoadGroup, Load, Stashed, BatchedRowsAreKept
<1>8. StashIsLoaded'
  <2>1. \A p \in Members(g) : at'[p] # Nowhere
    BY <1>1, <1>3, ParentsAssumption
  <2>2. \A p \in Members(stash) : stash # NoGroup => at'[p] # Nowhere
    BY <1>5 DEF IInv, StashIsLoaded, Members, Loaded
  <2>3. stash # NoGroup => stash \in Retained
    BY DEF IInv, StashIsLoaded
  <2> QED BY <1>7, <2>1, <2>2, <2>3 DEF StashIsLoaded, Members, Loaded
<1>9. CachedIsOccupied'
  BY <1>2, <1>5, ParentsAssumption DEF IInv, CachedIsOccupied, Kept
<1>10. CacheIsOwn'
  <2> SUFFICES ASSUME NEW p \in Parents, at'[p] # Nowhere, cache[at'[p]] # Missing
               PROVE  cache[at'[p]] = OwnAnswer(p)'
    BY <1>2 DEF CacheIsOwn, Loaded
  <2>1. at'[p] \in Addresses
    BY <1>4
  <2>2. PICK q \in Parents : at[q] = at'[p]
    BY <2>1 DEF IInv, CachedIsOccupied, Kept
  <2>3. at'[q] = at'[p]
    BY <1>5, <2>2
  <2>4. PkOf[p] = PkOf[q]
    BY <1>6, <2>3 DEF Placed
  <2>5. OwnAnswer(p) = OwnAnswer(q)
    BY <2>4, SameKeySameAnswer
  <2>6. cache[at[q]] = OwnAnswer(q)
    BY <2>2 DEF IInv, CacheIsOwn, Loaded
  <2>7. OwnAnswer(p)' = OwnAnswer(p)
    BY <1>2 DEF OwnAnswer
  <2> QED BY <2>2, <2>5, <2>6, <2>7
<1>11. NeverWrongRows'
  BY <1>2 DEF IInv, NeverWrongRows, OwnAnswer
<1>12. SameKeySameResolver'
  BY <1>2 DEF IInv, SameKeySameResolver
<1>13. stash' \in Groups \cup {NoGroup}
  BY <1>7 DEF IInv
<1> QED BY <1>2, <1>4, <1>6, <1>8, <1>9, <1>10, <1>11, <1>12, <1>13 DEF IInv

\* What is merged for a sibling is what its own resolver answers.
LEMMA MergedIsOwn ==
  ASSUME IInv, NEW S \in SUBSET Parents,
         \A q \in S : Loaded(q) /\ Rewritable(q) /\ GroupOf[q] \in Retained
  PROVE  /\ Merged(S) \in [Addresses -> (SUBSET Rows) \cup {Missing}]
         /\ \A q \in Parents :
              Loaded(q) /\ Merged(S)[at[q]] # Missing => Merged(S)[at[q]] = OwnAnswer(q)
         /\ \A a \in Addresses : Merged(S)[a] # Missing => Kept(a)
<1> DEFINE first(a) == CHOOSE q \in S : at[q] = a
<1>1. \A q \in S : Grouped(q, S) = OwnAnswer(q) /\ OwnAnswer(q) \in SUBSET Rows
  <2> TAKE q \in S
  <2>1. resolver[q].kind # "raises"
    BY DEF Rewritable
  <2> QED BY <2>1, RewriteIsExact, OwnAnswerType
<1>2. \A a \in Addresses :
        (\E q \in S : at[q] = a) => first(a) \in S /\ at[first(a)] = a
  OBVIOUS
<1> HIDE DEF first
<1>3. Merged(S) = [a \in Addresses |-> IF \E q \in S : at[q] = a
                                         THEN Grouped(first(a), S) ELSE cache[a]]
  BY DEF Merged, first
<1>4. Merged(S) \in [Addresses -> (SUBSET Rows) \cup {Missing}]
  <2>1. \A a \in Addresses : Merged(S)[a] \in (SUBSET Rows) \cup {Missing}
    BY <1>1, <1>2, <1>3 DEF IInv
  <2> QED BY <1>3, <2>1
<1>5. ASSUME NEW q \in Parents, Loaded(q), Merged(S)[at[q]] # Missing
      PROVE  Merged(S)[at[q]] = OwnAnswer(q)
  <2>1. at[q] \in Addresses
    BY <1>5 DEF IInv, Loaded
  <2>2. CASE \E r \in S : at[r] = at[q]
    <3>1. first(at[q]) \in S /\ at[first(at[q])] = at[q]
      BY <1>2, <2>1, <2>2
    <3>2. PkOf[first(at[q])] = PkOf[q]
      BY <1>5, <3>1 DEF IInv, Placed, Loaded
    <3>3. OwnAnswer(first(at[q])) = OwnAnswer(q)
      BY <3>1, <3>2, SameKeySameAnswer
    <3> QED BY <1>1, <1>3, <2>1, <2>2, <3>1, <3>3
  <2>3. CASE ~ \E r \in S : at[r] = at[q]
    BY <1>3, <1>5, <2>1, <2>3 DEF IInv, CacheIsOwn
  <2> QED BY <2>2, <2>3
<1>6. ASSUME NEW a \in Addresses, Merged(S)[a] # Missing
      PROVE  Kept(a)
  BY <1>3, <1>6 DEF IInv, CachedIsOccupied, Kept
<1> QED BY <1>4, <1>5, <1>6

\* The siblings of a row are loaded rows, and it is one of them.
LEMMA SiblingsAreLoaded ==
  ASSUME IInv, NEW p \in Parents, Siblings(p) # {}
  PROVE  /\ stash # NoGroup
         /\ Siblings(p) = Members(stash) /\ Siblings(p) \in SUBSET Parents
         /\ \A q \in Siblings(p) : Loaded(q) /\ GroupOf[q] \in Retained
         /\ \E q \in Siblings(p) : at[q] = at[p]
BY DEF IInv, Siblings, SameRow, StashIsLoaded, Members, Loaded

\* A batch answers the parent that leads it with its own rows.
LEMMA RunAheadAnswersOwn ==
  ASSUME IInv, NEW p \in Parents, RunAhead(p)
  PROVE  /\ answer' = [answer EXCEPT ![p] = OwnAnswer(p)]
         /\ UNCHANGED <<at, stash, resolver>>
         /\ cache' \in [Addresses -> (SUBSET Rows) \cup {Missing}]
         /\ \A q \in Parents :
              Loaded(q) /\ cache'[at[q]] # Missing => cache'[at[q]] = OwnAnswer(q)
         /\ \A a \in Addresses : cache'[a] # Missing => Kept(a)
<1> DEFINE S == Siblings(p)
<1>1. /\ S # {} /\ Loaded(p)
      /\ \A q \in S : Rewritable(q)
      /\ UNCHANGED <<at, stash, resolver>>
  BY DEF RunAhead, Leads, Waiting
<1>2. /\ S \in SUBSET Parents
      /\ \A q \in S : Loaded(q) /\ GroupOf[q] \in Retained
      /\ \E q \in S : at[q] = at[p]
  BY <1>1, SiblingsAreLoaded
<1>3. /\ cache' = Merged(S)
      /\ answer' = [answer EXCEPT ![p] = IF cache'[at[p]] = Missing THEN {}
                                                                    ELSE cache'[at[p]]]
  BY DEF RunAhead
<1> HIDE DEF S
<1>4. /\ cache' \in [Addresses -> (SUBSET Rows) \cup {Missing}]
      /\ \A q \in Parents :
           Loaded(q) /\ cache'[at[q]] # Missing => cache'[at[q]] = OwnAnswer(q)
      /\ \A a \in Addresses : cache'[a] # Missing => Kept(a)
  BY <1>1, <1>2, <1>3, MergedIsOwn
<1>5. at[p] \in Addresses /\ cache'[at[p]] # Missing
  <2>1. at[p] \in Addresses
    BY <1>1 DEF IInv, Loaded
  <2>2. PICK q \in S : at[q] = at[p] /\ q = CHOOSE r \in S : at[r] = at[p]
    BY <1>2
  <2>3. cache'[at[p]] = Grouped(q, S)
    BY <1>2, <1>3, <2>1, <2>2 DEF Merged
  <2>4. q \in Parents /\ Rewritable(q)
    BY <1>1, <1>2
  <2>5. Grouped(q, S) = Matching(resolver[q].query)
    BY <2>4, RewriteIsExact
  <2>6. Matching(resolver[q].query) \in SUBSET Rows
    BY <2>4, OwnAnswerType DEF Rewritable
  <2> QED BY <2>1, <2>3, <2>5, <2>6, MarkersAssumption
<1> QED BY <1>1, <1>3, <1>4, <1>5

\* A batch keeps the invariant.
LEMMA RunAheadKeepsIInv ==
  ASSUME IInv, NEW p \in Parents, RunAhead(p)
  PROVE  IInv'
<1>1. /\ answer' = [answer EXCEPT ![p] = OwnAnswer(p)]
      /\ UNCHANGED <<at, stash, resolver>>
      /\ cache' \in [Addresses -> (SUBSET Rows) \cup {Missing}]
      /\ \A q \in Parents :
           Loaded(q) /\ cache'[at[q]] # Missing => cache'[at[q]] = OwnAnswer(q)
      /\ \A a \in Addresses : cache'[a] # Missing => Kept(a)
  BY RunAheadAnswersOwn
<1>2. \A q \in Parents : OwnAnswer(q)' = OwnAnswer(q)
  BY <1>1 DEF OwnAnswer
<1>3. answer' \in [Parents -> (SUBSET Rows) \cup {Unanswered, Failed}]
  BY <1>1, OwnAnswerType DEF IInv
<1>4. NeverWrongRows'
  BY <1>1, <1>2 DEF IInv, NeverWrongRows
<1>5. CacheIsOwn' /\ CachedIsOccupied'
  BY <1>1, <1>2 DEF CacheIsOwn, CachedIsOccupied, Kept, Loaded
<1>6. (SameKeySameResolver /\ Placed(at) /\ StashIsLoaded)'
  BY <1>1 DEF IInv, SameKeySameResolver, Placed, StashIsLoaded, Loaded
<1> QED BY <1>1, <1>3, <1>4, <1>5, <1>6 DEF IInv

\* The other steps of resolve() only answer fields, each for itself.
LEMMA AnswerSteps ==
  ASSUME IInv, NEW p \in Parents, Resolve(p), ~RunAhead(p)
  PROVE  /\ UNCHANGED <<at, stash, resolver, cache>>
         /\ answer' \in [Parents -> (SUBSET Rows) \cup {Unanswered, Failed}]
         /\ \A q \in Parents : answer'[q] \in {answer[q], OwnAnswer(q), Failed}
<1>1. CASE ResolveAlone(p)
  BY <1>1, AloneIsOwn DEF ResolveAlone
<1>2. CASE ServeCached(p)
  <2>1. cache[at[p]] = OwnAnswer(p) /\ answer' = [answer EXCEPT ![p] = cache[at[p]]]
    BY <1>2 DEF ServeCached, Waiting, Cached, IInv, CacheIsOwn
  <2>2. answer \in [Parents -> (SUBSET Rows) \cup {Unanswered, Failed}]
    BY DEF IInv
  <2> QED BY <1>2, <2>1, <2>2, OwnAnswerType DEF ServeCached
<1>3. CASE LeadRaises(p)
  BY <1>3, AloneIsOwn DEF LeadRaises
<1>4. CASE LeadRanOwnQuery(p)
  BY <1>4, AloneIsOwn DEF LeadRanOwnQuery
<1>5. CASE Abandon(p)
  BY <1>5, AloneIsOwn DEF Abandon
<1>6. CASE RunAheadFails(p)
  BY <1>6 DEF RunAheadFails, IInv
<1> QED BY <1>1, <1>2, <1>3, <1>4, <1>5, <1>6 DEF Resolve

\* Only groups that nothing was cached for lose their rows.
LEMMA ReleaseGroupKeepsIInv ==
  ASSUME IInv, NEW g \in Groups, ReleaseGroup(g)
  PROVE  IInv'
<1>1. /\ g \notin Retained
      /\ UNCHANGED <<stash, resolver, cache, answer>>
      /\ at' = [p \in Parents |-> IF p \in Members(g) THEN Nowhere ELSE at[p]]
  BY DEF ReleaseGroup, Release
<1>2. /\ \A p \in Parents : GroupOf[p] \in Retained => at'[p] = at[p]
      /\ \A p \in Parents : at'[p] # Nowhere => at'[p] = at[p]
      /\ at' \in [Parents -> Addresses \cup {Nowhere}]
  BY <1>1 DEF IInv, Members
<1>3. Placed(at')
  BY <1>2 DEF IInv, Placed
<1>4. StashIsLoaded'
  BY <1>1, <1>2 DEF IInv, StashIsLoaded, Members, Loaded
<1>5. CachedIsOccupied'
  BY <1>1, <1>2 DEF IInv, CachedIsOccupied, Kept
<1>6. CacheIsOwn'
  BY <1>1, <1>2 DEF IInv, CacheIsOwn, OwnAnswer, Loaded
<1>7. NeverWrongRows' /\ SameKeySameResolver'
  BY <1>1 DEF IInv, NeverWrongRows, OwnAnswer, SameKeySameResolver
<1> QED BY <1>1, <1>2, <1>3, <1>4, <1>5, <1>6, <1>7 DEF IInv

\* Every step keeps the invariant, as long as no batched row is released.
LEMMA NextIInv ==
  ASSUME BatchedRowsAreKept, IInv, [Next]_vars
  PROVE  IInv'
<1>1. CASE \E g \in Groups : LoadGroup(g)
  BY <1>1, LoadGroupKeepsIInv
<1>2. CASE \E g \in Groups : ReleaseGroup(g)
  BY <1>2, ReleaseGroupKeepsIInv
<1>3. CASE \E p \in Parents : Resolve(p)
  <2> PICK p \in Parents : Resolve(p)
    BY <1>3
  <2>1. CASE RunAhead(p)
    BY <2>1, RunAheadKeepsIInv
  <2>2. CASE ~RunAhead(p)
    BY <2>2, AnswerSteps, AnswersKeepIInv
  <2> QED BY <2>1, <2>2
<1>4. CASE UNCHANGED vars
  BY <1>4, AnswersKeepIInv DEF vars, IInv
<1> QED BY <1>1, <1>2, <1>3, <1>4 DEF Next

\* As long as the rows that are batched keep their addresses, no field answers the
\* rows of another parent.
THEOREM RowsAreNeverWrong ==
  ASSUME BatchedRowsAreKept
  PROVE  Spec => []NeverWrongRows
<1>1. IInv /\ [Next]_vars => IInv'
  BY NextIInv
<1>2. IInv => NeverWrongRows
  BY DEF IInv
<1> QED BY InitIInv, <1>1, <1>2, PTL DEF Spec
-----------------------------------------------------------------------------
(* The batched path implements per-parent resolution.                     *)

\* The failed statements are counted.
LEMMA FaultsAreCounted ==
  ASSUME faults \in Nat, [Next]_vars
  PROVE  faults' \in Nat
<1>1. CASE \E g \in Groups : LoadGroup(g) \/ ReleaseGroup(g)
  BY <1>1 DEF LoadGroup, ReleaseGroup
<1>2. CASE \E p \in Parents : Resolve(p)
  <2> PICK p \in Parents : Resolve(p)
    BY <1>2
  <2>1. faults' = faults \/ faults' = faults + 1
    BY DEF Resolve, ResolveAlone, ServeCached, LeadRaises, LeadRanOwnQuery, Abandon,
           RunAhead, RunAheadFails, Alone
  <2> QED BY <2>1
<1>3. CASE UNCHANGED vars
  BY <1>3 DEF vars
<1> QED BY <1>1, <1>2, <1>3 DEF Next

\* A field that runs plain is resolved alone, or its statement fails.
LEMMA AloneImplements ==
  ASSUME IInv, faults \in Nat, NEW p \in Parents, Waiting(p), Alone(p), UNCHANGED resolver
  PROVE  AsIfAlone!Next
<1> DEFINE own == [q \in Parents |-> OwnAnswer(q)]
<1>1. own' = own
  BY DEF OwnAnswer
<1>2. answer[p] = Unanswered
  BY DEF Waiting
<1>3. CASE answer' = [answer EXCEPT ![p] = OwnAnswer(p)] /\ UNCHANGED faults
  BY <1>1, <1>2, <1>3 DEF AsIfAlone!Next, AsIfAlone!Resolve
<1>4. CASE /\ faults < MaxFaults
           /\ answer' = [answer EXCEPT ![p] = Failed]
           /\ faults' = faults + 1
  <2>1. faults' \in {faults, faults + 1} /\ faults' > 0
    BY <1>4
  <2> QED BY <1>1, <1>2, <1>4, <2>1 DEF AsIfAlone!Next, AsIfAlone!Fail
<1> QED BY <1>3, <1>4 DEF Alone

\* resolve() of a place resolves it as if it were alone.
LEMMA ResolveImplements ==
  ASSUME IInv, faults \in Nat, NEW p \in Parents, Resolve(p)
  PROVE  AsIfAlone!Next
<1> DEFINE own == [q \in Parents |-> OwnAnswer(q)]
<1>1. answer[p] = Unanswered /\ Waiting(p) /\ UNCHANGED resolver
  BY DEF Resolve, ResolveAlone, ServeCached, LeadRaises, LeadRanOwnQuery, Abandon,
         RunAhead, RunAheadFails, Leads, Waiting
<1>2. own' = own
  BY <1>1 DEF OwnAnswer
<1>3. CASE Alone(p)
  BY <1>1, <1>3, AloneImplements
<1>4. CASE ServeCached(p)
  <2>1. cache[at[p]] = OwnAnswer(p) /\ answer' = [answer EXCEPT ![p] = cache[at[p]]]
    BY <1>4 DEF ServeCached, Waiting, Cached, IInv, CacheIsOwn
  <2>2. UNCHANGED faults
    BY <1>4 DEF ServeCached
  <2> QED BY <1>1, <1>2, <2>1, <2>2 DEF AsIfAlone!Next, AsIfAlone!Resolve
<1>5. CASE RunAhead(p)
  <2>1. answer' = [answer EXCEPT ![p] = OwnAnswer(p)]
    BY <1>5, RunAheadAnswersOwn
  <2>2. UNCHANGED faults
    BY <1>5 DEF RunAhead
  <2> QED BY <1>1, <1>2, <2>1, <2>2 DEF AsIfAlone!Next, AsIfAlone!Resolve
<1>6. CASE RunAheadFails(p)
  <2>1. answer' = [answer EXCEPT ![p] = Failed] /\ faults' = faults + 1
    BY <1>6 DEF RunAheadFails
  <2>2. faults' > 0
    BY <2>1
  <2> QED BY <1>1, <1>2, <2>1, <2>2 DEF AsIfAlone!Next, AsIfAlone!Fail
<1> QED BY <1>3, <1>4, <1>5, <1>6
        DEF Resolve, ResolveAlone, LeadRaises, LeadRanOwnQuery, Abandon

\* A step that resolves nothing is not a step of the abstract field.
LEMMA OtherStepsStutter ==
  ASSUME UNCHANGED <<resolver, answer, faults>>
  PROVE  UNCHANGED <<[p \in Parents |-> OwnAnswer(p)], answer, faults>>
BY DEF OwnAnswer

\* Batched, cached or abandoned, every field is answered as if it were alone,
\* as long as the rows that are batched keep their addresses.
THEOREM BatchingImplementsPerParent ==
  ASSUME BatchedRowsAreKept
  PROVE  Spec => ResolvesAsIfAlone
<1>1. Init => IInv /\ faults \in Nat /\ AsIfAlone!Init
  BY InitIInv DEF Init, AsIfAlone!Init
<1>2. IInv /\ faults \in Nat /\ [Next]_vars => IInv' /\ (faults \in Nat)'
  BY NextIInv, FaultsAreCounted
<1>3. IInv /\ faults \in Nat /\ [Next]_vars
        => [AsIfAlone!Next]_<<[p \in Parents |-> OwnAnswer(p)], answer, faults>>
  <2> SUFFICES ASSUME IInv, faults \in Nat, [Next]_vars
               PROVE  AsIfAlone!Next \/ UNCHANGED <<[p \in Parents |-> OwnAnswer(p)], answer, faults>>
    OBVIOUS
  <2>1. CASE \E p \in Parents : Resolve(p)
    BY <2>1, ResolveImplements
  <2>2. CASE ~ \E p \in Parents : Resolve(p)
    <3>1. UNCHANGED <<resolver, answer, faults>>
      BY <2>2 DEF Next, vars, LoadGroup, ReleaseGroup
    <3> QED BY <3>1, OtherStepsStutter
  <2> QED BY <2>1, <2>2
<1> QED BY <1>1, <1>2, <1>3, PTL DEF Spec, ResolvesAsIfAlone, AsIfAlone!Spec
-----------------------------------------------------------------------------
(* What a batch costs.                                                    *)

\* A batch that was read leaves what it found for every row of its group.
StashIsServed ==
  stash \in batched => \A q \in Members(stash) : cache[at[q]] # Missing

\* A group that was batched has been loaded: it is never loaded again.
BatchedWereLoaded ==
  \A g \in batched : \E p \in Members(g) : Loaded(p) \/ answer[p] # Unanswered

\* A group is paid for when it is batched, and once.
PaidOnce ==
  /\ \A g \in batched : statements[g] = Cardinality(Shapes(Members(g)))
  /\ \A g \in Groups \ batched : statements[g] = 0

CostInv ==
  /\ at \in [Parents -> Addresses \cup {Nowhere}]
  /\ stash \in Groups \cup {NoGroup}
  /\ resolver \in [Parents -> Outcome]
  /\ cache \in [Addresses -> (SUBSET Rows) \cup {Missing}]
  /\ DOMAIN answer = Parents
  /\ batched \subseteq Groups
  /\ DOMAIN statements = Groups
  /\ stash # NoGroup => \A p \in Members(stash) : Loaded(p)
  /\ StashIsServed
  /\ BatchedWereLoaded
  /\ PaidOnce

\* Only a batch changes what was found, what was batched and what it cost; the
\* other steps of resolve() answer a field that was waiting.
LEMMA AnswersCostNothing ==
  ASSUME CostInv, NEW p \in Parents, Resolve(p), ~RunAhead(p)
  PROVE  /\ UNCHANGED <<at, stash, resolver, cache, batched, statements>>
         /\ DOMAIN answer' = Parents
         /\ \A q \in Parents : answer[q] # Unanswered => answer'[q] = answer[q]
<1>1. answer[p] = Unanswered
  BY DEF Resolve, ResolveAlone, ServeCached, LeadRaises, LeadRanOwnQuery, Abandon,
         RunAheadFails, RunAhead, Leads, Waiting
<1>2. \E v : answer' = [answer EXCEPT ![p] = v]
  BY DEF Resolve, ResolveAlone, ServeCached, LeadRaises, LeadRanOwnQuery, Abandon,
         RunAheadFails, Alone
<1>3. UNCHANGED <<at, stash, resolver, cache, batched, statements>>
  BY DEF Resolve, ResolveAlone, ServeCached, LeadRaises, LeadRanOwnQuery, Abandon,
         RunAheadFails
<1>4. DOMAIN answer = Parents
  BY DEF CostInv
<1> QED BY <1>1, <1>2, <1>3, <1>4

\* What was paid for stays paid for while nothing is batched.
LEMMA QuietStepsKeepCost ==
  ASSUME CostInv, UNCHANGED <<at, stash, resolver, cache, batched, statements>>,
         DOMAIN answer' = Parents,
         \A q \in Parents : answer[q] # Unanswered => answer'[q] = answer[q]
  PROVE  CostInv'
<1>1. BatchedWereLoaded'
  BY DEF CostInv, BatchedWereLoaded, Members, Loaded
<1>2. StashIsServed' /\ PaidOnce'
  BY DEF CostInv, StashIsServed, PaidOnce, Shapes, SignatureOf
<1> QED BY <1>1, <1>2 DEF CostInv, Loaded

\* A list that is loaded was not loaded before, and so has not been batched.
LEMMA LoadGroupKeepsCost ==
  ASSUME CostInv, NEW g \in Groups, LoadGroup(g)
  PROVE  CostInv'
<1>1. PICK a \in [Members(g) -> Addresses] :
        at' = [p \in Parents |-> IF p \in Members(g) THEN a[p] ELSE at[p]]
  BY DEF LoadGroup, Load
<1>2. UNCHANGED <<resolver, cache, answer, batched, statements>>
  BY DEF LoadGroup
<1>3. /\ at \in [Parents -> Addresses \cup {Nowhere}]
      /\ \A p \in Members(g) : p \in Parents /\ at[p] = Nowhere /\ answer[p] = Unanswered
  BY DEF CostInv, LoadGroup, Members, Loaded
<1>4. at' \in [Parents -> Addresses \cup {Nowhere}]
  BY <1>1, <1>3
<1>5. \A p \in Parents : at[p] # Nowhere => at'[p] = at[p]
  BY <1>1, <1>3
<1>6. g \notin batched
  BY <1>3 DEF CostInv, BatchedWereLoaded, Loaded
<1>7. stash' = stash \/ stash' = g
  BY DEF LoadGroup, Load, Stashed
<1>8. stash' # NoGroup => \A p \in Members(stash') : at'[p] # Nowhere
  <2>1. \A p \in Members(g) : at'[p] # Nowhere
    BY <1>1, <1>3, ParentsAssumption
  <2>2. stash # NoGroup => \A p \in Members(stash) : at'[p] # Nowhere
    BY <1>5 DEF CostInv, Members, Loaded
  <2> QED BY <1>7, <2>1, <2>2
<1>9. StashIsServed'
  <2> SUFFICES ASSUME stash' \in batched, NEW q \in Members(stash')
               PROVE  cache[at'[q]] # Missing
    BY <1>2 DEF StashIsServed, Members
  <2>1. stash' = stash /\ stash # NoGroup
    BY <1>6, <1>7, ParentsAssumption DEF CostInv
  <2>2. q \in Parents /\ at[q] # Nowhere
    BY <2>1 DEF CostInv, Members, Loaded
  <2> QED BY <1>5, <2>1, <2>2 DEF CostInv, StashIsServed
<1>10. BatchedWereLoaded'
  BY <1>2, <1>5 DEF CostInv, BatchedWereLoaded, Members, Loaded
<1>11. PaidOnce'
  BY <1>2 DEF CostInv, PaidOnce, Shapes, SignatureOf
<1>12. stash' \in Groups \cup {NoGroup}
  BY <1>7 DEF CostInv
<1> QED BY <1>2, <1>4, <1>8, <1>9, <1>10, <1>11, <1>12 DEF CostInv, Loaded, Members

\* A list is released when its fields have answered, so it is not loaded again.
LEMMA ReleaseGroupKeepsCost ==
  ASSUME CostInv, NEW g \in Groups, ReleaseGroup(g)
  PROVE  CostInv'
<1>1. /\ stash # g
      /\ UNCHANGED <<stash, resolver, cache, answer, batched, statements>>
      /\ at' = [p \in Parents |-> IF p \in Members(g) THEN Nowhere ELSE at[p]]
      /\ \A p \in Members(g) : answer[p] # Unanswered
  BY DEF ReleaseGroup, Release
<1>2. at' \in [Parents -> Addresses \cup {Nowhere}]
  BY <1>1 DEF CostInv
<1>3. \A p \in Parents : p \notin Members(g) => at'[p] = at[p]
  BY <1>1
<1>4. \A p \in Members(stash) : p \in Parents /\ p \notin Members(g)
  BY <1>1 DEF Members
<1>5. StashIsServed'
  BY <1>1, <1>3, <1>4 DEF CostInv, StashIsServed, Members
<1>6. stash # NoGroup => \A p \in Members(stash) : at'[p] # Nowhere
  BY <1>3, <1>4 DEF CostInv, Loaded
<1>7. BatchedWereLoaded'
  BY <1>1, <1>3 DEF CostInv, BatchedWereLoaded, Members, Loaded
<1>8. PaidOnce'
  BY <1>1 DEF CostInv, PaidOnce, Shapes, SignatureOf
<1> QED BY <1>1, <1>2, <1>5, <1>6, <1>7, <1>8 DEF CostInv, Loaded, Members

\* The group a batch reads was not batched before: its rows would have been served.
LEMMA RunAheadBatchesAnew ==
  ASSUME CostInv, NEW p \in Parents, RunAhead(p)
  PROVE  /\ stash \in Groups /\ stash \notin batched
         /\ Siblings(p) = Members(stash)
         /\ \A q \in Members(stash) : at[q] \in Addresses
<1>1. Siblings(p) # {} /\ ~Cached(p) /\ ~unbatchable
  BY DEF RunAhead, Leads
<1>2. stash # NoGroup /\ Siblings(p) = Members(stash)
      /\ \E q \in Members(stash) : at[p] = at[q]
  BY <1>1 DEF Siblings, SameRow
<1>3. cache[at[p]] = Missing
  BY <1>1 DEF Cached
<1>4. stash \notin batched
  BY <1>2, <1>3 DEF CostInv, StashIsServed
<1>5. \A q \in Members(stash) : at[q] \in Addresses
  BY <1>2 DEF CostInv, Loaded, Members
<1> QED BY <1>2, <1>4, <1>5 DEF CostInv

\* What a batch leaves for each sibling is a set of rows.
LEMMA MergedIsServed ==
  ASSUME CostInv, NEW S \in SUBSET Parents,
         \A q \in S : at[q] \in Addresses
  PROVE  /\ Merged(S) \in [Addresses -> (SUBSET Rows) \cup {Missing}]
         /\ \A q \in S : Merged(S)[at[q]] # Missing
<1> DEFINE first(a) == CHOOSE q \in S : at[q] = a
<1>1. \A q \in S : Grouped(q, S) \in SUBSET Rows
  <2> TAKE q \in S
  <2>1. resolver[q].query.rest \in SUBSET Rows
    BY DEF CostInv, Outcome, Query
  <2>2. SignatureOf(q).rest \in SUBSET Rows
    BY <2>1 DEF SignatureOf, Signature
  <2> QED BY <2>2 DEF Grouped, BatchedRows
<1>2. \A a \in Addresses : (\E q \in S : at[q] = a) => first(a) \in S
  OBVIOUS
<1> HIDE DEF first
<1>3. Merged(S) = [a \in Addresses |-> IF \E q \in S : at[q] = a
                                         THEN Grouped(first(a), S) ELSE cache[a]]
  BY DEF Merged, first
<1>4. \A a \in Addresses : cache[a] \in (SUBSET Rows) \cup {Missing}
  BY DEF CostInv
<1>5. \A a \in Addresses : Merged(S)[a] \in (SUBSET Rows) \cup {Missing}
  BY <1>1, <1>2, <1>3, <1>4
<1>6. \A q \in S : Merged(S)[at[q]] \in SUBSET Rows
  BY <1>1, <1>2, <1>3
<1> QED BY <1>3, <1>5, <1>6, MarkersAssumption

\* A group has finitely many shapes of query.
LEMMA ShapesAreFinite ==
  ASSUME NEW S \in SUBSET Parents
  PROVE  Cardinality(Shapes(S)) \in Nat
<1> DEFINE shape == [q \in S |-> SignatureOf(q)]
<1>1. IsFiniteSet(S)
  BY FS_Subset, ParentsAssumption
<1>2. shape \in Surjection(S, Shapes(S))
  BY DEF Shapes, Surjection
<1> HIDE DEF shape
<1>3. IsFiniteSet(Shapes(S))
  BY <1>1, <1>2, FS_Surjection
<1> QED BY <1>3, FS_CardinalityType

\* A batch is paid for with one statement per shape.
LEMMA RunAheadKeepsCost ==
  ASSUME CostInv, NEW p \in Parents, RunAhead(p)
  PROVE  CostInv'
<1>1. /\ stash \in Groups /\ stash \notin batched
      /\ Siblings(p) = Members(stash)
      /\ \A q \in Members(stash) : at[q] \in Addresses
  BY RunAheadBatchesAnew
<1>2. /\ UNCHANGED <<at, stash, resolver>>
      /\ cache' = Merged(Members(stash))
      /\ batched' = batched \cup {stash}
      /\ statements' = [statements EXCEPT ![stash] = @ + Cardinality(Shapes(Members(stash)))]
      /\ DOMAIN answer' = Parents
      /\ answer[p] = Unanswered
      /\ \E v : answer' = [answer EXCEPT ![p] = v]
  BY <1>1 DEF CostInv, RunAhead, Leads, Waiting
<1>3. Members(stash) \in SUBSET Parents
  BY DEF Members
<1>4. /\ cache' \in [Addresses -> (SUBSET Rows) \cup {Missing}]
      /\ \A q \in Members(stash) : cache'[at[q]] # Missing
  BY <1>1, <1>2, <1>3, MergedIsServed
<1>5. StashIsServed'
  BY <1>2, <1>4 DEF StashIsServed, Members
<1>6. BatchedWereLoaded'
  <2> SUFFICES ASSUME NEW g \in batched'
               PROVE  \E q \in Members(g) : at[q] # Nowhere \/ answer'[q] # Unanswered
    BY <1>2 DEF BatchedWereLoaded, Members, Loaded
  <2>1. CASE g = stash
    <3>1. \E q \in Members(stash) : TRUE
      BY <1>1 DEF RunAhead, Leads
    <3> QED BY <1>1, <2>1, <3>1, ParentsAssumption
  <2>2. CASE g # stash
    <3>1. PICK q \in Members(g) : at[q] # Nowhere \/ answer[q] # Unanswered
      BY <1>2, <2>2 DEF CostInv, BatchedWereLoaded, Loaded
    <3>2. q \in Parents
      BY DEF Members
    <3> QED BY <1>2, <3>1, <3>2 DEF CostInv
  <2> QED BY <2>1, <2>2
<1>7. Cardinality(Shapes(Members(stash))) \in Nat
  BY <1>3, ShapesAreFinite
<1> DEFINE cost(g) == Cardinality(Shapes(Members(g)))
<1>8. \A g : Cardinality(Shapes(Members(g)))' = cost(g)
  BY <1>2 DEF Shapes, SignatureOf, Members
<1>9. statements'[stash] = cost(stash)
      /\ \A g \in Groups : g # stash => statements'[g] = statements[g]
  <2>1. statements[stash] = 0 /\ DOMAIN statements = Groups
    BY <1>1 DEF CostInv, PaidOnce
  <2>2. statements'[stash] = statements[stash] + cost(stash)
    BY <1>1, <1>2, <2>1
  <2>3. \A g \in Groups : g # stash => statements'[g] = statements[g]
    BY <1>2, <2>1
  <2> HIDE DEF cost
  <2>4. cost(stash) \in Nat
    BY <1>7 DEF cost
  <2> QED BY <2>1, <2>2, <2>3, <2>4
<1>10. PaidOnce'
  <2>1. \A g \in batched : g \in Groups /\ statements[g] = cost(g)
    BY DEF CostInv, PaidOnce
  <2>2. \A g \in Groups \ batched : statements[g] = 0
    BY DEF CostInv, PaidOnce
  <2> HIDE DEF cost
  <2>3. \A g \in batched' : statements'[g] = cost(g)
    BY <1>1, <1>2, <1>9, <2>1
  <2>4. \A g \in Groups \ batched' : statements'[g] = 0
    BY <1>1, <1>2, <1>9, <2>2
  <2> QED BY <1>8, <2>3, <2>4 DEF PaidOnce
<1>11. /\ batched' \subseteq Groups /\ DOMAIN statements' = Groups
       /\ stash # NoGroup => \A q \in Members(stash) : at[q] # Nowhere
  BY <1>1, <1>2 DEF CostInv, Loaded
<1> QED BY <1>2, <1>4, <1>5, <1>6, <1>10, <1>11 DEF CostInv, Loaded, Members

\* Every step keeps the cost, whatever is released.
LEMMA NextCostInv ==
  ASSUME CostInv, [Next]_vars
  PROVE  CostInv'
<1>1. CASE \E g \in Groups : LoadGroup(g)
  BY <1>1, LoadGroupKeepsCost
<1>2. CASE \E g \in Groups : ReleaseGroup(g)
  BY <1>2, ReleaseGroupKeepsCost
<1>3. CASE \E p \in Parents : Resolve(p)
  <2> PICK p \in Parents : Resolve(p)
    BY <1>3
  <2>1. CASE RunAhead(p)
    BY <2>1, RunAheadKeepsCost
  <2>2. CASE ~RunAhead(p)
    BY <2>2, AnswersCostNothing, QuietStepsKeepCost
  <2> QED BY <2>1, <2>2
<1>4. CASE UNCHANGED vars
  <2>1. UNCHANGED <<at, stash, resolver, cache, batched, statements, answer>>
    BY <1>4 DEF vars
  <2>2. DOMAIN answer' = Parents
    BY <2>1 DEF CostInv
  <2> QED BY <2>1, <2>2, QuietStepsKeepCost
<1> QED BY <1>1, <1>2, <1>3, <1>4 DEF Next

\* Nothing has been batched or paid for.
LEMMA InitCostInv == Init => CostInv
<1> SUFFICES ASSUME Init PROVE CostInv
  OBVIOUS
<1>1. resolver \in [Parents -> Outcome]
  BY InitIInv DEF IInv
<1>2. /\ at = [p \in Parents |-> Nowhere]
      /\ stash = NoGroup
      /\ cache = [a \in Addresses |-> Missing]
      /\ answer = [p \in Parents |-> Unanswered]
      /\ batched = {}
      /\ statements = [g \in Groups |-> 0]
  BY DEF Init, RowsInit
<1>3. StashIsServed /\ BatchedWereLoaded /\ PaidOnce
  BY <1>2 DEF StashIsServed, BatchedWereLoaded, PaidOnce
<1> QED BY <1>1, <1>2, <1>3 DEF CostInv

\* However the fields of the groups interleave and whatever is released, a group
\* that is batched costs one statement per shape of query.
THEOREM OneStatementForEachShape == Spec => []OneStatementPerShape
<1>1. CostInv => OneStatementPerShape
  <2> SUFFICES ASSUME CostInv, NEW g \in batched
               PROVE  statements[g] <= Cardinality(Shapes(Members(g)))
    BY DEF OneStatementPerShape
  <2>1. statements[g] = Cardinality(Shapes(Members(g)))
    BY DEF CostInv, PaidOnce
  <2>2. Cardinality(Shapes(Members(g))) \in Nat
    BY ShapesAreFinite DEF Members
  <2> QED BY <2>1, <2>2
<1> QED BY <1>1, InitCostInv, NextCostInv, PTL DEF Spec
=============================================================================
