-------------------------- MODULE RowScopingProofs --------------------------
(***************************************************************************)
(* Proofs about RowScoping: what the marks of scoped relations and rows    *)
(* stand for, and that no field answers a row its scopes reject, for any   *)
(* tables, links, scopes, selections and number of fields.                 *)
(***************************************************************************)
EXTENDS RowScoping, SequenceTheorems, TLAPS

-----------------------------------------------------------------------------
(* The scope of an edge.                                                   *)

\* Hiding what a scope rejects twice is hiding it once, and hides nothing where
\* there is no scope.
LEMMA VisibleFacts ==
    ASSUME NEW rel \in Rels, NEW rows
    PROVE  /\ Visible(rows, rel) \subseteq rows
           /\ Visible(Visible(rows, rel), rel) = Visible(rows, rel)
           /\ ~ Restricted(rel) => Visible(rows, rel) = rows
BY DEF Visible, Restricted

LEMMA ReadAsFacts ==
    ASSUME NEW rel \in Rels, NEW r \in Rows
    PROVE  /\ Links[rel][r] \subseteq Rows /\ ReadAs(rel, r) \subseteq Rows
           /\ Visible(Links[rel][r], rel) = ReadAs(rel, r)
           /\ Visible(ReadAs(rel, r), rel) = ReadAs(rel, r)
           /\ ~ Restricted(rel) => ReadAs(rel, r) = Links[rel][r]
           /\ ScopedReads[rel][r] = ReadAs(rel, r)
<1>1. Links[rel][r] \subseteq Rows
    BY RowsAssumption
<1> QED
    BY <1>1, VisibleFacts DEF ReadAs, ScopedReads

\* What a loader reads: rows, from which the scope leaves what it lets through.
GotFits(got) ==
    \A rel \in Rels, r \in Rows :
        got[rel][r] \subseteq Rows /\ Visible(got[rel][r], rel) = ReadAs(rel, r)

LEMMA ReadsFit == GotFits(Links) /\ GotFits(ScopedReads) /\ GotFits(TtPrefetched)
<1>1. \A rel \in Rels : TtPrefetched[rel] \in {Links[rel], ScopedReads[rel]}
    BY DEF TtPrefetched
<1> QED
    BY <1>1, ReadAsFacts DEF GotFits

-----------------------------------------------------------------------------
(* Instances.                                                              *)

Vias == Seq(Nat \cup Rels)
InstanceOf(D) == [loaded : SUBSET Rels, cache : [Rels -> SUBSET D],
                  trusted : SUBSET Rels, scoped : BOOLEAN, prepared : BOOLEAN]
Exact(o, i, rel) == RowsOf(o[i].cache[rel]) = ReadAs(rel, i.row)

Typed(o) == \A i \in DOMAIN o : i.row \in Rows /\ o[i] \in InstanceOf(DOMAIN o)

\* A cache holds what the scope lets through, and with a mark nothing else.
SoundAt(o, i) ==
    /\ \A rel \in o[i].loaded : Visible(RowsOf(o[i].cache[rel]), rel) = ReadAs(rel, i.row)
    /\ \A rel \in o[i].trusted \cap o[i].loaded : Restricted(rel) => Exact(o, i, rel)
    /\ o[i].scoped \/ o[i].prepared => i.row \in ApplyTypeScope(Rows)
Sound(o) == Typed(o) /\ \A i \in DOMAIN o : SoundAt(o, i)

\* Only what is loaded is marked.
Backed(o) == \A i \in DOMAIN o : o[i].trusted \subseteq o[i].loaded

\* Without an identity map an instance is known by the load that made it, and
\* what a load puts into a cache is below the instance.
Numbered(o, m) ==
    env.backend # "sqlalchemy" =>
        \A i \in DOMAIN o :
            /\ i.via \in Vias /\ Len(i.via) >= 1 /\ i.via[1] \in 0 .. m
            /\ \A rel \in Rels : \A k \in o[i].cache[rel] : Len(k.via) >= 2

LEMMA BlankFacts ==
    /\ \A D : Blank \in InstanceOf(D)
    /\ Blank.loaded = {} /\ Blank.trusted = {}
    /\ Blank.scoped = FALSE /\ Blank.prepared = FALSE
    /\ \A rel \in Rels : Blank.cache[rel] = {}
BY DEF Blank, InstanceOf

LEMMA AtFacts ==
    ASSUME NEW r, NEW via
    PROVE  /\ At(r, via).row = r
           /\ env.backend # "sqlalchemy" => At(r, via).via = via
BY DEF At

\* New instances come blank, and leave those there are alone.
LEMMA WithIs ==
    ASSUME NEW o, Typed(o), NEW I, \A i \in I : i.row \in Rows
    PROVE  /\ DOMAIN With(o, I) = DOMAIN o \cup I
           /\ Typed(With(o, I))
           /\ \A i \in DOMAIN o : With(o, I)[i] = o[i]
           /\ \A i \in I \ DOMAIN o : With(o, I)[i] = Blank
<1>1. InstanceOf(DOMAIN o) \subseteq InstanceOf(DOMAIN o \cup I)
    BY DEF InstanceOf
<1> QED
    BY <1>1, BlankFacts DEF With, Typed

LEMMA WithSound ==
    ASSUME NEW o, Sound(o), Backed(o), NEW I, \A i \in I : i.row \in Rows
    PROVE  Sound(With(o, I)) /\ Backed(With(o, I))
<1>1. Typed(o)
    BY DEF Sound
<1>2. /\ DOMAIN With(o, I) = DOMAIN o \cup I
      /\ Typed(With(o, I))
      /\ \A i \in DOMAIN o : With(o, I)[i] = o[i]
      /\ \A i \in I \ DOMAIN o : With(o, I)[i] = Blank
    BY <1>1, WithIs
<1>3. ASSUME NEW i \in DOMAIN o
      PROVE  SoundAt(With(o, I), i) /\ With(o, I)[i].trusted \subseteq With(o, I)[i].loaded
    BY <1>2 DEF Sound, SoundAt, Exact, Backed
<1>4. ASSUME NEW i \in I \ DOMAIN o
      PROVE  SoundAt(With(o, I), i) /\ With(o, I)[i].trusted \subseteq With(o, I)[i].loaded
    BY <1>2, BlankFacts DEF SoundAt
<1> QED
    BY <1>2, <1>3, <1>4 DEF Sound, Backed

-----------------------------------------------------------------------------
(* Reading relations onto instances.                                       *)

Jobs(o) == [onto : DOMAIN o, rel : Rels, via : Vias]
HasJob(jobs, i, rel) == \E j \in jobs : j.onto = i /\ j.rel = rel
MadeBy(k, j) == \E r \in Rows : k = At(r, Append(j.via, j.rel))

\* What filling does: only the relations of the jobs are replaced, by what was
\* got, in instances that are new or were made by a load of the same number.
Filled(o, F, jobs, got) ==
    /\ DOMAIN o \subseteq DOMAIN F
    /\ \A i \in DOMAIN F : i.row \in Rows /\ F[i] \in InstanceOf(DOMAIN F)
    /\ \A k \in DOMAIN F \ DOMAIN o :
          F[k] = Blank /\ \E j \in jobs : MadeBy(k, j)
    /\ \A i \in DOMAIN o :
          /\ F[i].trusted = o[i].trusted
          /\ F[i].scoped = o[i].scoped /\ F[i].prepared = o[i].prepared
          /\ F[i].loaded = o[i].loaded \cup {rel \in Rels : HasJob(jobs, i, rel)}
          /\ \A rel \in Rels :
                IF HasJob(jobs, i, rel)
                THEN /\ RowsOf(F[i].cache[rel]) = got[rel][i.row]
                     /\ \A k \in F[i].cache[rel] :
                           \E j \in jobs : j.onto = i /\ j.rel = rel /\ MadeBy(k, j)
                ELSE F[i].cache[rel] = o[i].cache[rel]

LEMMA FillIs ==
    ASSUME NEW o, Typed(o), NEW jobs, jobs \subseteq Jobs(o), NEW got, GotFits(got)
    PROVE  Filled(o, Fill(o, jobs, got), jobs, got)
<1> DEFINE Kids(j) == {At(r, Append(j.via, j.rel)) : r \in got[j.rel][j.onto.row]}
           new == UNION {Kids(j) : j \in jobs}
           all == With(o, new)
           Of(i, rel) == {j \in jobs : j.onto = i /\ j.rel = rel}
           F == Fill(o, jobs, got)
<1>1. \A j \in jobs : /\ j.onto \in DOMAIN o /\ j.onto.row \in Rows /\ j.rel \in Rels
                      /\ got[j.rel][j.onto.row] \subseteq Rows
    BY DEF Jobs, Typed, GotFits
<1>2. \A j \in jobs : \A k \in Kids(j) : k.row \in Rows /\ MadeBy(k, j)
    BY <1>1, AtFacts DEF MadeBy
<1>3. \A k \in new : k.row \in Rows /\ \E j \in jobs : MadeBy(k, j)
    BY <1>2
<1>4. \A j \in jobs : RowsOf(Kids(j)) = got[j.rel][j.onto.row]
    <2> SUFFICES ASSUME NEW j \in jobs PROVE RowsOf(Kids(j)) = got[j.rel][j.onto.row]
        OBVIOUS
    <2> QED
        BY AtFacts DEF RowsOf
<1>5. /\ DOMAIN all = DOMAIN o \cup new /\ Typed(all)
      /\ \A i \in DOMAIN o : all[i] = o[i]
      /\ \A i \in new \ DOMAIN o : all[i] = Blank
    BY <1>3, WithIs
<1>6. F = [i \in DOMAIN all |->
              [all[i] EXCEPT
                  !.loaded = @ \cup {rel \in Rels : Of(i, rel) # {}},
                  !.cache = [rel \in Rels |->
                      IF Of(i, rel) = {} THEN @[rel]
                      ELSE UNION {Kids(j) : j \in Of(i, rel)}]]]
    BY DEF Fill
<1>7. \A i \in DOMAIN o, rel \in Rels : HasJob(jobs, i, rel) <=> Of(i, rel) # {}
    BY DEF HasJob
<1>8. \A i, rel : /\ UNION {Kids(j) : j \in Of(i, rel)} \subseteq DOMAIN all
                  /\ \A k \in UNION {Kids(j) : j \in Of(i, rel)} :
                        \E j \in jobs : j.onto = i /\ j.rel = rel /\ MadeBy(k, j)
    <2>1. ASSUME NEW i, NEW rel, NEW k \in UNION {Kids(j) : j \in Of(i, rel)}
          PROVE  /\ k \in DOMAIN all
                 /\ \E j \in jobs : j.onto = i /\ j.rel = rel /\ MadeBy(k, j)
        <3>1. PICK j \in Of(i, rel) : k \in Kids(j)
            OBVIOUS
        <3>2. j \in jobs /\ j.onto = i /\ j.rel = rel
            OBVIOUS
        <3>3. k \in new
            BY <3>1, <3>2
        <3> QED
            BY <1>2, <1>5, <3>1, <3>2, <3>3
    <2> HIDE DEF Kids, Of, all
    <2> QED
        BY <2>1
<1>9. \A i, rel : Of(i, rel) # {} =>
          RowsOf(UNION {Kids(j) : j \in Of(i, rel)}) = got[rel][i.row]
    <2> SUFFICES ASSUME NEW i, NEW rel, Of(i, rel) # {}
                 PROVE  RowsOf(UNION {Kids(j) : j \in Of(i, rel)}) = got[rel][i.row]
        OBVIOUS
    <2>1. \A j \in Of(i, rel) : RowsOf(Kids(j)) = got[rel][i.row]
        BY <1>4
    <2>2. \A r : r \in RowsOf(UNION {Kids(j) : j \in Of(i, rel)})
                    <=> \E j \in Of(i, rel) : r \in RowsOf(Kids(j))
        BY DEF RowsOf
    <2> HIDE DEF Kids, Of
    <2> QED
        BY <2>1, <2>2
<1> HIDE DEF Kids, new, all, Of, F
<1>10. ASSUME NEW i \in DOMAIN all
       PROVE  /\ F[i].loaded = all[i].loaded \cup {rel \in Rels : Of(i, rel) # {}}
              /\ F[i].cache = [rel \in Rels |-> IF Of(i, rel) = {} THEN all[i].cache[rel]
                                  ELSE UNION {Kids(j) : j \in Of(i, rel)}]
              /\ F[i].trusted = all[i].trusted
              /\ F[i].scoped = all[i].scoped /\ F[i].prepared = all[i].prepared
              /\ F[i] \in InstanceOf(DOMAIN all)
    <2>1. all[i] \in InstanceOf(DOMAIN all)
        BY <1>5 DEF Typed
    <2> DEFINE c == [rel \in Rels |-> IF Of(i, rel) = {} THEN all[i].cache[rel]
                                      ELSE UNION {Kids(j) : j \in Of(i, rel)}]
               l == all[i].loaded \cup {rel \in Rels : Of(i, rel) # {}}
    <2>2. c \in [Rels -> SUBSET DOMAIN all] /\ l \in SUBSET Rels
        BY <1>8, <2>1 DEF InstanceOf
    <2>3. F[i] = [all[i] EXCEPT !.loaded = l, !.cache = c]
        BY <1>6, <2>1 DEF InstanceOf
    <2> HIDE DEF c, l
    <2>4. /\ F[i].loaded = l /\ F[i].cache = c /\ F[i].trusted = all[i].trusted
          /\ F[i].scoped = all[i].scoped /\ F[i].prepared = all[i].prepared
          /\ F[i] \in InstanceOf(DOMAIN all)
        BY <2>1, <2>2, <2>3 DEF InstanceOf
    <2> QED
        BY <2>4 DEF c, l
<1>11. DOMAIN F = DOMAIN all
    BY <1>6
<1>12. ASSUME NEW k \in DOMAIN F \ DOMAIN o
       PROVE  F[k] = Blank /\ \E j \in jobs : MadeBy(k, j)
    <2>1. all[k] = Blank /\ k \in new /\ k \in DOMAIN all
        BY <1>5, <1>11
    <2>2. \A rel \in Rels : Of(k, rel) = {}
        BY <1>1 DEF Of
    <2>3. F[k].loaded = {} /\ F[k].cache = [rel \in Rels |-> {}]
        BY <1>10, <2>1, <2>2, BlankFacts
    <2>4. F[k].trusted = {} /\ F[k].scoped = FALSE /\ F[k].prepared = FALSE
        BY <1>10, <2>1, BlankFacts
    <2>5. F[k] = Blank
        BY <1>10, <2>1, <2>3, <2>4 DEF Blank, InstanceOf
    <2> QED
        BY <1>3, <2>1, <2>5
<1>13. ASSUME NEW i \in DOMAIN o
       PROVE  /\ F[i].trusted = o[i].trusted
              /\ F[i].scoped = o[i].scoped /\ F[i].prepared = o[i].prepared
              /\ F[i].loaded = o[i].loaded \cup {rel \in Rels : HasJob(jobs, i, rel)}
              /\ \A rel \in Rels :
                    IF HasJob(jobs, i, rel)
                    THEN /\ RowsOf(F[i].cache[rel]) = got[rel][i.row]
                         /\ \A k \in F[i].cache[rel] :
                               \E j \in jobs : j.onto = i /\ j.rel = rel /\ MadeBy(k, j)
                    ELSE F[i].cache[rel] = o[i].cache[rel]
    <2>1. i \in DOMAIN all /\ all[i] = o[i]
        BY <1>5
    <2>2. /\ F[i].trusted = o[i].trusted
          /\ F[i].scoped = o[i].scoped /\ F[i].prepared = o[i].prepared
        BY <1>10, <2>1
    <2>3. F[i].loaded = o[i].loaded \cup {rel \in Rels : HasJob(jobs, i, rel)}
        BY <1>7, <1>10, <2>1
    <2>4. ASSUME NEW rel \in Rels, HasJob(jobs, i, rel)
          PROVE  /\ RowsOf(F[i].cache[rel]) = got[rel][i.row]
                 /\ \A k \in F[i].cache[rel] :
                       \E j \in jobs : j.onto = i /\ j.rel = rel /\ MadeBy(k, j)
        <3>1. Of(i, rel) # {}
            BY <1>7, <2>4
        <3>2. F[i].cache[rel] = UNION {Kids(j) : j \in Of(i, rel)}
            BY <1>10, <2>1, <3>1
        <3> QED
            BY <1>8, <1>9, <3>1, <3>2
    <2>5. ASSUME NEW rel \in Rels, ~ HasJob(jobs, i, rel)
          PROVE  F[i].cache[rel] = o[i].cache[rel]
        <3>1. Of(i, rel) = {}
            BY <1>7, <2>5
        <3> QED
            BY <1>10, <2>1, <3>1
    <2> QED
        BY <2>2, <2>3, <2>4, <2>5
<1> QED
    BY <1>5, <1>10, <1>11, <1>12, <1>13 DEF Filled, Typed, F
\* Filling keeps an instance sound when what is marked is read with the scope.
LEMMA FillSound ==
    ASSUME NEW o, Sound(o), NEW jobs, jobs \subseteq Jobs(o), NEW got, GotFits(got),
           \A j \in jobs : \/ j.rel \notin o[j.onto].trusted
                           \/ got[j.rel][j.onto.row] = ReadAs(j.rel, j.onto.row)
    PROVE  Sound(Fill(o, jobs, got))
<1> DEFINE F == Fill(o, jobs, got)
<1>1. Typed(o) /\ Filled(o, F, jobs, got)
    BY FillIs DEF Sound
<1> HIDE DEF F
<1>2. Typed(F)
    BY <1>1 DEF Filled, Typed
<1>3. ASSUME NEW i \in DOMAIN F \ DOMAIN o
      PROVE  SoundAt(F, i)
    BY <1>1, <1>3, BlankFacts DEF Filled, SoundAt
<1>4. ASSUME NEW i \in DOMAIN o
      PROVE  SoundAt(F, i)
    <2>1. SoundAt(o, i) /\ i.row \in Rows /\ o[i].loaded \subseteq Rels
        BY <1>1 DEF Sound, Typed, InstanceOf
    <2>2. /\ F[i].trusted = o[i].trusted
          /\ F[i].scoped = o[i].scoped /\ F[i].prepared = o[i].prepared
          /\ F[i].loaded = o[i].loaded \cup {rel \in Rels : HasJob(jobs, i, rel)}
        BY <1>1 DEF Filled
    <2>3. ASSUME NEW rel \in Rels, HasJob(jobs, i, rel)
          PROVE  /\ Visible(RowsOf(F[i].cache[rel]), rel) = ReadAs(rel, i.row)
                 /\ rel \in F[i].trusted => Exact(F, i, rel)
        <3>1. RowsOf(F[i].cache[rel]) = got[rel][i.row]
            BY <1>1, <2>3 DEF Filled
        <3>2. rel \in o[i].trusted => got[rel][i.row] = ReadAs(rel, i.row)
            BY <2>3 DEF HasJob
        <3> QED
            BY <2>1, <2>2, <3>1, <3>2 DEF GotFits, Exact
    <2>4. ASSUME NEW rel \in o[i].loaded, ~ HasJob(jobs, i, rel)
          PROVE  /\ Visible(RowsOf(F[i].cache[rel]), rel) = ReadAs(rel, i.row)
                 /\ rel \in F[i].trusted /\ Restricted(rel) => Exact(F, i, rel)
        <3>1. F[i].cache[rel] = o[i].cache[rel]
            BY <1>1, <2>1, <2>4 DEF Filled
        <3> QED
            BY <2>1, <2>2, <3>1 DEF SoundAt, Exact
    <2> QED
        BY <2>1, <2>2, <2>3, <2>4 DEF SoundAt
<1> QED
    BY <1>2, <1>3, <1>4 DEF Sound, F

LEMMA FillBacked ==
    ASSUME NEW o, NEW F, NEW jobs, NEW got, Backed(o), Filled(o, F, jobs, got)
    PROVE  Backed(F)
BY BlankFacts DEF Backed, Filled

\* The jobs of load n.
JobsOf(o, n) == {j \in Jobs(o) : Len(j.via) >= 1 /\ j.via[1] = n}

LEMMA MadeByFacts ==
    ASSUME NEW j, j.via \in Vias, j.rel \in Rels, Len(j.via) >= 1, NEW k, MadeBy(k, j),
           env.backend # "sqlalchemy"
    PROVE  k.via \in Vias /\ Len(k.via) = Len(j.via) + 1 /\ k.via[1] = j.via[1]
<1>1. k.via = Append(j.via, j.rel)
    <2>1. PICK r \in Rows : k = At(r, Append(j.via, j.rel))
        BY DEF MadeBy
    <2> QED
        BY <2>1, AtFacts
<1>2. j.rel \in Nat \cup Rels /\ j.via \in Seq(Nat \cup Rels)
    BY DEF Vias
<1>3. /\ k.via \in Seq(Nat \cup Rels) /\ Len(k.via) = Len(j.via) + 1
      /\ \A i \in 1 .. Len(j.via) : k.via[i] = j.via[i]
    BY <1>1, <1>2, AppendProperties
<1>4. Len(j.via) \in Nat
    BY <1>2
<1>5. 1 \in 1 .. Len(j.via)
    BY <1>4
<1> QED
    BY <1>3, <1>5 DEF Vias

LEMMA FillNumbered ==
    ASSUME NEW o, NEW F, NEW n \in Nat, Numbered(o, n), NEW jobs, jobs \subseteq JobsOf(o, n),
           NEW got, Filled(o, F, jobs, got)
    PROVE  Numbered(F, n)
<1> SUFFICES ASSUME env.backend # "sqlalchemy" PROVE Numbered(F, n)
    BY DEF Numbered
<1>1. ASSUME NEW j \in jobs, NEW k, MadeBy(k, j)
      PROVE  k.via \in Vias /\ Len(k.via) >= 2 /\ k.via[1] = n
    <2>1. j.via \in Vias /\ j.rel \in Rels /\ Len(j.via) >= 1 /\ j.via[1] = n
        BY DEF JobsOf, Jobs
    <2>2. k.via \in Vias /\ Len(k.via) = Len(j.via) + 1 /\ k.via[1] = j.via[1]
        BY <1>1, <2>1, MadeByFacts
    <2>3. Len(j.via) \in Nat
        BY <2>1 DEF Vias
    <2> QED
        BY <2>1, <2>2, <2>3
<1>2. ASSUME NEW i \in DOMAIN F
      PROVE  i.via \in Vias /\ Len(i.via) >= 1 /\ i.via[1] \in 0 .. n
    <2>1. CASE i \in DOMAIN o
        BY <2>1 DEF Numbered
    <2>2. CASE i \notin DOMAIN o
        <3>1. i.via \in Vias /\ Len(i.via) >= 2 /\ i.via[1] = n
            BY <1>1, <2>2 DEF Filled
        <3>2. Len(i.via) \in Nat
            BY <3>1 DEF Vias
        <3> QED
            BY <3>1, <3>2
    <2> QED
        BY <2>1, <2>2
<1>3. ASSUME NEW i \in DOMAIN F, NEW rel \in Rels, NEW k \in F[i].cache[rel]
      PROVE  Len(k.via) >= 2
    <2>1. CASE i \in DOMAIN o /\ HasJob(jobs, i, rel)
        BY <1>1, <2>1 DEF Filled
    <2>2. CASE i \in DOMAIN o /\ ~ HasJob(jobs, i, rel)
        BY <2>2 DEF Filled, Numbered
    <2>3. CASE i \notin DOMAIN o
        BY <2>3, BlankFacts DEF Filled
    <2> QED
        BY <2>1, <2>2, <2>3
<1> QED
    BY <1>2, <1>3 DEF Numbered

-----------------------------------------------------------------------------
(* Loads that read with the scope, and only what is not loaded.            *)

\* Nothing that was loaded changed, and what was not is what the scope says.
Grew(o, o2) ==
    /\ DOMAIN o \subseteq DOMAIN o2
    /\ \A i \in DOMAIN o :
          /\ o[i].loaded \subseteq o2[i].loaded
          /\ \A rel \in o[i].loaded : o2[i].cache[rel] = o[i].cache[rel]
          /\ o2[i].trusted = o[i].trusted
    /\ \A i \in DOMAIN o2 \ DOMAIN o : o2[i].trusted = {}
    /\ \A i \in DOMAIN o2 : \A rel \in o2[i].loaded :
          (i \in DOMAIN o /\ rel \in o[i].loaded) \/ Exact(o2, i, rel)

LEMMA GrewTwice ==
    ASSUME NEW o, NEW o1, NEW o2, Grew(o, o1), Grew(o1, o2)
    PROVE  Grew(o, o2)
BY DEF Grew, Exact

LEMMA ScopedFill ==
    ASSUME NEW o, Sound(o), NEW n \in Nat, NEW jobs, jobs \subseteq JobsOf(o, n)
    PROVE  LET F == Fill(o, Missing(o, jobs), ScopedReads)
           IN  /\ Filled(o, F, Missing(o, jobs), ScopedReads)
               /\ Grew(o, F) /\ Sound(F)
               /\ Backed(o) => Backed(F)
               /\ Numbered(o, n) => Numbered(F, n)
<1> DEFINE some == Missing(o, jobs)
           F == Fill(o, some, ScopedReads)
<1>1. /\ some \subseteq JobsOf(o, n) /\ some \subseteq Jobs(o)
      /\ \A j \in some : j.rel \notin o[j.onto].loaded
    BY DEF Missing, JobsOf
<1>2. Typed(o) /\ GotFits(ScopedReads)
    BY ReadsFit DEF Sound
<1> HIDE DEF some
<1>3. Filled(o, F, some, ScopedReads)
    BY <1>1, <1>2, FillIs
<1>4. \A j \in some : ScopedReads[j.rel][j.onto.row] = ReadAs(j.rel, j.onto.row)
    BY <1>1, <1>2, ReadAsFacts DEF Jobs, Typed
<1>5. Sound(F)
    BY <1>1, <1>2, <1>4, FillSound
<1> HIDE DEF F
<1>6. \A i, rel : HasJob(some, i, rel) => rel \notin o[i].loaded
    BY <1>1 DEF HasJob
<1>7. Grew(o, F)
    <2>1. \A i \in DOMAIN F \ DOMAIN o : F[i].trusted = {} /\ F[i].loaded = {}
        BY <1>3, BlankFacts DEF Filled
    <2>2. ASSUME NEW i \in DOMAIN o
          PROVE  /\ o[i].loaded \subseteq F[i].loaded /\ F[i].trusted = o[i].trusted
                 /\ \A rel \in o[i].loaded : F[i].cache[rel] = o[i].cache[rel]
                 /\ \A rel \in F[i].loaded : rel \in o[i].loaded \/ Exact(F, i, rel)
        <3>1. o[i].loaded \subseteq Rels /\ i.row \in Rows
            BY <1>2 DEF Typed, InstanceOf
        <3>2. /\ F[i].trusted = o[i].trusted
              /\ F[i].loaded = o[i].loaded \cup {rel \in Rels : HasJob(some, i, rel)}
            BY <1>3 DEF Filled
        <3>3. \A rel \in o[i].loaded : F[i].cache[rel] = o[i].cache[rel]
            BY <1>3, <1>6, <3>1 DEF Filled
        <3>4. \A rel \in Rels : HasJob(some, i, rel) => Exact(F, i, rel)
            BY <1>3, <3>1, ReadAsFacts DEF Filled, Exact
        <3> QED
            BY <3>2, <3>3, <3>4
    <2> QED
        BY <1>3, <2>1, <2>2 DEF Grew, Filled
<1>8. Backed(o) => Backed(F)
    BY <1>3, FillBacked
<1>9. Numbered(o, n) => Numbered(F, n)
    BY <1>1, <1>3, FillNumbered
<1> QED
    BY <1>3, <1>5, <1>7, <1>8, <1>9 DEF F, some

-----------------------------------------------------------------------------
(* Marks.                                                                  *)

LEMMA TrustIs ==
    ASSUME NEW o, Sound(o), Backed(o), NEW edges,
           \A e \in edges : /\ e[1] \in DOMAIN o /\ e[2] \in o[e[1]].loaded
                            /\ Restricted(e[2]) => Exact(o, e[1], e[2])
    PROVE  LET T == Trust(o, edges)
           IN  /\ Sound(T) /\ Backed(T) /\ DOMAIN T = DOMAIN o
               /\ \A i \in DOMAIN o : T[i].loaded = o[i].loaded /\ T[i].cache = o[i].cache
               /\ \A m : Numbered(o, m) => Numbered(T, m)
               /\ \A i \in DOMAIN o : (\A e \in edges : e[1] # i) => T[i].trusted = o[i].trusted
<1> DEFINE T == Trust(o, edges)
           new(i) == {e[2] : e \in {x \in edges : x[1] = i}}
<1>1. DOMAIN T = DOMAIN o
    BY DEF Trust
<1>2. \A i \in DOMAIN o : /\ new(i) \subseteq o[i].loaded
                          /\ \A rel \in new(i) : Restricted(rel) => Exact(o, i, rel)
    OBVIOUS
<1>3. \A i \in DOMAIN o : (\A e \in edges : e[1] # i) => new(i) = {}
    OBVIOUS
<1>4. \A i \in DOMAIN o : T[i] = [o[i] EXCEPT !.trusted = @ \cup new(i)]
    BY DEF Trust
<1> HIDE DEF T, new
<1>5. ASSUME NEW i \in DOMAIN o
      PROVE  /\ T[i].trusted = o[i].trusted \cup new(i)
             /\ T[i].loaded = o[i].loaded /\ T[i].cache = o[i].cache
             /\ T[i].scoped = o[i].scoped /\ T[i].prepared = o[i].prepared
             /\ T[i] \in InstanceOf(DOMAIN o) /\ i.row \in Rows
    <2>1. o[i] \in InstanceOf(DOMAIN o) /\ i.row \in Rows /\ new(i) \subseteq Rels
        BY <1>2 DEF Sound, Typed, InstanceOf
    <2>2. T[i] = [o[i] EXCEPT !.trusted = o[i].trusted \cup new(i)]
        BY <1>4
    <2>3. o[i].trusted \cup new(i) \subseteq Rels
        BY <2>1 DEF InstanceOf
    <2> QED
        BY <2>1, <2>2, <2>3 DEF InstanceOf
<1>6. Typed(T)
    BY <1>1, <1>5 DEF Typed
<1>7. \A i \in DOMAIN o : SoundAt(T, i)
    BY <1>2, <1>5 DEF Sound, SoundAt, Exact
<1>8. Backed(T)
    BY <1>1, <1>2, <1>5 DEF Backed
<1>9. \A m : Numbered(o, m) => Numbered(T, m)
    BY <1>1, <1>5 DEF Numbered
<1> QED
    BY <1>1, <1>3, <1>5, <1>6, <1>7, <1>8, <1>9 DEF Sound, T
-----------------------------------------------------------------------------
(* The jobs of a load.                                                     *)

SelFits(sel) == DOMAIN sel \subseteq Rels /\ \A rel \in DOMAIN sel : sel[rel] \subseteq Rels

LEMMA JobFits ==
    ASSUME NEW o, NEW i \in DOMAIN o, NEW rel \in Rels, NEW n \in Nat
    PROVE  /\ Job(i, rel, <<n>>) \in JobsOf(o, n)
           /\ \A up \in Rels : Job(i, rel, <<n, up>>) \in JobsOf(o, n)
<1>1. /\ <<n>> \in Vias /\ Len(<<n>>) = 1 /\ <<n>>[1] = n
    BY DEF Vias
<1>2. ASSUME NEW up \in Rels
      PROVE  <<n, up>> \in Vias /\ Len(<<n, up>>) = 2 /\ <<n, up>>[1] = n
    <2>1. n \in Nat \cup Rels /\ up \in Nat \cup Rels
        OBVIOUS
    <2> QED
        BY <2>1 DEF Vias
<1> QED
    BY <1>1, <1>2 DEF Job, Jobs, JobsOf

LEMMA RootJobsFit ==
    ASSUME NEW o, NEW I \in SUBSET DOMAIN o, NEW rels \in SUBSET Rels, NEW n \in Nat
    PROVE  /\ RootJobs(I, rels, n) \subseteq JobsOf(o, n)
           /\ \A i, rel : HasJob(RootJobs(I, rels, n), i, rel) <=> i \in I /\ rel \in rels
<1>1. ASSUME NEW i \in I, NEW rel \in rels
      PROVE  Job(i, rel, <<n>>) \in JobsOf(o, n) /\ Job(i, rel, <<n>>) \in RootJobs(I, rels, n)
    BY JobFits DEF RootJobs
<1>2. \A j \in RootJobs(I, rels, n) :
          \E i \in I, rel \in rels : j = Job(i, rel, <<n>>)
    BY DEF RootJobs
<1>3. \A i, rel, via : /\ Job(i, rel, via).onto = i
                       /\ Job(i, rel, via).rel = rel /\ Job(i, rel, via).via = via
    BY DEF Job
<1>4. RootJobs(I, rels, n) \subseteq JobsOf(o, n)
    BY <1>1, <1>2
<1>5. \A i, rel : HasJob(RootJobs(I, rels, n), i, rel) => i \in I /\ rel \in rels
    BY <1>2, <1>3 DEF HasJob
<1>6. \A i \in I, rel \in rels : HasJob(RootJobs(I, rels, n), i, rel)
    BY <1>1, <1>3 DEF HasJob
<1> QED
    BY <1>4, <1>5, <1>6

IsBelow(o, I, sel, k, rel2) ==
    \E i \in I, rel \in DOMAIN sel : k \in o[i].cache[rel] /\ rel2 \in sel[rel]

LEMMA UnderJobsFit ==
    ASSUME NEW o, Typed(o), NEW I \in SUBSET DOMAIN o, NEW sel, SelFits(sel), NEW n \in Nat
    PROVE  /\ UnderJobs(o, I, sel, n) \subseteq JobsOf(o, n)
           /\ \A k, rel2 : HasJob(UnderJobs(o, I, sel, n), k, rel2) <=>
                             IsBelow(o, I, sel, k, rel2)
<1> DEFINE U == UnderJobs(o, I, sel, n)
           S(i, rel) == {Job(k, rel2, <<n, rel>>) : k \in o[i].cache[rel], rel2 \in sel[rel]}
<1>1. \A j : j \in U <=> \E i \in I, rel \in DOMAIN sel : j \in S(i, rel)
    <2>1. U = UNION {S(i, rel) : i \in I, rel \in DOMAIN sel}
        BY DEF UnderJobs
    <2> HIDE DEF U, S
    <2> QED
        BY <2>1
<1>2. \A i, rel, j : j \in S(i, rel) <=>
          \E k \in o[i].cache[rel], rel2 \in sel[rel] : j = Job(k, rel2, <<n, rel>>)
    OBVIOUS
<1> HIDE DEF U, S
<1>3. \A i, rel, via : /\ Job(i, rel, via).onto = i
                       /\ Job(i, rel, via).rel = rel /\ Job(i, rel, via).via = via
    BY DEF Job
<1>4. ASSUME NEW i \in I, NEW rel \in DOMAIN sel, NEW k \in o[i].cache[rel], NEW rel2 \in sel[rel]
      PROVE  Job(k, rel2, <<n, rel>>) \in JobsOf(o, n) /\ Job(k, rel2, <<n, rel>>) \in U
    <2>1. rel \in Rels /\ rel2 \in Rels
        BY DEF SelFits
    <2>2. k \in DOMAIN o
        BY <2>1 DEF Typed, InstanceOf
    <2>3. Job(k, rel2, <<n, rel>>) \in U
        BY <1>1, <1>2
    <2> QED
        BY <2>1, <2>2, <2>3, JobFits
<1>5. ASSUME NEW j \in U
      PROVE  \E i \in I, rel \in DOMAIN sel :
                 \E k \in o[i].cache[rel], rel2 \in sel[rel] : j = Job(k, rel2, <<n, rel>>)
    BY <1>1, <1>2
<1>6. U \subseteq JobsOf(o, n)
    <2> SUFFICES ASSUME NEW j \in U PROVE j \in JobsOf(o, n)
        OBVIOUS
    <2>1. PICK i \in I, rel \in DOMAIN sel :
              \E k \in o[i].cache[rel], rel2 \in sel[rel] : j = Job(k, rel2, <<n, rel>>)
        BY <1>5
    <2> QED
        BY <1>4, <2>1
<1>7. ASSUME NEW k, NEW rel2, HasJob(U, k, rel2)
      PROVE  \E i \in I, rel \in DOMAIN sel : k \in o[i].cache[rel] /\ rel2 \in sel[rel]
    <2>1. PICK j \in U : j.onto = k /\ j.rel = rel2
        BY <1>7 DEF HasJob
    <2>2. PICK i \in I, rel \in DOMAIN sel :
              \E h \in o[i].cache[rel], r2 \in sel[rel] : j = Job(h, r2, <<n, rel>>)
        BY <1>5
    <2>3. k \in o[i].cache[rel] /\ rel2 \in sel[rel]
        BY <1>3, <2>1, <2>2
    <2> QED
        BY <2>3
<1>8. ASSUME NEW k, NEW rel2, NEW i \in I, NEW rel \in DOMAIN sel,
             k \in o[i].cache[rel], rel2 \in sel[rel]
      PROVE  HasJob(U, k, rel2)
    <2>1. Job(k, rel2, <<n, rel>>) \in U
        BY <1>4, <1>8
    <2> QED
        BY <1>3, <2>1 DEF HasJob
<1> QED
    BY <1>6, <1>7, <1>8 DEF U, IsBelow

-----------------------------------------------------------------------------
(* SQLAlchemy.                                                             *)

LEMMA WithGrew ==
    ASSUME NEW o, Typed(o), NEW I, \A i \in I : i.row \in Rows
    PROVE  Grew(o, With(o, I))
<1>1. /\ DOMAIN With(o, I) = DOMAIN o \cup I
      /\ \A i \in DOMAIN o : With(o, I)[i] = o[i]
      /\ \A i \in I \ DOMAIN o : With(o, I)[i] = Blank
    BY WithIs
<1> QED
    BY <1>1, BlankFacts DEF Grew

\* The loads keep what is known of the instances; when they all read with the
\* scope, what was not loaded before is what the scope says.
LEMMA SaLoadsSound ==
    ASSUME NEW o, Sound(o), Backed(o), NEW I \in SUBSET DOMAIN o,
           NEW sel, SelFits(sel), NEW own \in SUBSET Rels,
           NEW got, GotFits(got), NEW n \in Nat
    PROVE  LET L == SaRelationLoads(o, I, sel, own, got, n)
           IN  /\ Sound(L) /\ Backed(L) /\ DOMAIN o \subseteq DOMAIN L
               /\ got = ScopedReads => Grew(o, L)
<1> DEFINE roots == Missing(o, RootJobs(I, DOMAIN sel \cup own, n))
           o1 == Fill(o, roots, got)
           ran == {j \in roots : j.rel \in DOMAIN sel}
           under == UNION {{Job(k, rel2, <<n, j.rel>>) :
                            k \in o1[j.onto].cache[j.rel], rel2 \in sel[j.rel]} : j \in ran}
           L == Fill(o1, Missing(o1, under), ScopedReads)
<1>1. /\ RootJobs(I, DOMAIN sel \cup own, n) \subseteq JobsOf(o, n)
      /\ Typed(o)
    BY RootJobsFit DEF SelFits, Sound
<1>2. /\ roots \subseteq Jobs(o)
      /\ \A j \in roots : j.rel \notin o[j.onto].loaded
    BY <1>1 DEF Missing, JobsOf
<1> HIDE DEF roots
<1>3. Filled(o, o1, roots, got)
    BY <1>1, <1>2, FillIs
<1>4. \A j \in roots : j.rel \notin o[j.onto].trusted
    BY <1>2 DEF Backed, Jobs
<1>5. Sound(o1) /\ Backed(o1) /\ DOMAIN o \subseteq DOMAIN o1
    <2>1. Sound(o1)
        BY <1>1, <1>2, <1>4, FillSound
    <2>2. Backed(o1)
        BY <1>3, FillBacked
    <2>3. DOMAIN o \subseteq DOMAIN o1
        BY <1>3 DEF Filled
    <2> QED
        BY <2>1, <2>2, <2>3
<1>6. got = ScopedReads => Grew(o, o1)
    BY <1>1, ScopedFill DEF roots
<1> HIDE DEF o1
<1>7. under \subseteq JobsOf(o1, n)
    <2> DEFINE S(j) == {Job(k, rel2, <<n, j.rel>>) :
                            k \in o1[j.onto].cache[j.rel], rel2 \in sel[j.rel]}
    <2>0. SUFFICES ASSUME NEW j \in ran PROVE S(j) \subseteq JobsOf(o1, n)
        <3>1. under = UNION {S(j) : j \in ran}
            OBVIOUS
        <3> HIDE DEF S, under, ran
        <3> QED
            BY <3>1
    <2> SUFFICES ASSUME NEW k \in o1[j.onto].cache[j.rel], NEW rel2 \in sel[j.rel]
                 PROVE  Job(k, rel2, <<n, j.rel>>) \in JobsOf(o1, n)
        OBVIOUS
    <2>1. j.rel \in Rels /\ rel2 \in Rels /\ j.onto \in DOMAIN o1
        BY <1>2, <1>5 DEF SelFits, Jobs
    <2>2. k \in DOMAIN o1
        BY <1>5, <2>1 DEF Sound, Typed, InstanceOf
    <2> QED
        BY <2>1, <2>2, JobFits
<1> HIDE DEF under
<1>8. Grew(o1, L) /\ Sound(L) /\ Backed(L)
    BY <1>5, <1>7, ScopedFill
<1>9. SaRelationLoads(o, I, sel, own, got, n) = L
    BY DEF SaRelationLoads, L, under, ran, o1, roots
<1>10. DOMAIN o \subseteq DOMAIN L
    BY <1>5, <1>8 DEF Grew
<1>11. got = ScopedReads => Grew(o, L)
    BY <1>6, <1>8, GrewTwice
<1> HIDE DEF L
<1> QED
    BY <1>8, <1>9, <1>10, <1>11

\* Marking what the snapshot says has been loaded since marks only what was
\* read with the scope.
LEMMA SaMarksSound ==
    ASSUME NEW o, NEW L, Sound(L), Backed(L), Grew(o, L), NEW names \in SUBSET Rels
    PROVE  LET M == SaMarkScopedEdges(L, names, SaUnloadedSnapshot(o))
           IN  Sound(M) /\ Backed(M) /\ DOMAIN M = DOMAIN L
<1> DEFINE before == SaUnloadedSnapshot(o)
           edges == {e \in (DOMAIN L) \X names :
                       /\ e[2] \in L[e[1]].loaded
                       /\ e[1] \in DOMAIN before => e[2] \in before[e[1]]}
<1>1. /\ DOMAIN before = DOMAIN o
      /\ \A i \in DOMAIN o : before[i] = Rels \ o[i].loaded
    BY DEF SaUnloadedSnapshot
<1> HIDE DEF before
<1>2. ASSUME NEW e \in edges
      PROVE  e[1] \in DOMAIN L /\ e[2] \in L[e[1]].loaded /\ Exact(L, e[1], e[2])
    <2>1. /\ e[1] \in DOMAIN L /\ e[2] \in L[e[1]].loaded
          /\ e[1] \in DOMAIN before => e[2] \in before[e[1]]
        OBVIOUS
    <2>2. ~ (e[1] \in DOMAIN o /\ e[2] \in o[e[1]].loaded)
        BY <1>1, <2>1
    <2> QED
        BY <2>1, <2>2 DEF Grew
<1>3. SaMarkScopedEdges(L, names, before) = Trust(L, edges)
    BY DEF SaMarkScopedEdges
<1> HIDE DEF edges
<1>4. Sound(Trust(L, edges)) /\ Backed(Trust(L, edges)) /\ DOMAIN Trust(L, edges) = DOMAIN L
    BY <1>2, TrustIs
<1> QED
    BY <1>3, <1>4 DEF before
\* What SQLAlchemy's two loaders make of the instances is sound.
LEMMA SaSound ==
    ASSUME NEW o, Sound(o), Backed(o), NEW I, \A i \in I : i.row \in Rows,
           NEW sel, SelFits(sel), NEW own \in SUBSET Rels, NEW won, NEW n \in Nat
    PROVE  /\ LET A == SaApplyHints(o, I, sel, own, won, n)
              IN  Sound(A) /\ Backed(A) /\ DOMAIN o \cup I \subseteq DOMAIN A
           /\ I \subseteq DOMAIN o =>
                 LET M == SaLoadRelations(o, I, sel, n)
                 IN  Sound(M) /\ Backed(M) /\ DOMAIN o \subseteq DOMAIN M
<1> DEFINE got == [rel \in Rels |->
                      IF rel \in own /\ (rel \notin DOMAIN sel \/ rel \in won)
                      THEN Links[rel] ELSE ScopedReads[rel]]
           W == With(o, I)
           o1 == SaRelationLoads(W, I, sel, own, got, n)
           names == SaScopedNames(sel)
<1>1. /\ GotFits(got)
      /\ own = {} => got = ScopedReads
    <2>1. \A rel \in Rels : got[rel] \in {Links[rel], ScopedReads[rel]}
        OBVIOUS
    <2>2. GotFits(got)
        BY <2>1, ReadsFit DEF GotFits
    <2>3. own = {} => got = ScopedReads
        BY DEF ScopedReads
    <2> QED
        BY <2>2, <2>3
<1> HIDE DEF got
<1>2. Typed(o) /\ names \in SUBSET Rels
    BY DEF Sound, SaScopedNames, Planned, SelFits
<1>3. Sound(W) /\ Backed(W) /\ DOMAIN W = DOMAIN o \cup I /\ Grew(o, W)
    BY <1>2, WithSound, WithIs, WithGrew
<1> HIDE DEF W, names
<1>4. /\ Sound(o1) /\ Backed(o1) /\ DOMAIN W \subseteq DOMAIN o1
      /\ got = ScopedReads => Grew(W, o1)
    BY <1>1, <1>3, SaLoadsSound
<1>5. own = {} => Grew(o, o1)
    BY <1>1, <1>3, <1>4, GrewTwice
<1> HIDE DEF o1
<1>6. own = {} => LET M == SaMarkScopedEdges(o1, names, SaUnloadedSnapshot(o))
                  IN  Sound(M) /\ Backed(M) /\ DOMAIN M = DOMAIN o1
    BY <1>2, <1>4, <1>5, SaMarksSound
<1>7. SaApplyHints(o, I, sel, own, won, n) =
          IF own # {} THEN o1
          ELSE SaMarkScopedEdges(o1, names, SaUnloadedSnapshot(o))
    BY DEF SaApplyHints, o1, names, W, got
<1>8. ASSUME I \subseteq DOMAIN o
      PROVE  LET M == SaLoadRelations(o, I, sel, n)
             IN  Sound(M) /\ Backed(M) /\ DOMAIN o \subseteq DOMAIN M
    <2> DEFINE L == SaRelationLoads(o, I, sel, {}, ScopedReads, n)
    <2>1. Sound(L) /\ Backed(L) /\ DOMAIN o \subseteq DOMAIN L /\ Grew(o, L)
        BY <1>8, ReadsFit, SaLoadsSound
    <2> HIDE DEF L
    <2>2. LET M == SaMarkScopedEdges(L, names, SaUnloadedSnapshot(o))
          IN  Sound(M) /\ Backed(M) /\ DOMAIN M = DOMAIN L
        BY <1>2, <2>1, SaMarksSound
    <2> QED
        BY <2>1, <2>2 DEF SaLoadRelations, L, names
<1> QED
    BY <1>3, <1>4, <1>6, <1>7, <1>8

\* A scoped edge is a selected relation of a root, or of a row below it.
LEMMA EdgesAre ==
    ASSUME NEW o, NEW I, NEW sel, SelFits(sel), NEW e
    PROVE  e \in ScopedEdges(o, I, sel) <=>
             \/ \E i \in I, rel \in DOMAIN sel : Restricted(rel) /\ e = <<i, rel>>
             \/ \E i \in I, rel \in DOMAIN sel : \E k \in o[i].cache[rel], rel2 \in sel[rel] :
                   Restricted(rel2) /\ e = <<k, rel2>>
<1> DEFINE top == {<<i, rel>> : i \in I, rel \in DOMAIN sel \cap {r \in Rels : Restricted(r)}}
           S(i, rel) == {<<k, rel2>> : k \in o[i].cache[rel],
                                       rel2 \in sel[rel] \cap {r \in Rels : Restricted(r)}}
<1>1. e \in top <=> \E i \in I, rel \in DOMAIN sel : Restricted(rel) /\ e = <<i, rel>>
    BY DEF SelFits
<1>2. ASSUME NEW i \in I, NEW rel \in DOMAIN sel
      PROVE  e \in S(i, rel) <=> \E k \in o[i].cache[rel], rel2 \in sel[rel] :
                                   Restricted(rel2) /\ e = <<k, rel2>>
    BY DEF SelFits
<1>3. ScopedEdges(o, I, sel) = top \cup UNION {S(i, rel) : i \in I, rel \in DOMAIN sel}
    BY DEF ScopedEdges
<1> HIDE DEF top, S
<1>4. e \in ScopedEdges(o, I, sel) <=>
          e \in top \/ \E i \in I, rel \in DOMAIN sel : e \in S(i, rel)
    BY <1>3
<1> QED
    BY <1>1, <1>2, <1>4

-----------------------------------------------------------------------------
(* Django.                                                                 *)

\* The instances made below other ones by load n.
Below(k, n) == k.via[1] = n /\ Len(k.via) >= 2

\* What the prefetches of load n have to find where they are going to mark: no
\* cache of the relation, or one whose rows are new themselves.
ScopedBelow(sel, rel) == \E rel2 \in sel[rel] : Restricted(rel2)
DjReady(o, I, sel, n) ==
    \A i \in I, rel \in DOMAIN sel :
        /\ Restricted(rel) => rel \notin o[i].loaded
        /\ ScopedBelow(sel, rel) /\ rel \in o[i].loaded =>
              \A k \in o[i].cache[rel] : Below(k, n)
NewBelow(o, n) == \A k \in DOMAIN o : Below(k, n) => o[k].loaded = {}
BackedBut(o, I, rels) ==
    \A i \in DOMAIN o : \A rel \in o[i].trusted : rel \in o[i].loaded \/ (i \in I /\ rel \in rels)

LEMMA DjLookupsSound ==
    ASSUME env.backend = "django", NEW n \in Nat,
           NEW o, Sound(o), Numbered(o, n), NewBelow(o, n),
           NEW I \in SUBSET DOMAIN o, \A i \in I : ~ Below(i, n),
           NEW sel, SelFits(sel), BackedBut(o, I, DOMAIN sel), DjReady(o, I, sel, n)
    PROVE  LET L == DjRelationLookups(o, I, sel, n)
           IN  /\ Sound(L) /\ Backed(L) /\ Numbered(L, n) /\ DOMAIN o \subseteq DOMAIN L
               /\ \A e \in ScopedEdges(L, I, sel) :
                     e[1] \in DOMAIN L /\ e[2] \in L[e[1]].loaded /\ Exact(L, e[1], e[2])
<1> DEFINE jobs == RootJobs(I, DOMAIN sel, n)
           o1 == Fill(o, Missing(o, jobs), ScopedReads)
           under == UnderJobs(o1, I, sel, n)
           L == Fill(o1, Missing(o1, under), ScopedReads)
<1>1. /\ jobs \subseteq JobsOf(o, n)
      /\ \A i, rel : HasJob(jobs, i, rel) <=> i \in I /\ rel \in DOMAIN sel
    BY RootJobsFit DEF SelFits
<1> HIDE DEF jobs
<1>2. /\ Filled(o, o1, Missing(o, jobs), ScopedReads)
      /\ Grew(o, o1) /\ Sound(o1) /\ Numbered(o1, n)
    BY <1>1, ScopedFill
<1>3. ASSUME NEW i \in DOMAIN o, NEW rel \in Rels
      PROVE  HasJob(Missing(o, jobs), i, rel) <=>
                 i \in I /\ rel \in DOMAIN sel /\ rel \notin o[i].loaded
    <2>1. HasJob(Missing(o, jobs), i, rel) <=> HasJob(jobs, i, rel) /\ rel \notin o[i].loaded
        BY DEF HasJob, Missing
    <2> QED
        BY <1>1, <2>1
<1>4. \A i \in I, rel \in DOMAIN sel : rel \in o1[i].loaded
    BY <1>2, <1>3 DEF Filled, SelFits
<1>5. Backed(o1)
    <2>1. ASSUME NEW i \in DOMAIN o1, NEW rel \in o1[i].trusted
          PROVE  rel \in o1[i].loaded
        <3>1. i \in DOMAIN o /\ rel \in o[i].trusted /\ o[i].loaded \subseteq o1[i].loaded
            BY <1>2, <2>1 DEF Grew
        <3> QED
            BY <1>4, <3>1 DEF BackedBut
    <2> QED
        BY <2>1 DEF Backed
<1>6. ASSUME NEW i \in I, NEW rel \in DOMAIN sel, ScopedBelow(sel, rel),
             NEW k \in o1[i].cache[rel]
      PROVE  Below(k, n) /\ k \in DOMAIN o1 /\ o1[k].loaded = {}
    <2>1. i \in DOMAIN o /\ i \in DOMAIN o1 /\ rel \in Rels
        BY <1>2 DEF SelFits, Grew
    <2>2. k \in DOMAIN o1
        BY <1>2, <2>1 DEF Sound, Typed, InstanceOf
    <2>3. Below(k, n)
        <3>1. CASE rel \in o[i].loaded
            <4>1. o1[i].cache[rel] = o[i].cache[rel]
                BY <1>2, <2>1, <3>1 DEF Grew
            <4> QED
                BY <1>6, <3>1, <4>1 DEF DjReady
        <3>2. CASE rel \notin o[i].loaded
            <4>1. HasJob(Missing(o, jobs), i, rel)
                BY <1>3, <2>1, <3>2
            <4>2. PICK j \in Missing(o, jobs) : j.onto = i /\ j.rel = rel /\ MadeBy(k, j)
                BY <1>2, <2>1, <4>1 DEF Filled
            <4>3. j \in jobs
                BY DEF Missing
            <4>4. j.via \in Vias /\ j.rel \in Rels /\ Len(j.via) >= 1 /\ j.via[1] = n
                BY <1>1, <4>3 DEF JobsOf, Jobs
            <4>5. k.via \in Vias /\ Len(k.via) = Len(j.via) + 1 /\ k.via[1] = n
                BY <4>2, <4>4, MadeByFacts
            <4>6. Len(j.via) \in Nat
                BY <4>4 DEF Vias
            <4> QED
                BY <4>4, <4>5, <4>6 DEF Below
        <3> QED
            BY <3>1, <3>2
    <2>4. CASE k \in DOMAIN o
        <3>1. o[k].loaded = {} /\ k \notin I
            BY <2>3, <2>4 DEF NewBelow
        <3>2. o1[k].loaded = o[k].loaded \cup {r \in Rels : HasJob(Missing(o, jobs), k, r)}
            BY <1>2, <2>4 DEF Filled
        <3> QED
            BY <1>3, <2>2, <2>3, <2>4, <3>1, <3>2
    <2>5. CASE k \notin DOMAIN o
        <3>1. o1[k] = Blank
            BY <1>2, <2>2, <2>5 DEF Filled
        <3> QED
            BY <2>2, <2>3, <3>1, BlankFacts
    <2> QED
        BY <2>4, <2>5
<1>7. I \in SUBSET DOMAIN o1 /\ Typed(o1)
    BY <1>2 DEF Grew, Sound
<1> HIDE DEF o1
<1>8. /\ under \subseteq JobsOf(o1, n)
      /\ \A k, rel2 : HasJob(under, k, rel2) <=> IsBelow(o1, I, sel, k, rel2)
    BY <1>7, UnderJobsFit
<1> HIDE DEF under
<1>9. /\ Filled(o1, L, Missing(o1, under), ScopedReads)
      /\ Grew(o1, L) /\ Sound(L) /\ Backed(L) /\ Numbered(L, n)
    BY <1>2, <1>5, <1>8, ScopedFill
<1> HIDE DEF L
<1>10. \A i \in I, rel \in DOMAIN sel : L[i].cache[rel] = o1[i].cache[rel] /\ rel \in L[i].loaded
    BY <1>4, <1>7, <1>9 DEF Grew
<1>11. ASSUME NEW i \in I, NEW rel \in DOMAIN sel, Restricted(rel)
       PROVE  i \in DOMAIN L /\ rel \in L[i].loaded /\ Exact(L, i, rel)
    <2>1. rel \notin o[i].loaded
        BY <1>11 DEF DjReady
    <2>2. Exact(o1, i, rel)
        BY <1>2, <1>4, <1>7, <2>1 DEF Grew
    <2> QED
        BY <1>7, <1>9, <1>10, <2>2 DEF Grew, Exact
<1>12. ASSUME NEW i \in I, NEW rel \in DOMAIN sel, NEW k \in L[i].cache[rel],
              NEW rel2 \in sel[rel], Restricted(rel2)
       PROVE  k \in DOMAIN L /\ rel2 \in L[k].loaded /\ Exact(L, k, rel2)
    <2>1. ScopedBelow(sel, rel) /\ k \in o1[i].cache[rel] /\ rel2 \in Rels
        BY <1>10, <1>12 DEF ScopedBelow, SelFits
    <2>2. k \in DOMAIN o1 /\ o1[k].loaded = {}
        BY <1>6, <2>1
    <2>3. HasJob(Missing(o1, under), k, rel2)
        <3>1. HasJob(under, k, rel2)
            BY <1>8, <2>1 DEF IsBelow
        <3> QED
            BY <2>2, <3>1 DEF HasJob, Missing
    <2>4. k \in DOMAIN L /\ rel2 \in L[k].loaded
        BY <1>9, <2>1, <2>2, <2>3 DEF Filled
    <2> QED
        BY <1>9, <2>2, <2>4 DEF Grew
<1>13. \A e \in ScopedEdges(L, I, sel) :
           e[1] \in DOMAIN L /\ e[2] \in L[e[1]].loaded /\ Exact(L, e[1], e[2])
    <2> SUFFICES ASSUME NEW e \in ScopedEdges(L, I, sel)
                 PROVE  e[1] \in DOMAIN L /\ e[2] \in L[e[1]].loaded /\ Exact(L, e[1], e[2])
        OBVIOUS
    <2> QED
        BY <1>11, <1>12, EdgesAre
<1> QED
    BY <1>9, <1>13, <1>2, <1>7 DEF DjRelationLookups, L, under, o1, jobs, Grew
\* Instances a load reads itself are new, and it can only have loaded onto them
\* what it was told to.
Same(o, o2, i) ==
    /\ o2[i].loaded = o[i].loaded /\ o2[i].trusted = o[i].trusted
    /\ \A rel \in Rels : o2[i].cache[rel] = o[i].cache[rel]

After(n, m) == n = m + 1
RootsOf(I, n) == \A i \in I : i.row \in Rows /\ i.via = <<n>>

LEMMA NewRoots ==
    ASSUME env.backend # "sqlalchemy", NEW m \in Nat, NEW n \in Nat, After(n, m),
           NEW o, Sound(o), Backed(o), Numbered(o, m),
           NEW I, RootsOf(I, n)
    PROVE  LET W == With(o, I)
           IN  /\ Sound(W) /\ Backed(W) /\ Numbered(W, n) /\ DOMAIN W = DOMAIN o \cup I
               /\ \A i \in I : /\ i \notin DOMAIN o /\ W[i] = Blank
                               /\ Len(i.via) = 1 /\ ~ Below(i, n)
               /\ \A i \in DOMAIN o : W[i] = o[i] /\ i.via[1] # n /\ ~ Below(i, n)
<1> DEFINE W == With(o, I)
           v == <<n>>
<1>1. /\ DOMAIN W = DOMAIN o \cup I
      /\ \A i \in DOMAIN o : W[i] = o[i]
      /\ \A i \in I \ DOMAIN o : W[i] = Blank
    BY WithIs DEF Sound, RootsOf
<1>2. Sound(W) /\ Backed(W)
    BY WithSound DEF RootsOf
<1> HIDE DEF W
<1>3. v \in Vias /\ Len(v) = 1 /\ v[1] = n /\ \A i \in I : i.via = v
    BY DEF Vias, RootsOf
<1> HIDE DEF v
<1>4. \A i \in DOMAIN o : i.via \in Vias /\ Len(i.via) >= 1 /\ i.via[1] \in 0 .. m
    BY DEF Numbered
<1>5. \A i \in DOMAIN o : i.via[1] # n /\ i.via[1] \in 0 .. n
    BY <1>4 DEF After
<1>6. \A i \in I : i \notin DOMAIN o
    BY <1>3, <1>5
<1>7. \A i \in DOMAIN W : i.via \in Vias /\ Len(i.via) >= 1 /\ i.via[1] \in 0 .. n
    BY <1>1, <1>3, <1>4, <1>5
<1>8. \A i \in DOMAIN W, rel \in Rels : \A k \in W[i].cache[rel] : Len(k.via) >= 2
    BY <1>1, BlankFacts DEF Numbered
<1>9. Numbered(W, n)
    BY <1>7, <1>8 DEF Numbered
<1>10. \A i \in I : Len(i.via) = 1 /\ ~ Below(i, n)
    <2> SUFFICES ASSUME NEW i \in I PROVE Len(i.via) = 1 /\ ~ (Len(i.via) >= 2)
        BY DEF Below
    <2>1. Len(i.via) = 1
        BY <1>3
    <2> QED
        BY <2>1
<1>11. \A i \in DOMAIN o : ~ Below(i, n)
    BY <1>5 DEF Below
<1> QED
    BY <1>1, <1>2, <1>5, <1>6, <1>9, <1>10, <1>11 DEF W

\* Relations that no mark speaks of may be read without a scope.
LEMMA MissingFill ==
    ASSUME NEW o, Sound(o), Backed(o), NEW n \in Nat, NEW jobs, jobs \subseteq JobsOf(o, n),
           NEW got, GotFits(got)
    PROVE  LET F == Fill(o, Missing(o, jobs), got)
           IN  /\ Sound(F) /\ Backed(F) /\ DOMAIN o \subseteq DOMAIN F
               /\ Numbered(o, n) => Numbered(F, n)
<1> DEFINE some == Missing(o, jobs)
           F == Fill(o, some, got)
<1>1. /\ some \subseteq JobsOf(o, n) /\ some \subseteq Jobs(o)
      /\ \A j \in some : j.rel \notin o[j.onto].loaded /\ j.onto \in DOMAIN o
    BY DEF Missing, JobsOf, Jobs
<1> HIDE DEF some
<1>2. Filled(o, F, some, got)
    BY <1>1, FillIs DEF Sound
<1>3. Sound(F)
    BY <1>1, FillSound DEF Backed
<1> HIDE DEF F
<1>4. Backed(F)
    BY <1>2, FillBacked
<1>5. Numbered(o, n) => Numbered(F, n)
    BY <1>1, <1>2, FillNumbered
<1>6. DOMAIN o \subseteq DOMAIN F
    BY <1>2 DEF Filled
<1> QED
    BY <1>3, <1>4, <1>5, <1>6 DEF F, some

LEMMA OwnLoadsSound ==
    ASSUME env.backend # "sqlalchemy", NEW m \in Nat, NEW n \in Nat, After(n, m),
           NEW o, Sound(o), Backed(o), Numbered(o, m),
           NEW I, RootsOf(I, n), NEW own \in SUBSET Rels
    PROVE  LET F == Fill(With(o, I), RootJobs(I, own, n), Links)
           IN  /\ Sound(F) /\ Backed(F) /\ Numbered(F, n)
               /\ DOMAIN o \cup I \subseteq DOMAIN F
               /\ \A i \in I : /\ i \notin DOMAIN o /\ ~ Below(i, n) /\ Len(i.via) = 1
                               /\ F[i].loaded = own /\ F[i].trusted = {}
                               /\ \A rel \in own : \A k \in F[i].cache[rel] : Below(k, n)
               /\ \A i \in DOMAIN o : Same(o, F, i)
               /\ \A k \in DOMAIN F : Below(k, n) => F[k].loaded = {} /\ F[k].trusted = {}
<1> DEFINE W == With(o, I)
           jobs == RootJobs(I, own, n)
           F == Fill(W, jobs, Links)
<1>1. /\ Sound(W) /\ Backed(W) /\ Numbered(W, n) /\ DOMAIN W = DOMAIN o \cup I
      /\ \A i \in I : /\ i \notin DOMAIN o /\ W[i] = Blank
                      /\ Len(i.via) = 1 /\ ~ Below(i, n)
      /\ \A i \in DOMAIN o : W[i] = o[i] /\ i.via[1] # n /\ ~ Below(i, n)
    BY NewRoots
<1>2. I \in SUBSET DOMAIN W
    BY <1>1
<1> HIDE DEF W
<1>3. /\ jobs \subseteq JobsOf(W, n)
      /\ \A i, rel : HasJob(jobs, i, rel) <=> i \in I /\ rel \in own
    BY <1>2, RootJobsFit
<1>4. /\ jobs \subseteq Jobs(W) /\ Typed(W)
      /\ \A j \in jobs : j.onto \in I /\ j.rel \in Rels /\ j.via \in Vias
                         /\ Len(j.via) >= 1 /\ j.via[1] = n
    <2>1. \A j \in jobs : /\ j \in Jobs(W) /\ j.rel \in Rels /\ j.via \in Vias
                          /\ Len(j.via) >= 1 /\ j.via[1] = n
        BY <1>3 DEF JobsOf, Jobs
    <2>2. \A j \in jobs : j.onto \in I
        BY <1>3 DEF HasJob
    <2> QED
        BY <1>1, <2>1, <2>2 DEF Sound
<1>5. Filled(W, F, jobs, Links)
    BY <1>4, FillIs, ReadsFit
<1>6. Sound(F)
    <2>1. \A j \in jobs : j.rel \notin W[j.onto].trusted
        BY <1>1, <1>4, BlankFacts
    <2> QED
        BY <1>1, <1>4, <2>1, FillSound, ReadsFit
<1> HIDE DEF F, jobs
<1>7. Backed(F) /\ Numbered(F, n)
    BY <1>1, <1>2, <1>3, <1>5, FillBacked, FillNumbered
<1>8. \A k, j : j \in jobs /\ MadeBy(k, j) => Below(k, n)
    <2> SUFFICES ASSUME NEW k, NEW j \in jobs, MadeBy(k, j) PROVE Below(k, n)
        OBVIOUS
    <2>1. k.via \in Vias /\ Len(k.via) = Len(j.via) + 1 /\ k.via[1] = n
        BY <1>4, MadeByFacts
    <2>2. Len(j.via) \in Nat /\ Len(j.via) >= 1
        BY <1>4 DEF Vias
    <2> QED
        BY <2>1, <2>2 DEF Below
<1>9. ASSUME NEW i \in I
      PROVE  /\ F[i].loaded = own /\ F[i].trusted = {}
             /\ \A rel \in own : \A k \in F[i].cache[rel] : Below(k, n)
    <2>1. F[i].loaded = {} \cup {rel \in Rels : HasJob(jobs, i, rel)} /\ F[i].trusted = {}
        BY <1>1, <1>5, BlankFacts DEF Filled
    <2>2. F[i].loaded = own
        BY <1>3, <2>1
    <2>3. \A rel \in own : \A k \in F[i].cache[rel] : \E j \in jobs : MadeBy(k, j)
        BY <1>1, <1>3, <1>5 DEF Filled
    <2> QED
        BY <1>8, <2>1, <2>2, <2>3
<1>10. ASSUME NEW i \in DOMAIN o
       PROVE  Same(o, F, i)
    <2>1. i \in DOMAIN W /\ W[i] = o[i] /\ \A rel \in Rels : ~ HasJob(jobs, i, rel)
        BY <1>1, <1>3
    <2>2. F[i].loaded = o[i].loaded \cup {rel \in Rels : HasJob(jobs, i, rel)}
        BY <1>5, <2>1 DEF Filled
    <2>3. F[i].trusted = o[i].trusted /\ \A rel \in Rels : F[i].cache[rel] = o[i].cache[rel]
        BY <1>5, <2>1 DEF Filled
    <2> QED
        BY <2>1, <2>2, <2>3 DEF Same
<1>11. ASSUME NEW k \in DOMAIN F, Below(k, n)
       PROVE  F[k].loaded = {} /\ F[k].trusted = {}
    <2>1. k \notin DOMAIN W
        BY <1>1, <1>11
    <2> QED
        BY <1>5, <2>1, BlankFacts DEF Filled
<1>12. DOMAIN o \cup I \subseteq DOMAIN F
    BY <1>1, <1>5 DEF Filled
<1> QED
    BY <1>1, <1>6, <1>7, <1>9, <1>10, <1>11, <1>12 DEF F, jobs, W

\* What Django's two loaders make of the instances is sound.
LEMMA DjMarksSound ==
    ASSUME env.backend = "django", NEW n \in Nat,
           NEW o, Sound(o), Numbered(o, n), NewBelow(o, n),
           NEW I \in SUBSET DOMAIN o, \A i \in I : ~ Below(i, n),
           NEW sel, SelFits(sel), BackedBut(o, I, DOMAIN sel), DjReady(o, I, sel, n)
    PROVE  LET M == DjMarkScopedPrefetches(DjRelationLookups(o, I, sel, n), I, sel)
           IN  Sound(M) /\ Backed(M) /\ Numbered(M, n) /\ DOMAIN o \subseteq DOMAIN M
<1> DEFINE L == DjRelationLookups(o, I, sel, n)
           edges == ScopedEdges(L, I, sel)
<1>1. /\ Sound(L) /\ Backed(L) /\ Numbered(L, n) /\ DOMAIN o \subseteq DOMAIN L
      /\ \A e \in edges :
            e[1] \in DOMAIN L /\ e[2] \in L[e[1]].loaded /\ Exact(L, e[1], e[2])
    BY DjLookupsSound
<1>2. DjMarkScopedPrefetches(L, I, sel) = Trust(L, edges)
    BY DEF DjMarkScopedPrefetches
<1> HIDE DEF L, edges
<1>3. LET T == Trust(L, edges)
      IN  Sound(T) /\ Backed(T) /\ DOMAIN T = DOMAIN L /\ Numbered(T, n)
    BY <1>1, TrustIs
<1> QED
    BY <1>1, <1>2, <1>3 DEF L

LEMMA DjSound ==
    ASSUME env.backend = "django", NEW m \in Nat, NEW n \in Nat, After(n, m),
           NEW o, Sound(o), Backed(o), Numbered(o, m), NEW I, NEW sel, SelFits(sel)
    PROVE  /\ \A own \in SUBSET Rels :
                RootsOf(I, n) /\ ~ DjQueryFails(sel, own) =>
                 LET A == DjApplyHints(o, I, sel, own, n)
                 IN  Sound(A) /\ Backed(A) /\ Numbered(A, n) /\ DOMAIN o \cup I \subseteq DOMAIN A
           /\ I \subseteq DOMAIN o =>
                 LET M == DjLoadRelations(o, I, sel, n)
                 IN  Sound(M) /\ Backed(M) /\ Numbered(M, n) /\ DOMAIN o \subseteq DOMAIN M
<1> DEFINE heads == DjScopedHeads(sel)
<1>2. /\ \A rel \in DOMAIN sel : Restricted(rel) \/ ScopedBelow(sel, rel) => rel \in heads
      /\ heads \subseteq DOMAIN sel
    BY DEF DjScopedHeads, ScopedBelow
<1> HIDE DEF heads
<1>3. ASSUME NEW own \in SUBSET Rels, RootsOf(I, n),
             ~ DjQueryFails(sel, own)
      PROVE  LET A == DjApplyHints(o, I, sel, own, n)
             IN  Sound(A) /\ Backed(A) /\ Numbered(A, n) /\ DOMAIN o \cup I \subseteq DOMAIN A
    <2> DEFINE kept == own \ (ToOne \cap heads)
               F == Fill(With(o, I), RootJobs(I, kept, n), Links)
               A == DjMarkScopedPrefetches(DjRelationLookups(F, I, sel, n), I, sel)
    <2>0. kept \in SUBSET Rels
        OBVIOUS
    <2>2. \A rel \in kept \cap DOMAIN sel : ~ Restricted(rel)
        BY <1>2, <1>3 DEF DjQueryFails, Rels
    <2> HIDE DEF kept
    <2>1. /\ Sound(F) /\ Backed(F) /\ Numbered(F, n)
          /\ DOMAIN o \cup I \subseteq DOMAIN F
          /\ \A i \in I : /\ ~ Below(i, n)
                          /\ F[i].loaded = kept
                          /\ \A rel \in kept : \A k \in F[i].cache[rel] : Below(k, n)
          /\ \A k \in DOMAIN F : Below(k, n) => F[k].loaded = {}
        BY <1>3, <2>0, OwnLoadsSound
    <2> HIDE DEF F
    <2>3. DjReady(F, I, sel, n) /\ NewBelow(F, n) /\ BackedBut(F, I, DOMAIN sel)
        BY <2>1, <2>2 DEF DjReady, NewBelow, BackedBut, Backed
    <2>4. Sound(A) /\ Backed(A) /\ Numbered(A, n) /\ DOMAIN F \subseteq DOMAIN A
        BY <2>1, <2>3, DjMarksSound
    <2>5. DjApplyHints(o, I, sel, own, n) = A
        BY DEF DjApplyHints, F, kept, heads
    <2> HIDE DEF A
    <2> QED
        BY <2>1, <2>4, <2>5
<1>4. ASSUME I \subseteq DOMAIN o
      PROVE  LET M == DjLoadRelations(o, I, sel, n)
             IN  Sound(M) /\ Backed(M) /\ Numbered(M, n) /\ DOMAIN o \subseteq DOMAIN M
    <2> DEFINE C == DjClearCaches(o, I, heads)
               M == DjMarkScopedPrefetches(DjRelationLookups(C, I, sel, n), I, sel)
    <2>1. /\ DOMAIN C = DOMAIN o
          /\ \A i \in DOMAIN o : C[i] = IF i \in I THEN [o[i] EXCEPT !.loaded = @ \ heads] ELSE o[i]
        BY DEF DjClearCaches
    <2> HIDE DEF C
    <2>2. ASSUME NEW i \in DOMAIN o
          PROVE  /\ C[i].loaded = IF i \in I THEN o[i].loaded \ heads ELSE o[i].loaded
                 /\ C[i].cache = o[i].cache /\ C[i].trusted = o[i].trusted
                 /\ C[i].scoped = o[i].scoped /\ C[i].prepared = o[i].prepared
                 /\ C[i] \in InstanceOf(DOMAIN o) /\ i.row \in Rows
        <3>1. o[i] \in InstanceOf(DOMAIN o) /\ i.row \in Rows
            BY DEF Sound, Typed
        <3> QED
            BY <2>1, <3>1 DEF InstanceOf
    <2>3. Sound(C)
        BY <2>1, <2>2 DEF Sound, Typed, SoundAt, Exact
    <2>4. Numbered(C, n) /\ NewBelow(C, n) /\ \A i \in I : ~ Below(i, n)
        <3>1. \A i \in DOMAIN o : i.via \in Vias /\ Len(i.via) >= 1 /\ i.via[1] \in 0 .. m
            BY DEF Numbered
        <3>2. \A i \in DOMAIN o : i.via[1] # n /\ i.via[1] \in 0 .. n
            BY <3>1 DEF After
        <3>3. \A i \in DOMAIN C, rel \in Rels : \A k \in C[i].cache[rel] : Len(k.via) >= 2
            BY <2>1, <2>2 DEF Numbered
        <3>4. Numbered(C, n)
            BY <2>1, <3>1, <3>2, <3>3 DEF Numbered
        <3> QED
            BY <1>4, <2>1, <3>2, <3>4 DEF NewBelow, Below
    <2>5. BackedBut(C, I, DOMAIN sel)
        BY <1>2, <2>1, <2>2 DEF BackedBut, Backed
    <2>6. DjReady(C, I, sel, n)
        BY <1>2, <1>4, <2>2 DEF DjReady
    <2>7. Sound(M) /\ Backed(M) /\ Numbered(M, n) /\ DOMAIN C \subseteq DOMAIN M
        BY <1>4, <2>1, <2>3, <2>4, <2>5, <2>6, DjMarksSound
    <2>8. DjLoadRelations(o, I, sel, n) = M
        BY DEF DjLoadRelations, C, heads
    <2> HIDE DEF M
    <2> QED
        BY <2>1, <2>7, <2>8
<1> QED
    BY <1>3, <1>4
-----------------------------------------------------------------------------
(* Tortoise.                                                               *)

\* What a prefetch leaves for the scope of the forward relations to be applied
\* to: every selected relation, the backward ones as the scope says.
LoadedLike(o, i, rel) == rel \in o[i].loaded /\ (rel \in ToMany => Exact(o, i, rel))
Prefetched(o, I, sel) ==
    \A i \in I, rel \in DOMAIN sel :
        /\ LoadedLike(o, i, rel)
        /\ \A k \in o[i].cache[rel], rel2 \in sel[rel] : LoadedLike(o, k, rel2)

LEMMA MadeBelow ==
    ASSUME env.backend # "sqlalchemy", NEW o, NEW n \in Nat, NEW j \in JobsOf(o, n),
           NEW k, MadeBy(k, j)
    PROVE  Below(k, n)
<1>1. j.via \in Vias /\ j.rel \in Rels /\ Len(j.via) >= 1 /\ j.via[1] = n
    BY DEF JobsOf, Jobs
<1>2. k.via \in Vias /\ Len(k.via) = Len(j.via) + 1 /\ k.via[1] = n
    BY <1>1, MadeByFacts
<1>3. Len(j.via) \in Nat
    BY <1>1 DEF Vias
<1> QED
    BY <1>1, <1>2, <1>3 DEF Below

\* Reading unmarked relations with the forward ones whole.
LEMMA TtFill ==
    ASSUME env.backend # "sqlalchemy", NEW n \in Nat, NEW o, Sound(o), Backed(o), Numbered(o, n),
           NEW jobs, jobs \subseteq JobsOf(o, n),
           \A i \in DOMAIN o, rel \in Rels : HasJob(jobs, i, rel) => o[i].trusted = {}
    PROVE  LET F == Fill(o, jobs, TtPrefetched)
           IN  /\ Sound(F) /\ Backed(F) /\ Numbered(F, n) /\ DOMAIN o \subseteq DOMAIN F
               /\ \A i \in DOMAIN o, rel \in Rels :
                     HasJob(jobs, i, rel) =>
                         LoadedLike(F, i, rel) /\ \A k \in F[i].cache[rel] : Below(k, n)
               /\ \A i \in DOMAIN o : (\A rel \in Rels : ~ HasJob(jobs, i, rel)) => Same(o, F, i)
               /\ \A i \in DOMAIN o : F[i].trusted = o[i].trusted
               /\ \A k \in DOMAIN F \ DOMAIN o : F[k].trusted = {}
<1> DEFINE F == Fill(o, jobs, TtPrefetched)
<1>1. jobs \subseteq Jobs(o) /\ Typed(o) /\ GotFits(TtPrefetched)
    BY ReadsFit DEF JobsOf, Sound
<1>2. Filled(o, F, jobs, TtPrefetched)
    BY <1>1, FillIs
<1>3. \A j \in jobs : o[j.onto].trusted = {}
    BY <1>1 DEF HasJob, Jobs
<1>4. Sound(F)
    BY <1>1, <1>3, FillSound
<1> HIDE DEF F
<1>5. Backed(F) /\ Numbered(F, n)
    BY <1>2, FillBacked, FillNumbered
<1>6. ASSUME NEW i \in DOMAIN o, NEW rel \in Rels, HasJob(jobs, i, rel)
      PROVE  LoadedLike(F, i, rel) /\ \A k \in F[i].cache[rel] : Below(k, n)
    <2>1. /\ F[i].loaded = o[i].loaded \cup {r \in Rels : HasJob(jobs, i, r)}
          /\ RowsOf(F[i].cache[rel]) = TtPrefetched[rel][i.row]
          /\ \A k \in F[i].cache[rel] : \E j \in jobs : MadeBy(k, j)
        BY <1>2, <1>6 DEF Filled
    <2>2. rel \in ToMany => Exact(F, i, rel)
        <3>1. rel \in ToMany => TtPrefetched[rel] = ScopedReads[rel]
            BY RowsAssumption DEF TtPrefetched
        <3> QED
            BY <1>1, <2>1, <3>1, ReadAsFacts DEF Exact, Typed
    <2>3. \A k \in F[i].cache[rel] : Below(k, n)
        BY <2>1, MadeBelow
    <2> QED
        BY <1>6, <2>1, <2>2, <2>3 DEF LoadedLike
<1>7. ASSUME NEW i \in DOMAIN o, \A rel \in Rels : ~ HasJob(jobs, i, rel)
      PROVE  Same(o, F, i)
    <2>1. /\ F[i].loaded = o[i].loaded \cup {r \in Rels : HasJob(jobs, i, r)}
          /\ F[i].trusted = o[i].trusted
          /\ \A rel \in Rels : F[i].cache[rel] = o[i].cache[rel]
        BY <1>2, <1>7 DEF Filled
    <2> QED
        BY <1>7, <2>1 DEF Same
<1>8. /\ \A i \in DOMAIN o : F[i].trusted = o[i].trusted
      /\ \A k \in DOMAIN F \ DOMAIN o : F[k].trusted = {}
      /\ DOMAIN o \subseteq DOMAIN F
    BY <1>2, BlankFacts DEF Filled
<1> QED
    BY <1>4, <1>5, <1>6, <1>7, <1>8 DEF F

LEMMA TtPrefetchSound ==
    ASSUME env.backend = "tortoise", NEW n \in Nat, NEW o, Sound(o), Backed(o), Numbered(o, n),
           NEW I \in SUBSET DOMAIN o,
           \A i \in I : ~ Below(i, n) /\ o[i].trusted = {},
           \A k \in DOMAIN o : Below(k, n) => o[k].trusted = {},
           NEW sel, SelFits(sel)
    PROVE  LET P == TtPrefetchOnto(o, I, sel, n)
           IN  /\ Sound(P) /\ Backed(P) /\ Numbered(P, n) /\ DOMAIN o \subseteq DOMAIN P
               /\ Prefetched(P, I, sel)
               /\ \A i \in DOMAIN o \ I : ~ Below(i, n) => Same(o, P, i)
<1> DEFINE jobs == RootJobs(I, DOMAIN sel, n)
           o1 == Fill(o, jobs, TtPrefetched)
           under == UnderJobs(o1, I, sel, n)
           P == Fill(o1, under, TtPrefetched)
<1>1. /\ jobs \subseteq JobsOf(o, n)
      /\ \A i, rel : HasJob(jobs, i, rel) <=> i \in I /\ rel \in DOMAIN sel
    BY RootJobsFit DEF SelFits
<1> HIDE DEF jobs
<1>2. /\ Sound(o1) /\ Backed(o1) /\ Numbered(o1, n) /\ DOMAIN o \subseteq DOMAIN o1
      /\ \A i \in DOMAIN o, rel \in Rels :
            HasJob(jobs, i, rel) =>
                LoadedLike(o1, i, rel) /\ \A k \in o1[i].cache[rel] : Below(k, n)
      /\ \A i \in DOMAIN o : (\A rel \in Rels : ~ HasJob(jobs, i, rel)) => Same(o, o1, i)
      /\ \A i \in DOMAIN o : o1[i].trusted = o[i].trusted
      /\ \A k \in DOMAIN o1 \ DOMAIN o : o1[k].trusted = {}
    BY <1>1, TtFill
<1> HIDE DEF o1
<1>3. \A i \in I, rel \in DOMAIN sel :
          LoadedLike(o1, i, rel) /\ \A k \in o1[i].cache[rel] : Below(k, n)
    BY <1>1, <1>2 DEF SelFits
<1>4. \A k \in DOMAIN o1 : Below(k, n) => o1[k].trusted = {}
    BY <1>2
<1>5. Typed(o1) /\ I \in SUBSET DOMAIN o1
    BY <1>2 DEF Sound
<1>6. /\ under \subseteq JobsOf(o1, n)
      /\ \A k, rel2 : HasJob(under, k, rel2) <=> IsBelow(o1, I, sel, k, rel2)
    BY <1>5, UnderJobsFit
<1> HIDE DEF under
<1>7. \A k, rel2 : HasJob(under, k, rel2) => Below(k, n)
    BY <1>3, <1>6 DEF IsBelow
<1>8. /\ Sound(P) /\ Backed(P) /\ Numbered(P, n) /\ DOMAIN o1 \subseteq DOMAIN P
      /\ \A i \in DOMAIN o1, rel \in Rels : HasJob(under, i, rel) => LoadedLike(P, i, rel)
      /\ \A i \in DOMAIN o1 : (\A rel \in Rels : ~ HasJob(under, i, rel)) => Same(o1, P, i)
    BY <1>2, <1>4, <1>6, <1>7, TtFill
<1> HIDE DEF P
<1>9. \A i \in DOMAIN o1 : ~ Below(i, n) => Same(o1, P, i)
    BY <1>7, <1>8
<1>10. ASSUME NEW i \in I, NEW rel \in DOMAIN sel
       PROVE  /\ LoadedLike(P, i, rel)
              /\ \A k \in P[i].cache[rel], rel2 \in sel[rel] : LoadedLike(P, k, rel2)
    <2>1. Same(o1, P, i) /\ rel \in Rels
        BY <1>5, <1>9 DEF SelFits
    <2>2. LoadedLike(P, i, rel) /\ P[i].cache[rel] = o1[i].cache[rel]
        BY <1>3, <2>1 DEF Same, LoadedLike, Exact
    <2>3. ASSUME NEW k \in o1[i].cache[rel], NEW rel2 \in sel[rel]
          PROVE  LoadedLike(P, k, rel2)
        <3>1. HasJob(under, k, rel2) /\ rel2 \in Rels
            BY <1>6 DEF SelFits, IsBelow
        <3>2. k \in DOMAIN o1
            BY <1>5, <2>1 DEF Typed, InstanceOf
        <3> QED
            BY <1>8, <3>1, <3>2
    <2> QED
        BY <2>2, <2>3
<1>11. Prefetched(P, I, sel)
    BY <1>10 DEF Prefetched
<1>12. ASSUME NEW i \in DOMAIN o \ I, ~ Below(i, n)
       PROVE  Same(o, P, i)
    <2>1. Same(o, o1, i)
        BY <1>1, <1>2
    <2>2. Same(o1, P, i)
        BY <1>2, <1>9, <1>12
    <2> QED
        BY <2>1, <2>2 DEF Same
<1>13. TtPrefetchOnto(o, I, sel, n) = P
    BY DEF TtPrefetchOnto, P, under, o1, jobs
<1>14. DOMAIN o \subseteq DOMAIN P
    BY <1>2, <1>8
<1> QED
    BY <1>8, <1>11, <1>12, <1>13, <1>14
\* What a field that is between its prefetch and its marks relies on, or one
\* that is yet to prefetch: that others leave its rows as they are.
Spared(o, o2, I) ==
    /\ \A i \in DOMAIN o \ I : Len(i.via) = 1 => o2[i].trusted = o[i].trusted
    /\ \A J \in SUBSET (DOMAIN o \ I) : \A s :
          SelFits(s) /\ (\A i \in J : Len(i.via) = 1) /\ Prefetched(o, J, s)
              => Prefetched(o2, J, s)

LEMMA RootIsNotBelow == \A i : Len(i.via) = 1 => ~ (Len(i.via) >= 2)
OBVIOUS

LEMMA SameSpared ==
    ASSUME env.backend = "tortoise", NEW o, Typed(o), NEW m, Numbered(o, m), NEW I,
           \A i \in I : Len(i.via) = 1, NEW o2, \A i \in DOMAIN o \ I : Same(o, o2, i)
    PROVE  Spared(o, o2, I)
<1>1. ASSUME NEW J \in SUBSET (DOMAIN o \ I), NEW s, SelFits(s), Prefetched(o, J, s)
      PROVE  Prefetched(o2, J, s)
    <2>1. ASSUME NEW i \in DOMAIN o \ I, NEW rel \in Rels, LoadedLike(o, i, rel)
          PROVE  LoadedLike(o2, i, rel)
        BY <2>1 DEF Same, LoadedLike, Exact
    <2>2. ASSUME NEW i \in J, NEW rel \in DOMAIN s
          PROVE  /\ LoadedLike(o2, i, rel)
                 /\ \A k \in o2[i].cache[rel], rel2 \in s[rel] : LoadedLike(o2, k, rel2)
        <3>1. i \in DOMAIN o \ I /\ rel \in Rels /\ LoadedLike(o, i, rel)
            BY <1>1 DEF SelFits, Prefetched
        <3>2. o2[i].cache[rel] = o[i].cache[rel]
            BY <3>1 DEF Same
        <3>3. ASSUME NEW k \in o[i].cache[rel], NEW rel2 \in s[rel]
              PROVE  LoadedLike(o2, k, rel2)
            <4>1. k \in DOMAIN o /\ Len(k.via) >= 2
                BY <3>1 DEF Typed, InstanceOf, Numbered
            <4>2. k \notin I
                BY <4>1, RootIsNotBelow
            <4>3. LoadedLike(o, k, rel2) /\ rel2 \in Rels
                BY <1>1 DEF SelFits, Prefetched
            <4> QED
                BY <2>1, <4>1, <4>2, <4>3
        <3> QED
            BY <2>1, <3>1, <3>2, <3>3
    <2> QED
        BY <2>2 DEF Prefetched
<1>2. \A i \in DOMAIN o \ I : o2[i].trusted = o[i].trusted
    BY DEF Same
<1> QED
    BY <1>1, <1>2 DEF Spared

\* Hiding what the scope of a forward relation rejects leaves it as a scoped
\* read would have, and takes nothing from what others rely on.
LEMMA HideIs ==
    ASSUME NEW o, Sound(o), Backed(o), NEW edges
    PROVE  LET H == TtHideScopedOut(o, edges)
           IN  /\ DOMAIN H = DOMAIN o /\ Sound(H) /\ Backed(H)
               /\ \A m : Numbered(o, m) => Numbered(H, m)
               /\ \A i \in DOMAIN o, rel \in Rels :
                     /\ H[i].cache[rel] \subseteq o[i].cache[rel]
                     /\ LoadedLike(o, i, rel) => LoadedLike(H, i, rel)
                     /\ <<i, rel>> \in edges /\ LoadedLike(o, i, rel) => Exact(H, i, rel)
                     /\ Exact(o, i, rel) => Exact(H, i, rel)
               /\ \A i \in DOMAIN o : H[i].loaded = o[i].loaded /\ H[i].trusted = o[i].trusted
<1> DEFINE H == TtHideScopedOut(o, edges)
           left(i, rel) == IF <<i, rel>> \in edges /\ rel \in ToOne
                           THEN {k \in o[i].cache[rel] : k.row \in Visible({k.row}, rel)}
                           ELSE o[i].cache[rel]
<1>1. DOMAIN H = DOMAIN o
    BY DEF TtHideScopedOut
<1>2. \A i \in DOMAIN o : H[i] = [o[i] EXCEPT !.cache = [rel \in Rels |-> left(i, rel)]]
    <2> SUFFICES ASSUME NEW i \in DOMAIN o
                 PROVE  H[i] = [o[i] EXCEPT !.cache = [rel \in Rels |-> left(i, rel)]]
        OBVIOUS
    <2>1. "cache" \in DOMAIN o[i]
        BY DEF Sound, Typed, InstanceOf
    <2> QED
        BY <2>1 DEF TtHideScopedOut
<1>3. ASSUME NEW i \in DOMAIN o, NEW rel \in Rels
      PROVE  /\ left(i, rel) \subseteq o[i].cache[rel]
             /\ RowsOf(left(i, rel)) = IF <<i, rel>> \in edges /\ rel \in ToOne
                                       THEN Visible(RowsOf(o[i].cache[rel]), rel)
                                       ELSE RowsOf(o[i].cache[rel])
    <2>1. \A k : k.row \in Visible({k.row}, rel) <=>
                     /\ env.typed => k.row \in TypeAllows
                     /\ rel \in EdgeScoped => k.row \in EdgeAllows[rel]
        BY DEF Visible
    <2>2. RowsOf({k \in o[i].cache[rel] : k.row \in Visible({k.row}, rel)})
              = Visible(RowsOf(o[i].cache[rel]), rel)
        BY <2>1 DEF RowsOf, Visible
    <2> QED
        BY <2>2
<1> HIDE DEF H, left
<1>4. ASSUME NEW i \in DOMAIN o
      PROVE  /\ H[i].loaded = o[i].loaded /\ H[i].trusted = o[i].trusted
             /\ H[i].scoped = o[i].scoped /\ H[i].prepared = o[i].prepared
             /\ \A rel \in Rels : H[i].cache[rel] = left(i, rel)
             /\ H[i] \in InstanceOf(DOMAIN o) /\ i.row \in Rows
    <2> DEFINE c == [rel \in Rels |-> left(i, rel)]
    <2>1. o[i] \in InstanceOf(DOMAIN o) /\ i.row \in Rows
        BY DEF Sound, Typed
    <2>2. c \in [Rels -> SUBSET DOMAIN o]
        BY <1>3, <2>1 DEF InstanceOf
    <2>3. \A rel \in Rels : c[rel] = left(i, rel)
        OBVIOUS
    <2>4. H[i] = [o[i] EXCEPT !.cache = c]
        BY <1>2
    <2> HIDE DEF c
    <2>5. /\ H[i].loaded = o[i].loaded /\ H[i].trusted = o[i].trusted
          /\ H[i].scoped = o[i].scoped /\ H[i].prepared = o[i].prepared
          /\ H[i].cache = c /\ H[i] \in InstanceOf(DOMAIN o)
        BY <2>1, <2>2, <2>4 DEF InstanceOf
    <2> QED
        BY <2>1, <2>3, <2>5
<1>5. ASSUME NEW i \in DOMAIN o, NEW rel \in Rels
      PROVE  /\ H[i].cache[rel] \subseteq o[i].cache[rel]
             /\ RowsOf(H[i].cache[rel]) = IF <<i, rel>> \in edges /\ rel \in ToOne
                                          THEN Visible(RowsOf(o[i].cache[rel]), rel)
                                          ELSE RowsOf(o[i].cache[rel])
    BY <1>3, <1>4
<1>6. ASSUME NEW i \in DOMAIN o, NEW rel \in Rels
      PROVE  /\ Exact(o, i, rel) => Exact(H, i, rel)
             /\ rel \in ToMany => H[i].cache[rel] = o[i].cache[rel]
             /\ Visible(RowsOf(o[i].cache[rel]), rel) = ReadAs(rel, i.row) =>
                   Visible(RowsOf(H[i].cache[rel]), rel) = ReadAs(rel, i.row)
    <2>1. rel \in ToMany => rel \notin ToOne
        BY RowsAssumption
    <2>2. Visible(ReadAs(rel, i.row), rel) = ReadAs(rel, i.row)
        BY <1>4, ReadAsFacts
    <2> QED
        BY <1>4, <1>5, <2>1, <2>2 DEF Exact, left
<1>7. Sound(H)
    <2>1. \A i \in DOMAIN o : SoundAt(o, i) /\ o[i].loaded \subseteq Rels
        BY DEF Sound, Typed, InstanceOf
    <2>2. ASSUME NEW i \in DOMAIN o PROVE SoundAt(H, i)
        BY <1>4, <1>6, <2>1 DEF SoundAt
    <2> QED
        BY <1>1, <1>4, <2>2 DEF Sound, Typed
<1>8. Backed(H) /\ \A m : Numbered(o, m) => Numbered(H, m)
    BY <1>1, <1>4, <1>5 DEF Backed, Numbered
<1>9. ASSUME NEW i \in DOMAIN o, NEW rel \in Rels, LoadedLike(o, i, rel)
      PROVE  /\ LoadedLike(H, i, rel)
             /\ <<i, rel>> \in edges => Exact(H, i, rel)
    <2>1. Visible(RowsOf(o[i].cache[rel]), rel) = ReadAs(rel, i.row)
        BY <1>9 DEF LoadedLike, Sound, SoundAt
    <2>2. rel \in ToOne \/ rel \in ToMany
        BY DEF Rels
    <2> QED
        BY <1>4, <1>5, <1>6, <1>9, <2>1, <2>2 DEF LoadedLike, Exact
<1> QED
    BY <1>1, <1>4, <1>5, <1>6, <1>7, <1>8, <1>9 DEF H

LEMMA HidePrefetched ==
    ASSUME NEW o, Sound(o), Backed(o), NEW edges,
           NEW J \in SUBSET DOMAIN o, NEW s, SelFits(s), Prefetched(o, J, s)
    PROVE  Prefetched(TtHideScopedOut(o, edges), J, s)
<1> DEFINE H == TtHideScopedOut(o, edges)
<1>1. \A i \in DOMAIN o, rel \in Rels :
          /\ H[i].cache[rel] \subseteq o[i].cache[rel]
          /\ LoadedLike(o, i, rel) => LoadedLike(H, i, rel)
    BY HideIs
<1> HIDE DEF H
<1>2. ASSUME NEW i \in J, NEW rel \in DOMAIN s
      PROVE  /\ LoadedLike(H, i, rel)
             /\ \A k \in H[i].cache[rel], rel2 \in s[rel] : LoadedLike(H, k, rel2)
    <2>1. rel \in Rels /\ LoadedLike(o, i, rel)
          /\ \A k \in o[i].cache[rel], rel2 \in s[rel] : LoadedLike(o, k, rel2) /\ rel2 \in Rels
        BY DEF SelFits, Prefetched
    <2>2. o[i].cache[rel] \subseteq DOMAIN o
        BY <2>1 DEF Sound, Typed, InstanceOf
    <2> QED
        BY <1>1, <2>1, <2>2
<1> QED
    BY <1>2 DEF Prefetched, H

\* Once the rejected forward rows are hidden the marks are true.
LEMMA TtFinishSound ==
    ASSUME env.backend = "tortoise", NEW o, Sound(o), Backed(o), NEW m, Numbered(o, m),
           NEW I \in SUBSET DOMAIN o, NEW sel, SelFits(sel), Prefetched(o, I, sel)
    PROVE  LET T == TtFinishPrefetches(o, I, sel)
           IN  /\ Sound(T) /\ Backed(T) /\ Numbered(T, m) /\ DOMAIN T = DOMAIN o
               /\ Spared(o, T, I)
<1> DEFINE top == ScopedEdges(o, I, [rel \in DOMAIN sel |-> {}])
           o1 == TtHideScopedOut(o, top)
           all == ScopedEdges(o1, I, sel)
           o2 == TtHideScopedOut(o1, all)
           T == Trust(o2, all)
<1>1. /\ DOMAIN o1 = DOMAIN o /\ Sound(o1) /\ Backed(o1) /\ Numbered(o1, m)
      /\ \A i \in DOMAIN o : o1[i].trusted = o[i].trusted
    BY HideIs
<1>2. \A J \in SUBSET DOMAIN o : \A s : SelFits(s) /\ Prefetched(o, J, s) => Prefetched(o1, J, s)
    BY HidePrefetched
<1> HIDE DEF o1
<1>3. Prefetched(o1, I, sel)
    BY <1>2
<1>4. /\ DOMAIN o2 = DOMAIN o1 /\ Sound(o2) /\ Backed(o2) /\ Numbered(o2, m)
      /\ \A i \in DOMAIN o1, rel \in Rels :
            /\ LoadedLike(o1, i, rel) => LoadedLike(o2, i, rel)
            /\ <<i, rel>> \in all /\ LoadedLike(o1, i, rel) => Exact(o2, i, rel)
      /\ \A i \in DOMAIN o1 : o2[i].trusted = o1[i].trusted
    BY <1>1, HideIs
<1>5. \A J \in SUBSET DOMAIN o1 : \A s : SelFits(s) /\ Prefetched(o1, J, s) => Prefetched(o2, J, s)
    BY <1>1, HidePrefetched
<1> HIDE DEF o2
<1>6. \A e : e \in all <=>
             \/ \E i \in I, rel \in DOMAIN sel : Restricted(rel) /\ e = <<i, rel>>
             \/ \E i \in I, rel \in DOMAIN sel : \E k \in o1[i].cache[rel], rel2 \in sel[rel] :
                   Restricted(rel2) /\ e = <<k, rel2>>
    BY EdgesAre
<1> HIDE DEF all
<1>7. ASSUME NEW i \in I, NEW rel \in DOMAIN sel
      PROVE  /\ i \in DOMAIN o1 /\ rel \in Rels /\ LoadedLike(o1, i, rel)
             /\ \A k \in o1[i].cache[rel] : k \in DOMAIN o1 /\ Len(k.via) >= 2
             /\ \A k \in o1[i].cache[rel], rel2 \in sel[rel] :
                   rel2 \in Rels /\ LoadedLike(o1, k, rel2)
    <2>1. i \in DOMAIN o1 /\ rel \in Rels
        BY <1>1 DEF SelFits
    <2>2. \A k \in o1[i].cache[rel] : k \in DOMAIN o1 /\ Len(k.via) >= 2
        BY <1>1, <2>1 DEF Sound, Typed, InstanceOf, Numbered
    <2> QED
        BY <1>3, <2>1, <2>2 DEF Prefetched, SelFits
<1>8. ASSUME NEW e \in all
      PROVE  /\ e[1] \in DOMAIN o1 /\ e[2] \in Rels /\ e = <<e[1], e[2]>>
             /\ LoadedLike(o1, e[1], e[2])
             /\ e[1] \in I \/ Len(e[1].via) >= 2
    BY <1>6, <1>7
<1>9. \A e \in all : /\ e[1] \in DOMAIN o2 /\ e[2] \in o2[e[1]].loaded
                     /\ Restricted(e[2]) => Exact(o2, e[1], e[2])
    BY <1>4, <1>8 DEF LoadedLike
<1>10. /\ Sound(T) /\ Backed(T) /\ DOMAIN T = DOMAIN o2
       /\ \A i \in DOMAIN o2 : T[i].loaded = o2[i].loaded /\ T[i].cache = o2[i].cache
       /\ Numbered(T, m)
       /\ \A i \in DOMAIN o2 : (\A e \in all : e[1] # i) => T[i].trusted = o2[i].trusted
    BY <1>4, <1>9, TrustIs
<1> HIDE DEF T
<1>11. ASSUME NEW i \in DOMAIN o \ I, Len(i.via) = 1
       PROVE  T[i].trusted = o[i].trusted
    <2>1. \A e \in all : e[1] # i
        BY <1>8, <1>11, RootIsNotBelow
    <2> QED
        BY <1>1, <1>4, <1>10, <2>1
<1>12. ASSUME NEW J \in SUBSET DOMAIN o, NEW s, SelFits(s), Prefetched(o, J, s)
       PROVE  Prefetched(T, J, s)
    <2>1. Prefetched(o2, J, s)
        BY <1>1, <1>2, <1>5, <1>12
    <2>2. \A i \in DOMAIN o2, rel \in Rels : LoadedLike(o2, i, rel) => LoadedLike(T, i, rel)
        BY <1>10 DEF LoadedLike, Exact
    <2>3. ASSUME NEW i \in J, NEW rel \in DOMAIN s
          PROVE  /\ LoadedLike(T, i, rel)
                 /\ \A k \in T[i].cache[rel], rel2 \in s[rel] : LoadedLike(T, k, rel2)
        <3>1. /\ i \in DOMAIN o2 /\ rel \in Rels /\ LoadedLike(o2, i, rel)
              /\ \A k \in o2[i].cache[rel], rel2 \in s[rel] : LoadedLike(o2, k, rel2) /\ rel2 \in Rels
            BY <1>1, <1>4, <1>12, <2>1 DEF SelFits, Prefetched
        <3>2. o2[i].cache[rel] \subseteq DOMAIN o2
            BY <1>4, <3>1 DEF Sound, Typed, InstanceOf
        <3> QED
            BY <1>10, <2>2, <3>1, <3>2
    <2> QED
        BY <2>3 DEF Prefetched
<1>13. Spared(o, T, I)
    BY <1>11, <1>12 DEF Spared
<1>14. TtFinishPrefetches(o, I, sel) = T
    BY DEF TtFinishPrefetches, T, o2, all, o1, top
<1> QED
    BY <1>1, <1>4, <1>10, <1>13, <1>14
LEMMA OldIsNotBelow ==
    ASSUME env.backend # "sqlalchemy", NEW m \in Nat, NEW n \in Nat, After(n, m),
           NEW o, Numbered(o, m)
    PROVE  \A i \in DOMAIN o : ~ Below(i, n)
<1>1. \A i \in DOMAIN o : i.via[1] \in 0 .. m
    BY DEF Numbered
<1>2. \A i \in DOMAIN o : i.via[1] # n
    BY <1>1 DEF After
<1> QED
    BY <1>2 DEF Below

LEMMA NumberedMore ==
    ASSUME NEW m \in Nat, NEW n \in Nat, After(n, m), NEW o, Numbered(o, m)
    PROVE  Numbered(o, n)
<1>1. \A x \in 0 .. m : x \in 0 .. n
    BY DEF After
<1> QED
    BY <1>1 DEF Numbered

\* What Tortoise's loaders make of the instances, and leave to other fields.
LEMMA TtSound ==
    ASSUME env.backend = "tortoise", NEW m \in Nat, NEW n \in Nat, After(n, m),
           NEW o, Sound(o), Backed(o), Numbered(o, m), NEW I, NEW sel, SelFits(sel)
    PROVE  /\ \A own \in SUBSET Rels :
                RootsOf(I, n) =>
                 LET A == TtApplyHints(o, I, sel, own, n)
                 IN  /\ Sound(A) /\ Backed(A) /\ Numbered(A, n)
                     /\ DOMAIN o \cup I \subseteq DOMAIN A /\ Spared(o, A, {})
           /\ I \subseteq DOMAIN o /\ (\A i \in I : Len(i.via) = 1 /\ o[i].trusted = {}) =>
                 LET P == TtPrefetchOnto(o, I, sel, n)
                 IN  /\ Sound(P) /\ Backed(P) /\ Numbered(P, n) /\ DOMAIN o \subseteq DOMAIN P
                     /\ Prefetched(P, I, sel) /\ Spared(o, P, I)
<1>1. \A i \in DOMAIN o : ~ Below(i, n)
    BY OldIsNotBelow
<1>2. Numbered(o, n) /\ Typed(o)
    BY NumberedMore DEF Sound
<1>3. ASSUME NEW own \in SUBSET Rels, RootsOf(I, n)
      PROVE  LET A == TtApplyHints(o, I, sel, own, n)
             IN  /\ Sound(A) /\ Backed(A) /\ Numbered(A, n)
                 /\ DOMAIN o \cup I \subseteq DOMAIN A /\ Spared(o, A, {})
    <2> DEFINE kept == own \ DOMAIN sel
               F == Fill(With(o, I), RootJobs(I, kept, n), Links)
               P == TtPrefetchOnto(F, I, sel, n)
               A == TtFinishPrefetches(P, I, sel)
    <2>1. kept \in SUBSET Rels
        OBVIOUS
    <2> HIDE DEF kept
    <2>2. /\ Sound(F) /\ Backed(F) /\ Numbered(F, n)
          /\ DOMAIN o \cup I \subseteq DOMAIN F
          /\ \A i \in I : i \notin DOMAIN o /\ ~ Below(i, n) /\ Len(i.via) = 1 /\ F[i].trusted = {}
          /\ \A i \in DOMAIN o : Same(o, F, i)
          /\ \A k \in DOMAIN F : Below(k, n) => F[k].trusted = {}
        BY <1>3, <2>1, OwnLoadsSound
    <2> HIDE DEF F
    <2>3. I \in SUBSET DOMAIN F
        BY <2>2
    <2>4. /\ Sound(P) /\ Backed(P) /\ Numbered(P, n) /\ DOMAIN F \subseteq DOMAIN P
          /\ Prefetched(P, I, sel)
          /\ \A i \in DOMAIN F \ I : ~ Below(i, n) => Same(F, P, i)
        BY <2>2, <2>3, TtPrefetchSound
    <2> HIDE DEF P
    <2>5. I \in SUBSET DOMAIN P
        BY <2>3, <2>4
    <2>6. /\ Sound(A) /\ Backed(A) /\ Numbered(A, n) /\ DOMAIN A = DOMAIN P
          /\ Spared(P, A, I)
        BY <2>4, <2>5, TtFinishSound
    <2> HIDE DEF A
    <2>7. \A i \in DOMAIN o : Same(o, P, i) /\ i \in DOMAIN P /\ i \notin I
        BY <1>1, <2>2, <2>4 DEF Same
    <2>8. Spared(o, P, {})
        BY <1>2, <2>7, SameSpared
    <2>9. Spared(o, A, {})
        BY <2>6, <2>7, <2>8 DEF Spared
    <2>10. TtApplyHints(o, I, sel, own, n) = A
        BY DEF TtApplyHints, A, P, F, kept
    <2> QED
        BY <2>2, <2>4, <2>6, <2>9, <2>10
<1>4. ASSUME I \subseteq DOMAIN o, \A i \in I : Len(i.via) = 1 /\ o[i].trusted = {}
      PROVE  LET P == TtPrefetchOnto(o, I, sel, n)
             IN  /\ Sound(P) /\ Backed(P) /\ Numbered(P, n) /\ DOMAIN o \subseteq DOMAIN P
                 /\ Prefetched(P, I, sel) /\ Spared(o, P, I)
    <2> DEFINE P == TtPrefetchOnto(o, I, sel, n)
    <2>1. /\ Sound(P) /\ Backed(P) /\ Numbered(P, n) /\ DOMAIN o \subseteq DOMAIN P
          /\ Prefetched(P, I, sel)
          /\ \A i \in DOMAIN o \ I : ~ Below(i, n) => Same(o, P, i)
        BY <1>1, <1>2, <1>4, TtPrefetchSound
    <2> HIDE DEF P
    <2>2. Spared(o, P, I)
        BY <1>1, <1>2, <1>4, <2>1, SameSpared
    <2> QED
        BY <2>1, <2>2 DEF P
<1> QED
    BY <1>3, <1>4

-----------------------------------------------------------------------------
(* The relation fields.                                                    *)

\* Whatever a relation field decides to trust, it answers what the scope says.
LEMMA ReadsAreScoped ==
    ASSUME Sound(obj), env.backend \in {"sqlalchemy", "django", "tortoise"},
           NEW i \in DOMAIN obj, NEW rel \in Rels, NEW wanted
    PROVE  /\ RelField(i, rel, FALSE, Rows) = ReadAs(rel, i.row)
           /\ RelField(i, rel, TRUE, wanted) = ReadAs(rel, i.row) \cap wanted
<1>1. SoundAt(obj, i) /\ i.row \in Rows
    BY DEF Sound, Typed
<1>2. /\ Visible(Links[rel][i.row], rel) = ReadAs(rel, i.row)
      /\ ~ Restricted(rel) => ReadAs(rel, i.row) = Links[rel][i.row]
      /\ \A rows : ~ Restricted(rel) => Visible(rows, rel) = rows
    BY <1>1, ReadAsFacts, VisibleFacts
<1>3. rel \in obj[i].loaded => Visible(Cached(i, rel), rel) = ReadAs(rel, i.row)
    BY <1>1 DEF SoundAt, Cached
<1>4. rel \in obj[i].loaded /\ (~ Restricted(rel) \/ CacheIsScoped(i, rel)) =>
          Cached(i, rel) = ReadAs(rel, i.row)
    BY <1>1, <1>2, <1>3 DEF SoundAt, Cached, CacheIsScoped, Exact
<1>5. /\ Visible(Held(i, rel), rel) = ReadAs(rel, i.row)
      /\ ~ Restricted(rel) => Held(i, rel) = ReadAs(rel, i.row)
      /\ rel \in obj[i].loaded => Held(i, rel) = Cached(i, rel)
    BY <1>2, <1>3, <1>4 DEF Held, Unscoped
<1>6. SaScopedRelation(i, rel) = ReadAs(rel, i.row)
    BY <1>4, <1>5 DEF SaScopedRelation
<1>7. /\ DjScopedRelatedInstance(i, rel) = ReadAs(rel, i.row)
      /\ DjScopedRelatedQueryset(i, rel) = ReadAs(rel, i.row)
    BY <1>4, <1>5 DEF DjScopedRelatedInstance, DjScopedRelatedQueryset
<1>8. TtToOneField(i, rel) = ReadAs(rel, i.row) /\ TtManyField(i, rel) = ReadAs(rel, i.row)
    BY <1>4, <1>5 DEF TtToOneField, TtManyField
<1> QED
    BY <1>6, <1>7, <1>8 DEF RelField, SaRelField, DjRelField, TtRelField
-----------------------------------------------------------------------------
(* The invariant.                                                          *)

Running == {"scoping", "loading", "finishing"}
Stages == Running \cup {"idle", "done", "failed"}
Sels == Selections \cup {<<>>}
WorkOn(D) == [stage : Stages, sel : Sels, result : SUBSET D, cand : SUBSET D]
Readable(I) == RowsOf(I) \subseteq ApplyTypeScope(Rows)

\* A field that is being resolved has rows in hand, of which only the
\* candidates may be unreadable, and on Tortoise the candidates are its own.
FieldFits(o, w) ==
    /\ w \in WorkOn(DOMAIN o) /\ w.cand \subseteq w.result
    /\ w.stage \notin Running => w.cand = {}
    /\ w.stage \in Running => Readable(w.result \ w.cand)
    /\ w.stage \in {"loading", "finishing", "done"} => Readable(w.result)
    /\ w.stage = "finishing" => env.backend = "tortoise"
    /\ env.backend = "tortoise" =>
          /\ \A i \in w.cand : Len(i.via) = 1
          /\ w.stage # "finishing" => \A i \in w.cand : o[i].trusted = {}
          /\ w.stage = "finishing" => Prefetched(o, w.cand, w.sel)

Apart == env.backend = "tortoise" =>
             \A f, g \in Fields : f # g => fld[f].cand \cap fld[g].cand = {}

IInv ==
    /\ env \in [backend : Backends, optimizer : BOOLEAN, typed : BOOLEAN]
    /\ loads \in Nat
    /\ Sound(obj) /\ Backed(obj) /\ Numbered(obj, loads)
    /\ served \subseteq DOMAIN obj
    /\ fld = [f \in Fields |-> fld[f]]
    /\ \A f \in Fields : FieldFits(obj, fld[f])
    /\ Apart

LEMMA SelectionsFit == \A sel \in Sels : SelFits(sel)
BY RowsAssumption DEF SelFits, Sels

LEMMA InitFits == Init => IInv
<1> SUFFICES ASSUME Init PROVE IInv
    OBVIOUS
<1>1. DOMAIN obj = {} /\ served = {} /\ loads = 0
      /\ env \in [backend : Backends, optimizer : BOOLEAN, typed : BOOLEAN]
    BY DEF Init
<1>2. Sound(obj) /\ Backed(obj) /\ Numbered(obj, loads)
    BY <1>1 DEF Sound, Typed, Backed, Numbered
<1>3. fld = [f \in Fields |-> fld[f]] /\ \A f \in Fields : fld[f] = Idle
    BY DEF Init
<1>4. FieldFits(obj, Idle) /\ Idle.cand = {}
    <2>1. Idle = [stage |-> "idle", sel |-> <<>>, result |-> {}, cand |-> {}]
        BY DEF Idle
    <2> QED
        BY <2>1 DEF FieldFits, WorkOn, Stages, Sels, Running
<1> QED
    BY <1>1, <1>2, <1>3, <1>4 DEF IInv, Apart

\* What the instances are is a matter of the instances and the environment, and
\* the environment stays.
LEMMA SoundStays ==
    ASSUME env' = env, NEW o, obj' = o, Sound(o), Backed(o), NEW m, loads' = m, Numbered(o, m)
    PROVE  Sound(obj)' /\ Backed(obj)' /\ Numbered(obj, loads)'
<1>1. Sound(obj)'
    BY DEF Sound, Typed, SoundAt, Exact, ReadAs, Visible, Restricted, ApplyTypeScope
<1>2. Backed(obj)'
    BY DEF Backed
<1>3. Numbered(obj, loads)'
    BY DEF Numbered
<1> QED
    BY <1>1, <1>2, <1>3

LEMMA FieldStays ==
    ASSUME env' = env, NEW o, obj' = o, NEW w, FieldFits(o, w), NEW f, fld'[f] = w
    PROVE  FieldFits(obj, fld[f])'
<1>1. \A I : Readable(I)' = Readable(I)
    BY DEF Readable, ApplyTypeScope
<1>2. \A rel, r : ReadAs(rel, r)' = ReadAs(rel, r)
    BY DEF ReadAs, Visible
<1>3. \A p, I, s : Prefetched(p, I, s)' = Prefetched(p, I, s)
    BY <1>2 DEF Prefetched, LoadedLike, Exact
<1> QED
    BY <1>1, <1>3 DEF FieldFits, WorkOn

\* A field that does nothing keeps what it has.
LEMMA FieldKept ==
    ASSUME NEW o, NEW o2, NEW w, FieldFits(o, w), DOMAIN o \subseteq DOMAIN o2,
           NEW I, env.backend = "tortoise" => Spared(o, o2, I) /\ w.cand \cap I = {}
    PROVE  FieldFits(o2, w)
<1>1. SelFits(w.sel) /\ w.cand \subseteq DOMAIN o /\ WorkOn(DOMAIN o) \subseteq WorkOn(DOMAIN o2)
    BY SelectionsFit DEF FieldFits, WorkOn
<1>2. ASSUME env.backend = "tortoise", \A i \in w.cand : Len(i.via) = 1
      PROVE  /\ \A i \in w.cand : o2[i].trusted = o[i].trusted
             /\ Prefetched(o, w.cand, w.sel) => Prefetched(o2, w.cand, w.sel)
    <2>1. w.cand \in SUBSET (DOMAIN o \ I)
        BY <1>1, <1>2
    <2> QED
        BY <1>1, <1>2, <2>1 DEF Spared
<1> QED
    BY <1>1, <1>2 DEF FieldFits

\* A step in which field f goes on with w, and only f's candidates are loaded
\* onto, keeps the invariant.
LEMMA FieldStep ==
    ASSUME IInv, env' = env, NEW f \in Fields, NEW w,
           fld' = [fld EXCEPT ![f] = w],
           NEW o, obj' = o, NEW n \in Nat, loads' = n,
           Sound(o), Backed(o), Numbered(o, n), DOMAIN obj \subseteq DOMAIN o,
           NEW I, I \subseteq fld[f].cand, env.backend = "tortoise" => Spared(obj, o, I),
           FieldFits(o, w),
           env.backend = "tortoise" => w.cand \subseteq fld[f].cand \/ w.cand \cap DOMAIN obj = {},
           served' \subseteq DOMAIN o
    PROVE  IInv'
<1>1. /\ fld' = [h \in Fields |-> fld'[h]]
      /\ fld'[f] = w /\ \A g \in Fields \ {f} : fld'[g] = fld[g]
    BY DEF IInv
<1>2. \A g \in Fields : FieldFits(obj, fld[g]) /\ fld[g].cand \subseteq DOMAIN obj
    BY DEF IInv, FieldFits, WorkOn
<1>3. env.backend = "tortoise" =>
          \A g \in Fields \ {f} : fld[g].cand \cap fld[f].cand = {}
    BY DEF IInv, Apart
<1>4. ASSUME NEW g \in Fields \ {f}
      PROVE  FieldFits(o, fld[g])
    BY <1>2, <1>3, FieldKept
<1>5. \A g \in Fields : FieldFits(o, fld'[g])
    BY <1>1, <1>4
<1>6. \A g \in Fields : FieldFits(obj, fld[g])'
    BY <1>5, FieldStays
<1>7. Sound(obj)' /\ Backed(obj)' /\ Numbered(obj, loads)'
    BY SoundStays
<1>8. Apart'
    <2> SUFFICES ASSUME env.backend = "tortoise", NEW g \in Fields, NEW h \in Fields, g # h
                 PROVE  fld'[g].cand \cap fld'[h].cand = {}
        BY DEF Apart
    <2>1. \A x \in Fields \ {f} : w.cand \cap fld[x].cand = {}
        BY <1>2, <1>3
    <2>2. CASE g # f /\ h # f
        BY <1>1, <2>2 DEF IInv, Apart
    <2> QED
        BY <1>1, <2>1, <2>2
<1> QED
    BY <1>1, <1>6, <1>7, <1>8 DEF IInv

\* Marking rows that are readable as scoped, or as loaded onto.
LEMMA RowMarksSound ==
    ASSUME NEW o, Sound(o), Backed(o), NEW I, I \subseteq DOMAIN o, Readable(I),
           NEW o2, DOMAIN o2 = DOMAIN o,
           \A i \in DOMAIN o :
               \/ o2[i] = o[i]
               \/ i \in I /\ o2[i] = [o[i] EXCEPT !.prepared = TRUE]
               \/ i \in I /\ o2[i] = [o[i] EXCEPT !.scoped = TRUE]
    PROVE  /\ Sound(o2) /\ Backed(o2) /\ \A m : Numbered(o, m) => Numbered(o2, m)
           /\ \A i \in DOMAIN o : Same(o, o2, i)
<1>1. ASSUME NEW i \in DOMAIN o
      PROVE  /\ o2[i].loaded = o[i].loaded /\ o2[i].trusted = o[i].trusted
             /\ o2[i].cache = o[i].cache
             /\ o2[i].scoped \/ o2[i].prepared => i \in I \/ o[i].scoped \/ o[i].prepared
             /\ o2[i] \in InstanceOf(DOMAIN o) /\ i.row \in Rows
    <2>1. o[i] \in InstanceOf(DOMAIN o) /\ i.row \in Rows
        BY DEF Sound, Typed
    <2>2. CASE o2[i] = o[i]
        BY <2>1, <2>2
    <2>3. CASE i \in I /\ o2[i] = [o[i] EXCEPT !.prepared = TRUE]
        BY <2>1, <2>3 DEF InstanceOf
    <2>4. CASE i \in I /\ o2[i] = [o[i] EXCEPT !.scoped = TRUE]
        BY <2>1, <2>4 DEF InstanceOf
    <2> QED
        BY <2>2, <2>3, <2>4
<1>2. \A i \in I : i.row \in ApplyTypeScope(Rows)
    BY DEF Readable, RowsOf
<1>3. \A i \in DOMAIN o : SoundAt(o2, i)
    BY <1>1, <1>2 DEF Sound, SoundAt, Exact
<1>4. Sound(o2)
    BY <1>1, <1>3 DEF Sound, Typed
<1>5. Backed(o2) /\ \A m : Numbered(o, m) => Numbered(o2, m)
    BY <1>1 DEF Backed, Numbered
<1> QED
    BY <1>1, <1>4, <1>5 DEF Same
LEMMA PrepareSound ==
    ASSUME NEW o, NEW A, Sound(A), Backed(A), NEW n, Numbered(A, n), DOMAIN o \subseteq DOMAIN A,
           NEW I, I \subseteq DOMAIN A, Readable(I),
           NEW J, env.backend = "tortoise" => Spared(o, A, J)
    PROVE  LET B == Prepare(A, I)
           IN  /\ Sound(B) /\ Backed(B) /\ Numbered(B, n) /\ DOMAIN B = DOMAIN A
               /\ env.backend = "tortoise" => Spared(o, B, J)
<1> DEFINE B == Prepare(A, I)
<1>1. /\ DOMAIN B = DOMAIN A
      /\ \A i \in DOMAIN A : \/ B[i] = A[i]
                             \/ i \in I /\ B[i] = [A[i] EXCEPT !.prepared = TRUE]
    BY DEF Prepare
<1> HIDE DEF B
<1>2. Sound(B) /\ Backed(B) /\ Numbered(B, n) /\ \A i \in DOMAIN A : Same(A, B, i)
    BY <1>1, RowMarksSound
<1>3. env.backend = "tortoise" => Spared(A, B, {})
    BY <1>2, SameSpared DEF Sound
<1>4. env.backend = "tortoise" => Spared(o, B, J)
    BY <1>3 DEF Spared
<1> QED
    BY <1>1, <1>2, <1>4 DEF B

\* The instances of the rows one load reads.
LEMMA RootsAre ==
    ASSUME NEW rows, rows \subseteq Rows, NEW n \in Nat
    PROVE  LET I == {At(r, <<n>>) : r \in rows}
           IN  /\ \A i \in I : i.row \in Rows
               /\ RowsOf(I) = rows
               /\ env.backend # "sqlalchemy" => RootsOf(I, n)
<1> DEFINE I == {At(r, <<n>>) : r \in rows}
<1>1. \A i \in I : \E r \in rows : i = At(r, <<n>>)
    OBVIOUS
<1>2. \A r \in rows : At(r, <<n>>) \in I
    OBVIOUS
<1> HIDE DEF I
<1>3. \A i \in I : i.row \in rows /\ (env.backend # "sqlalchemy" => i.via = <<n>>)
    BY <1>1, AtFacts
<1>4. RowsOf(I) = rows
    BY <1>2, <1>3, AtFacts DEF RowsOf
<1> QED
    BY <1>3, <1>4 DEF RootsOf, I

\* A resolver's own loads onto the rows it has just read.
LEMMA FreshLoad ==
    ASSUME NEW m \in Nat, NEW n \in Nat, After(n, m),
           NEW o, Sound(o), Backed(o), Numbered(o, m),
           NEW I, \A i \in I : i.row \in Rows, env.backend # "sqlalchemy" => RootsOf(I, n),
           NEW own \in SUBSET Rels
    PROVE  LET F == Fill(With(o, I), Missing(With(o, I), RootJobs(I, own, n)), Links)
           IN  /\ Sound(F) /\ Backed(F) /\ Numbered(F, n) /\ DOMAIN o \cup I \subseteq DOMAIN F
               /\ env.backend = "tortoise" =>
                     /\ Spared(o, F, {}) /\ I \cap DOMAIN o = {}
                     /\ \A i \in I : Len(i.via) = 1 /\ F[i].trusted = {}
<1> DEFINE W == With(o, I)
           jobs == RootJobs(I, own, n)
           F == Fill(W, Missing(W, jobs), Links)
<1>1. /\ Sound(W) /\ Backed(W) /\ DOMAIN W = DOMAIN o \cup I
    BY WithSound, WithIs DEF Sound
<1>2. env.backend # "sqlalchemy" => Numbered(W, n) /\ \A i \in I : W[i] = Blank
    <2> SUFFICES ASSUME env.backend # "sqlalchemy"
                 PROVE  Numbered(W, n) /\ \A i \in I : W[i] = Blank
        OBVIOUS
    <2>1. RootsOf(I, n)
        OBVIOUS
    <2>2. Numbered(W, n)
        BY <2>1, NewRoots
    <2>3. \A i \in I : i \notin DOMAIN o
        BY <2>1, NewRoots
    <2>4. \A i \in I \ DOMAIN o : W[i] = Blank
        BY WithIs DEF Sound
    <2> QED
        BY <2>2, <2>3, <2>4
<1>3. Numbered(W, n)
    BY <1>2 DEF Numbered
<1> HIDE DEF W
<1>4. I \in SUBSET DOMAIN W
    BY <1>1
<1>5. /\ jobs \subseteq JobsOf(W, n)
      /\ \A i, rel : HasJob(jobs, i, rel) <=> i \in I /\ rel \in own
    BY <1>4, RootJobsFit
<1> HIDE DEF jobs
<1>6. Sound(F) /\ Backed(F) /\ Numbered(F, n) /\ DOMAIN W \subseteq DOMAIN F
    BY <1>1, <1>3, <1>5, MissingFill, ReadsFit
<1>7. ASSUME env.backend = "tortoise"
      PROVE  /\ Spared(o, F, {}) /\ I \cap DOMAIN o = {}
             /\ \A i \in I : Len(i.via) = 1 /\ F[i].trusted = {}
    <2>1. \A j \in jobs : W[j.onto] = Blank
        BY <1>2, <1>5, <1>7 DEF HasJob
    <2>2. Missing(W, jobs) = jobs
        BY <2>1, BlankFacts DEF Missing
    <2> DEFINE G == Fill(W, jobs, Links)
    <2>3. F = G
        BY <2>2
    <2>4. /\ \A i \in I : i \notin DOMAIN o /\ Len(i.via) = 1 /\ G[i].trusted = {}
          /\ \A i \in DOMAIN o : Same(o, G, i)
        BY <1>7, OwnLoadsSound DEF W, jobs
    <2> HIDE DEF G
    <2>5. Spared(o, G, {})
        BY <1>7, <2>4, SameSpared DEF Sound
    <2> QED
        BY <2>3, <2>4, <2>5
<1> QED
    BY <1>1, <1>6, <1>7 DEF F, W, jobs

-----------------------------------------------------------------------------
(* The steps.                                                              *)

LEMMA AnswerStep ==
    ASSUME IInv, env' = env, NEW f \in Fields, NEW I, NEW o, Answer(f, I, o),
           NEW n \in Nat, loads' = n,
           Sound(o), Backed(o), Numbered(o, n), DOMAIN obj \subseteq DOMAIN o,
           NEW J, J \subseteq fld[f].cand, env.backend = "tortoise" => Spared(obj, o, J),
           I \subseteq DOMAIN o, Readable(I)
    PROVE  IInv'
<1> DEFINE v == fld[f]
           w == [[[v EXCEPT !.stage = "done"] EXCEPT !.result = I] EXCEPT !.cand = {}]
<1>1. FieldFits(obj, v) /\ v \in WorkOn(DOMAIN obj) /\ served \subseteq DOMAIN obj
    BY DEF IInv, FieldFits
<1>2. fld' = [fld EXCEPT ![f] = w]
    BY DEF Answer, IInv
<1> HIDE DEF v
<1>3. FieldFits(o, w) /\ w.cand = {}
    <2>1. w \in WorkOn(DOMAIN o) /\ w.stage = "done" /\ w.result = I /\ w.cand = {}
        BY <1>1 DEF WorkOn, Stages
    <2> HIDE DEF w
    <2> QED
        BY <2>1 DEF FieldFits, Running
<1>4. obj' = o /\ served' \subseteq DOMAIN o
    BY <1>1 DEF Answer
<1> HIDE DEF w
<1> QED
    BY <1>2, <1>3, <1>4, FieldStep

LEMMA NothingChanged ==
    ASSUME IInv
    PROVE  Sound(obj) /\ Backed(obj) /\ (env.backend = "tortoise" => Spared(obj, obj, {}))
<1>1. \A i \in DOMAIN obj : Same(obj, obj, i)
    BY DEF Same
<1> QED
    BY <1>1, SameSpared DEF IInv, Sound

LEMMA FailStep ==
    ASSUME IInv, env' = env, NEW f \in Fields, Fail(f),
           NEW n \in Nat, loads' = n, Numbered(obj, n)
    PROVE  IInv'
<1> DEFINE w == [Idle EXCEPT !.stage = "failed"]
<1>1. served' \subseteq DOMAIN obj /\ obj' = obj /\ fld' = [fld EXCEPT ![f] = w]
    BY DEF IInv, Fail
<1>2. FieldFits(obj, w) /\ w.cand = {}
    <2>1. w \in WorkOn(DOMAIN obj) /\ w.stage = "failed" /\ w.result = {} /\ w.cand = {}
        BY DEF Idle, WorkOn, Stages, Sels
    <2> HIDE DEF w
    <2> QED
        BY <2>1 DEF FieldFits, Running
<1> HIDE DEF w
<1> QED
    BY <1>1, <1>2, NothingChanged, FieldStep
LEMMA HintsSound ==
    ASSUME env.backend \in {"sqlalchemy", "django", "tortoise"},
           NEW m \in Nat, NEW n \in Nat, After(n, m),
           NEW o, Sound(o), Backed(o), Numbered(o, m),
           NEW I, \A i \in I : i.row \in Rows, env.backend # "sqlalchemy" => RootsOf(I, n),
           NEW sel, SelFits(sel), NEW own \in SUBSET Rels, NEW won,
           ~ (env.backend = "django" /\ DjQueryFails(sel, own))
    PROVE  LET A == ApplyHints(o, I, sel, own, won, n)
           IN  /\ Sound(A) /\ Backed(A) /\ Numbered(A, n) /\ DOMAIN o \cup I \subseteq DOMAIN A
               /\ env.backend = "tortoise" => Spared(o, A, {})
<1> DEFINE A == ApplyHints(o, I, sel, own, won, n)
<1>1. CASE env.backend = "sqlalchemy"
    <2> DEFINE B == SaApplyHints(o, I, sel, own, won, n)
    <2>1. Sound(B) /\ Backed(B) /\ DOMAIN o \cup I \subseteq DOMAIN B
        BY SaSound
    <2>2. A = B
        BY <1>1 DEF ApplyHints
    <2>3. Numbered(B, n)
        BY <1>1 DEF Numbered
    <2> HIDE DEF A, B
    <2> QED
        BY <1>1, <2>1, <2>2, <2>3 DEF A
<1>2. CASE env.backend = "django"
    <2> DEFINE B == DjApplyHints(o, I, sel, own, n)
    <2>1. Sound(B) /\ Backed(B) /\ Numbered(B, n) /\ DOMAIN o \cup I \subseteq DOMAIN B
        BY <1>2, DjSound
    <2>2. A = B
        BY <1>2 DEF ApplyHints
    <2> HIDE DEF A, B
    <2> QED
        BY <1>2, <2>1, <2>2 DEF A
<1>3. CASE env.backend = "tortoise"
    <2> DEFINE B == TtApplyHints(o, I, sel, own, n)
    <2>1. /\ Sound(B) /\ Backed(B) /\ Numbered(B, n) /\ DOMAIN o \cup I \subseteq DOMAIN B
          /\ Spared(o, B, {})
        BY <1>3, TtSound
    <2>2. A = B
        BY <1>3 DEF ApplyHints
    <2> HIDE DEF A, B
    <2> QED
        BY <1>3, <2>1, <2>2 DEF A
<1> QED
    BY <1>1, <1>2, <1>3

LEMMA EnvFits ==
    ASSUME IInv PROVE env.backend \in {"sqlalchemy", "django", "tortoise"}
BY RowsAssumption DEF IInv

LEMMA ScopeIsMonotone ==
    ASSUME NEW rows, rows \subseteq Rows
    PROVE  ApplyTypeScope(rows) \subseteq ApplyTypeScope(Rows) /\ ApplyTypeScope(rows) \subseteq Rows
BY DEF ApplyTypeScope

LEMMA QueryStep ==
    ASSUME IInv, NEW f \in Fields, ReturnQuery(f)
    PROVE  IInv'
<1> DEFINE n == loads + 1
<1>1. n \in Nat /\ After(n, loads) /\ loads \in Nat
    BY DEF IInv, After
<1>2. PICK wanted \in RowSets, sel \in Selections, own \in OwnLoads :
          \E won \in SUBSET (own \cap DOMAIN sel) :
              LET I == {At(r, <<n>>) : r \in ApplyTypeScope(wanted)}
              IN  /\ loads' = n
                  /\ IF ~ env.optimizer
                     THEN Answer(f, I, Fill(With(obj, I),
                                       Missing(With(obj, I), RootJobs(I, own, n)), Links))
                     ELSE IF env.backend = "django" /\ DjQueryFails(sel, own) THEN Fail(f)
                     ELSE Answer(f, I, Prepare(ApplyHints(obj, I, sel, own, won, n), I))
                  /\ env' = env
    BY DEF ReturnQuery
<1> HIDE DEF n
<1> DEFINE rows == ApplyTypeScope(wanted)
           I == {At(r, <<n>>) : r \in rows}
           F == Fill(With(obj, I), Missing(With(obj, I), RootJobs(I, own, n)), Links)
<1>3. PICK won \in SUBSET (own \cap DOMAIN sel) :
          /\ loads' = n
          /\ IF ~ env.optimizer THEN Answer(f, I, F)
             ELSE IF env.backend = "django" /\ DjQueryFails(sel, own) THEN Fail(f)
             ELSE Answer(f, I, Prepare(ApplyHints(obj, I, sel, own, won, n), I))
          /\ env' = env
    BY <1>2
<1>4. rows \subseteq Rows /\ rows \subseteq ApplyTypeScope(Rows)
    BY RowsAssumption, ScopeIsMonotone
<1> HIDE DEF rows
<1>5. /\ \A i \in I : i.row \in Rows
      /\ RowsOf(I) = rows
      /\ env.backend # "sqlalchemy" => RootsOf(I, n)
    BY <1>1, <1>4, RootsAre
<1> HIDE DEF I
<1>6. own \in SUBSET Rels /\ SelFits(sel) /\ Readable(I)
    BY <1>4, <1>5, RowsAssumption, SelectionsFit DEF Readable, Sels
<1>7. Sound(obj) /\ Backed(obj) /\ Numbered(obj, loads)
    BY DEF IInv
<1>8. CASE ~ env.optimizer
    <2>1. /\ Sound(F) /\ Backed(F) /\ Numbered(F, n) /\ DOMAIN obj \cup I \subseteq DOMAIN F
          /\ env.backend = "tortoise" => Spared(obj, F, {})
        BY <1>1, <1>5, <1>6, <1>7, FreshLoad
    <2> HIDE DEF F
    <2>2. Answer(f, I, F)
        BY <1>3, <1>8
    <2> QED
        BY <1>1, <1>3, <1>6, <2>1, <2>2, AnswerStep
<1>9. CASE env.optimizer /\ env.backend = "django" /\ DjQueryFails(sel, own)
    <2>1. Numbered(obj, n)
        BY <1>1, <1>7, NumberedMore
    <2> QED
        BY <1>1, <1>3, <1>9, <2>1, FailStep
<1>10. CASE env.optimizer /\ ~ (env.backend = "django" /\ DjQueryFails(sel, own))
    <2> DEFINE A == ApplyHints(obj, I, sel, own, won, n)
               B == Prepare(A, I)
    <2>1. /\ Sound(A) /\ Backed(A) /\ Numbered(A, n) /\ DOMAIN obj \cup I \subseteq DOMAIN A
          /\ env.backend = "tortoise" => Spared(obj, A, {})
        BY <1>1, <1>5, <1>6, <1>7, <1>10, EnvFits, HintsSound
    <2>2. Answer(f, I, B)
        BY <1>3, <1>10
    <2> HIDE DEF A
    <2>3. /\ Sound(B) /\ Backed(B) /\ Numbered(B, n) /\ DOMAIN B = DOMAIN A
          /\ env.backend = "tortoise" => Spared(obj, B, {})
        BY <1>6, <2>1, PrepareSound
    <2> HIDE DEF B
    <2> QED
        BY <1>1, <1>3, <1>6, <2>1, <2>2, <2>3, AnswerStep
<1> QED
    BY <1>8, <1>9, <1>10
\* Rows that an optimized load has prepared are readable.
LEMMA ReceiveStep ==
    ASSUME IInv, env' = env, NEW f \in Fields, NEW I, NEW sel \in Sels, NEW o,
           Receive(f, I, sel, o), NEW n \in Nat, loads' = n,
           Sound(o), Backed(o), Numbered(o, n), DOMAIN obj \subseteq DOMAIN o, I \subseteq DOMAIN o,
           env.backend = "tortoise" =>
               /\ Spared(obj, o, {}) /\ I \cap DOMAIN obj = {}
               /\ \A i \in I : Len(i.via) = 1 /\ o[i].trusted = {}
    PROVE  IInv'
<1> DEFINE rows == IF env.optimizer THEN {i \in I : ~ o[i].prepared} ELSE I
           w == [stage |-> "scoping", sel |-> sel, result |-> I, cand |-> rows]
<1>1. IF rows = {} THEN Answer(f, I, o)
      ELSE obj' = o /\ fld' = [fld EXCEPT ![f] = w] /\ UNCHANGED served
    BY DEF Receive
<1>2. rows \subseteq I /\ Readable(I \ rows)
    <2>1. \A i \in I \ rows : o[i].prepared
        OBVIOUS
    <2>2. \A i \in I : o[i].prepared => i.row \in ApplyTypeScope(Rows)
        BY DEF Sound, SoundAt
    <2> HIDE DEF rows
    <2> QED
        BY <2>1, <2>2 DEF Readable, RowsOf, rows
<1> HIDE DEF rows
<1>3. CASE rows = {}
    <2>1. Readable(I) /\ Answer(f, I, o)
        BY <1>1, <1>2, <1>3 DEF Readable, RowsOf
    <2> QED
        BY <2>1, AnswerStep
<1>4. CASE rows # {}
    <2>1. w \in WorkOn(DOMAIN o)
        BY <1>2 DEF WorkOn, Stages, Running
    <2>2. w.stage = "scoping" /\ w.sel = sel /\ w.result = I /\ w.cand = rows
        OBVIOUS
    <2>3. obj' = o /\ fld' = [fld EXCEPT ![f] = w] /\ served' \subseteq DOMAIN o
        BY <1>1, <1>4 DEF IInv
    <2> HIDE DEF w
    <2>4. FieldFits(o, w)
        BY <1>2, <2>1, <2>2 DEF FieldFits, Running
    <2>5. env.backend = "tortoise" => w.cand \cap DOMAIN obj = {}
        BY <1>2, <2>2
    <2> QED
        BY <2>3, <2>4, <2>5, FieldStep
<1> QED
    BY <1>3, <1>4

LEMMA FreshRowsStep ==
    ASSUME IInv, NEW f \in Fields, ReturnFreshRows(f)
    PROVE  IInv'
<1> DEFINE n == loads + 1
<1>1. n \in Nat /\ After(n, loads) /\ loads \in Nat
    BY DEF IInv, After
<1>2. PICK wanted \in RowSets, sel \in Selections, own \in OwnLoads :
          LET I == {At(r, <<n>>) : r \in wanted}
              o == With(obj, I)
          IN  /\ loads' = n
              /\ Receive(f, I, sel, Fill(o, Missing(o, RootJobs(I, own, n)), Links))
              /\ env' = env
    BY DEF ReturnFreshRows
<1> HIDE DEF n
<1> DEFINE I == {At(r, <<n>>) : r \in wanted}
           F == Fill(With(obj, I), Missing(With(obj, I), RootJobs(I, own, n)), Links)
<1>3. loads' = n /\ Receive(f, I, sel, F) /\ env' = env
    BY <1>2
<1>4. wanted \subseteq Rows
    BY RowsAssumption
<1>5. /\ \A i \in I : i.row \in Rows
      /\ env.backend # "sqlalchemy" => RootsOf(I, n)
    BY <1>1, <1>4, RootsAre
<1> HIDE DEF I
<1>6. own \in SUBSET Rels /\ sel \in Sels
    BY RowsAssumption DEF Sels
<1>7. Sound(obj) /\ Backed(obj) /\ Numbered(obj, loads)
    BY DEF IInv
<1>8. /\ Sound(F) /\ Backed(F) /\ Numbered(F, n) /\ DOMAIN obj \cup I \subseteq DOMAIN F
      /\ env.backend = "tortoise" =>
            /\ Spared(obj, F, {}) /\ I \cap DOMAIN obj = {}
            /\ \A i \in I : Len(i.via) = 1 /\ F[i].trusted = {}
    BY <1>1, <1>5, <1>6, <1>7, FreshLoad
<1> HIDE DEF F
<1> QED
    BY <1>1, <1>3, <1>6, <1>8, ReceiveStep

LEMMA HeldRowsStep ==
    ASSUME IInv, NEW f \in Fields, ReturnHeldRows(f)
    PROVE  IInv'
<1>1. PICK i \in DOMAIN obj, sel \in Selections :
          env.backend \in Shared /\ Receive(f, {i}, sel, obj) /\ UNCHANGED <<env, loads>>
    BY DEF ReturnHeldRows
<1>2. env.backend # "tortoise"
    BY <1>1, SharedAssumption
<1>3. loads \in Nat /\ loads' = loads /\ env' = env /\ {i} \subseteq DOMAIN obj /\ sel \in Sels
    BY <1>1 DEF IInv, Sels
<1>4. Sound(obj) /\ Backed(obj) /\ Numbered(obj, loads)
    BY DEF IInv
<1> QED
    BY <1>1, <1>2, <1>3, <1>4, ReceiveStep

\* What passes scope_instances is readable, and nothing else is answered.
LEMMA ScopeStep ==
    ASSUME IInv, NEW f \in Fields, ScopeInstances(f)
    PROVE  IInv'
<1> DEFINE v == fld[f]
           cand == v.cand
           kept == IF Unchecked(cand) = {} THEN cand ELSE Kept(cand)
           o == IF Unchecked(cand) = {} THEN obj ELSE MarkRowsScoped(kept)
           result == v.result \ (cand \ kept)
           w == [[[v EXCEPT !.stage = "loading"] EXCEPT !.result = result] EXCEPT !.cand = kept]
<1>1. /\ v.stage = "scoping" /\ UNCHANGED <<env, loads>>
      /\ IF \E i \in Unchecked(cand) : i.row \in Unsaved THEN Fail(f)
         ELSE IF kept = {} \/ ~ env.optimizer THEN Answer(f, result, o)
         ELSE obj' = o /\ fld' = [fld EXCEPT ![f] = w] /\ UNCHANGED served
    BY DEF ScopeInstances, IInv
<1>2. /\ Sound(obj) /\ Backed(obj) /\ Numbered(obj, loads) /\ loads \in Nat
      /\ FieldFits(obj, v) /\ v \in WorkOn(DOMAIN obj) /\ served \subseteq DOMAIN obj
    BY DEF IInv, FieldFits
<1>3. /\ cand \subseteq v.result /\ v.result \subseteq DOMAIN obj
      /\ Readable(v.result \ cand)
    BY <1>1, <1>2 DEF FieldFits, WorkOn, Running
<1> HIDE DEF v, cand
<1>4. kept \subseteq cand /\ Readable(kept)
    <2>1. \A i \in cand : i.row \in Rows /\ (obj[i].scoped => i.row \in ApplyTypeScope(Rows))
        BY <1>2, <1>3 DEF Sound, Typed, SoundAt
    <2>2. ASSUME NEW i \in kept
          PROVE  i \in cand /\ i.row \in ApplyTypeScope(Rows)
        <3>1. CASE ~ env.typed
            BY <2>1, <3>1 DEF Unchecked, ApplyTypeScope
        <3>2. CASE env.typed /\ Unchecked(cand) = {}
            BY <2>1, <3>2 DEF Unchecked
        <3>3. CASE env.typed /\ Unchecked(cand) # {}
            BY <2>1, <3>3 DEF Kept, ApplyTypeScope
        <3> QED
            BY <3>1, <3>2, <3>3
    <2> HIDE DEF kept
    <2> QED
        BY <2>2 DEF Readable, RowsOf
<1>5. /\ DOMAIN o = DOMAIN obj
      /\ \A i \in DOMAIN obj : \/ o[i] = obj[i]
                               \/ i \in kept /\ o[i] = [obj[i] EXCEPT !.scoped = TRUE]
    BY DEF MarkRowsScoped
<1> HIDE DEF o, kept
<1>6. /\ Sound(o) /\ Backed(o) /\ Numbered(o, loads)
      /\ \A i \in DOMAIN obj : Same(obj, o, i)
    BY <1>2, <1>3, <1>4, <1>5, RowMarksSound
<1>7. env.backend = "tortoise" => Spared(obj, o, {})
    BY <1>2, <1>6, SameSpared DEF Sound
<1>8. result \subseteq DOMAIN o /\ kept \subseteq result /\ Readable(result)
    <2>1. result \subseteq (v.result \ cand) \cup kept
        OBVIOUS
    <2> QED
        BY <1>3, <1>4, <1>5, <2>1 DEF Readable, RowsOf
<1> HIDE DEF result
<1>9. CASE \E i \in Unchecked(cand) : i.row \in Unsaved
    BY <1>1, <1>2, <1>9, FailStep
<1>10. CASE ~ (\E i \in Unchecked(cand) : i.row \in Unsaved) /\ (kept = {} \/ ~ env.optimizer)
    <2>1. Answer(f, result, o)
        BY <1>1, <1>10
    <2>2. loads \in Nat /\ loads' = loads /\ env' = env /\ DOMAIN obj \subseteq DOMAIN o
        BY <1>1, <1>2, <1>5
    <2> QED
        BY <1>6, <1>7, <1>8, <2>1, <2>2, AnswerStep
<1>11. CASE ~ (\E i \in Unchecked(cand) : i.row \in Unsaved) /\ ~ (kept = {} \/ ~ env.optimizer)
    <2>1. /\ w \in WorkOn(DOMAIN o) /\ w.stage = "loading" /\ w.sel = v.sel
          /\ w.result = result /\ w.cand = kept
        BY <1>2, <1>4, <1>5, <1>8 DEF WorkOn, Stages, Running
    <2>2. obj' = o /\ fld' = [fld EXCEPT ![f] = w] /\ served' \subseteq DOMAIN o
        BY <1>1, <1>2, <1>5, <1>11
    <2> HIDE DEF w
    <2>3. Readable(w.result \ w.cand)
        BY <1>8, <2>1 DEF Readable, RowsOf
    <2>4. env.backend = "tortoise" =>
              /\ \A i \in w.cand : Len(i.via) = 1
              /\ \A i \in w.cand : o[i].trusted = {}
        BY <1>1, <1>2, <1>3, <1>4, <1>6, <2>1 DEF FieldFits, Same, cand
    <2>5. FieldFits(o, w)
        BY <1>8, <2>1, <2>3, <2>4 DEF FieldFits, Running
    <2>6. w.cand \subseteq fld[f].cand
        BY <1>4, <2>1 DEF cand, v
    <2>7. loads \in Nat /\ loads' = loads /\ env' = env /\ DOMAIN obj \subseteq DOMAIN o
        BY <1>1, <1>2, <1>5
    <2>8. /\ {} \subseteq fld[f].cand
          /\ env.backend = "tortoise" =>
                w.cand \subseteq fld[f].cand \/ w.cand \cap DOMAIN obj = {}
        BY <2>6
    <2> QED
        BY <1>6, <1>7, <2>2, <2>5, <2>7, <2>8, FieldStep
<1> QED
    BY <1>1, <1>9, <1>10, <1>11
LEMMA LoadStep ==
    ASSUME IInv, NEW f \in Fields, LoadRelations(f)
    PROVE  IInv'
<1> DEFINE v == fld[f]
           n == loads + 1
           S == SaLoadRelations(obj, v.cand, v.sel, n)
           D == DjLoadRelations(obj, v.cand, v.sel, n)
           P == TtPrefetchOnto(obj, v.cand, v.sel, n)
           w == [v EXCEPT !.stage = "finishing"]
<1>1. /\ v.stage = "loading" /\ loads' = n /\ env' = env
      /\ IF DOMAIN v.sel = {} THEN Answer(f, v.result, obj)
         ELSE IF env.backend = "sqlalchemy" THEN Answer(f, v.result, Prepare(S, v.cand))
         ELSE IF env.backend = "django" THEN Answer(f, v.result, Prepare(D, v.cand))
         ELSE obj' = P /\ fld' = [fld EXCEPT ![f] = w] /\ UNCHANGED served
    BY DEF LoadRelations, IInv
<1>2. n \in Nat /\ After(n, loads) /\ loads \in Nat
    BY DEF IInv, After
<1> HIDE DEF n
<1>3. /\ Sound(obj) /\ Backed(obj) /\ Numbered(obj, loads)
      /\ FieldFits(obj, v) /\ v \in WorkOn(DOMAIN obj) /\ served \subseteq DOMAIN obj
    BY DEF IInv, FieldFits
<1>4. Numbered(obj, n)
    BY <1>2, <1>3, NumberedMore
<1> HIDE DEF v
<1>5. /\ v.cand \subseteq v.result /\ v.result \subseteq DOMAIN obj /\ v.cand \subseteq DOMAIN obj
      /\ Readable(v.result) /\ Readable(v.cand) /\ SelFits(v.sel)
      /\ env.backend = "tortoise" => \A i \in v.cand : Len(i.via) = 1 /\ obj[i].trusted = {}
    <2>1. /\ v.cand \subseteq v.result /\ v.result \subseteq DOMAIN obj /\ Readable(v.result)
          /\ v.sel \in Sels
          /\ env.backend = "tortoise" => \A i \in v.cand : Len(i.via) = 1 /\ obj[i].trusted = {}
        BY <1>1, <1>3 DEF FieldFits, WorkOn
    <2>2. Readable(v.cand)
        BY <2>1 DEF Readable, RowsOf
    <2> QED
        BY <2>1, <2>2, SelectionsFit
<1>6. CASE DOMAIN v.sel = {}
    <2>1. Answer(f, v.result, obj)
        BY <1>1, <1>6
    <2> QED
        BY <1>1, <1>2, <1>4, <1>5, <2>1, NothingChanged, AnswerStep
<1>7. CASE DOMAIN v.sel # {} /\ env.backend = "sqlalchemy"
    <2>1. \A i \in v.cand : i.row \in Rows
        BY <1>3, <1>5 DEF Sound, Typed
    <2>2. Sound(S) /\ Backed(S) /\ DOMAIN obj \subseteq DOMAIN S
        BY <1>2, <1>3, <1>5, <2>1, SaSound
    <2>3. Answer(f, v.result, Prepare(S, v.cand)) /\ env.backend # "tortoise"
        BY <1>1, <1>7
    <2> HIDE DEF S
    <2>4. Numbered(S, n) /\ v.cand \subseteq DOMAIN S
        BY <1>5, <1>7, <2>2 DEF Numbered
    <2> DEFINE B == Prepare(S, v.cand)
    <2>5. Sound(B) /\ Backed(B) /\ Numbered(B, n) /\ DOMAIN B = DOMAIN S
        BY <1>5, <2>2, <2>3, <2>4, PrepareSound
    <2>6. Answer(f, v.result, B)
        BY <2>3
    <2> HIDE DEF B
    <2>7. v.result \subseteq DOMAIN B /\ DOMAIN obj \subseteq DOMAIN B /\ {} \subseteq fld[f].cand
        BY <1>5, <2>2, <2>5
    <2> QED
        BY <1>1, <1>2, <1>5, <2>3, <2>5, <2>6, <2>7, AnswerStep
<1>8. CASE DOMAIN v.sel # {} /\ env.backend = "django"
    <2>1. Sound(D) /\ Backed(D) /\ Numbered(D, n) /\ DOMAIN obj \subseteq DOMAIN D
        BY <1>2, <1>3, <1>5, <1>8, DjSound
    <2>2. Answer(f, v.result, Prepare(D, v.cand)) /\ env.backend # "tortoise"
        BY <1>1, <1>8
    <2> HIDE DEF D
    <2>3. v.cand \subseteq DOMAIN D
        BY <1>5, <2>1
    <2> DEFINE B == Prepare(D, v.cand)
    <2>4. Sound(B) /\ Backed(B) /\ Numbered(B, n) /\ DOMAIN B = DOMAIN D
        BY <1>5, <2>1, <2>2, <2>3, PrepareSound
    <2>5. Answer(f, v.result, B)
        BY <2>2
    <2> HIDE DEF B
    <2>6. v.result \subseteq DOMAIN B /\ DOMAIN obj \subseteq DOMAIN B /\ {} \subseteq fld[f].cand
        BY <1>5, <2>1, <2>4
    <2> QED
        BY <1>1, <1>2, <1>5, <2>2, <2>4, <2>5, <2>6, AnswerStep
<1>9. CASE DOMAIN v.sel # {} /\ env.backend \notin {"sqlalchemy", "django"}
    <2>1. env.backend = "tortoise"
        BY <1>9, EnvFits
    <2>2. /\ Sound(P) /\ Backed(P) /\ Numbered(P, n) /\ DOMAIN obj \subseteq DOMAIN P
          /\ Prefetched(P, v.cand, v.sel) /\ Spared(obj, P, v.cand)
        BY <1>2, <1>3, <1>5, <2>1, TtSound
    <2>3. obj' = P /\ fld' = [fld EXCEPT ![f] = w] /\ served' \subseteq DOMAIN P
        BY <1>1, <1>3, <1>9, <2>2
    <2> HIDE DEF P
    <2>4. /\ w \in WorkOn(DOMAIN P) /\ w.stage = "finishing" /\ w.sel = v.sel
          /\ w.result = v.result /\ w.cand = v.cand
        BY <1>3, <2>2 DEF WorkOn, Stages, Running
    <2> HIDE DEF w
    <2>5. Readable(w.result \ w.cand)
        BY <1>5, <2>4 DEF Readable, RowsOf
    <2>6. FieldFits(P, w)
        BY <1>5, <2>1, <2>2, <2>4, <2>5 DEF FieldFits, Running
    <2>7. v.cand \subseteq fld[f].cand /\ w.cand \subseteq fld[f].cand
        BY <2>4 DEF v
    <2> QED
        BY <1>1, <1>2, <2>2, <2>3, <2>6, <2>7, FieldStep
<1> QED
    BY <1>6, <1>7, <1>8, <1>9

LEMMA FinishStep ==
    ASSUME IInv, NEW f \in Fields, FinishPrefetches(f)
    PROVE  IInv'
<1> DEFINE v == fld[f]
           T == TtFinishPrefetches(obj, v.cand, v.sel)
           B == Prepare(T, v.cand)
<1>1. v.stage = "finishing" /\ loads' = loads /\ env' = env /\ Answer(f, v.result, B)
    BY DEF FinishPrefetches
<1>2. /\ Sound(obj) /\ Backed(obj) /\ Numbered(obj, loads) /\ loads \in Nat
      /\ FieldFits(obj, v)
    BY DEF IInv
<1> HIDE DEF v
<1>3. /\ v.cand \subseteq v.result /\ v.result \subseteq DOMAIN obj /\ v.cand \in SUBSET DOMAIN obj
      /\ Readable(v.result) /\ v.sel \in Sels
      /\ env.backend = "tortoise" /\ Prefetched(obj, v.cand, v.sel)
    BY <1>1, <1>2 DEF FieldFits, WorkOn
<1>4. Readable(v.cand) /\ SelFits(v.sel)
    BY <1>3, SelectionsFit DEF Readable, RowsOf
<1>5. /\ Sound(T) /\ Backed(T) /\ Numbered(T, loads) /\ DOMAIN T = DOMAIN obj
      /\ Spared(obj, T, v.cand)
    BY <1>2, <1>3, <1>4, TtFinishSound
<1> HIDE DEF T
<1>6. /\ Sound(B) /\ Backed(B) /\ Numbered(B, loads) /\ DOMAIN B = DOMAIN T
      /\ Spared(obj, B, v.cand)
    BY <1>3, <1>4, <1>5, PrepareSound
<1> HIDE DEF B
<1>7. v.result \subseteq DOMAIN B /\ DOMAIN obj \subseteq DOMAIN B /\ v.cand \subseteq fld[f].cand
    BY <1>3, <1>5, <1>6 DEF v
<1> QED
    BY <1>1, <1>2, <1>3, <1>6, <1>7, AnswerStep
\* A step no field takes part in.
LEMMA RowStep ==
    ASSUME IInv, env' = env, fld' = fld,
           NEW o, obj' = o, NEW n \in Nat, loads' = n,
           Sound(o), Backed(o), Numbered(o, n), DOMAIN obj \subseteq DOMAIN o,
           env.backend = "tortoise" => Spared(obj, o, {}),
           served' \subseteq DOMAIN o
    PROVE  IInv'
<1>1. ASSUME NEW g \in Fields
      PROVE  FieldFits(o, fld[g])
    <2>1. FieldFits(obj, fld[g]) /\ fld[g].cand \cap {} = {}
        BY DEF IInv
    <2> QED
        BY <2>1, FieldKept
<1>2. \A g \in Fields : FieldFits(obj, fld[g])'
    BY <1>1, FieldStays
<1>3. Sound(obj)' /\ Backed(obj)' /\ Numbered(obj, loads)'
    BY SoundStays
<1>4. Apart'
    BY DEF IInv, Apart
<1> QED
    BY <1>2, <1>3, <1>4 DEF IInv

LEMMA WithNumbered ==
    ASSUME NEW o, Typed(o), NEW n \in Nat, Numbered(o, n), NEW I, \A k \in I : k.row \in Rows,
           env.backend # "sqlalchemy" =>
               \A k \in I \ DOMAIN o : k.via \in Vias /\ Len(k.via) >= 1 /\ k.via[1] = n
    PROVE  Numbered(With(o, I), n)
<1> DEFINE W == With(o, I)
<1>1. /\ DOMAIN W = DOMAIN o \cup I
      /\ \A i \in DOMAIN o : W[i] = o[i]
      /\ \A i \in I \ DOMAIN o : W[i] = Blank
    BY WithIs
<1> HIDE DEF W
<1> SUFFICES ASSUME env.backend # "sqlalchemy" PROVE Numbered(W, n)
    BY DEF Numbered, W
<1>2. n \in 0 .. n
    OBVIOUS
<1>3. \A i \in DOMAIN W : i.via \in Vias /\ Len(i.via) >= 1 /\ i.via[1] \in 0 .. n
    BY <1>1, <1>2 DEF Numbered
<1>4. \A i \in DOMAIN W, rel \in Rels : \A k \in W[i].cache[rel] : Len(k.via) >= 2
    BY <1>1, BlankFacts DEF Numbered
<1> QED
    BY <1>3, <1>4 DEF Numbered

\* A relation that may not be trusted can be forgotten.
LEMMA ForgetSound ==
    ASSUME NEW o, Sound(o), Backed(o), NEW i \in DOMAIN o, NEW rel,
           rel \notin o[i].loaded \/ rel \notin o[i].trusted
    PROVE  LET F == [o EXCEPT ![i].loaded = @ \ {rel}]
           IN  /\ Sound(F) /\ Backed(F) /\ DOMAIN F = DOMAIN o
               /\ \A m : Numbered(o, m) => Numbered(F, m)
<1> DEFINE F == [o EXCEPT ![i].loaded = @ \ {rel}]
<1>1. /\ DOMAIN F = DOMAIN o
      /\ F[i] = [o[i] EXCEPT !.loaded = o[i].loaded \ {rel}]
      /\ \A h \in DOMAIN o \ {i} : F[h] = o[h]
    OBVIOUS
<1> HIDE DEF F
<1>2. ASSUME NEW h \in DOMAIN o
      PROVE  /\ F[h].loaded \subseteq o[h].loaded /\ F[h].trusted = o[h].trusted
             /\ o[h].loaded \ {rel} \subseteq F[h].loaded
             /\ h # i => F[h].loaded = o[h].loaded
             /\ F[h].cache = o[h].cache
             /\ F[h].scoped = o[h].scoped /\ F[h].prepared = o[h].prepared
             /\ F[h] \in InstanceOf(DOMAIN o) /\ h.row \in Rows
    <2>1. o[h] \in InstanceOf(DOMAIN o) /\ h.row \in Rows
        BY DEF Sound, Typed
    <2>2. CASE h = i
        BY <1>1, <2>1, <2>2 DEF InstanceOf
    <2>3. CASE h # i
        BY <1>1, <2>1, <2>3
    <2> QED
        BY <2>2, <2>3
<1>3. Sound(F)
    BY <1>1, <1>2 DEF Sound, Typed, SoundAt, Exact
<1>4. Backed(F)
    BY <1>1, <1>2 DEF Backed
<1>5. \A m : Numbered(o, m) => Numbered(F, m)
    BY <1>1, <1>2 DEF Numbered
<1> QED
    BY <1>1, <1>3, <1>4, <1>5 DEF F

LEMMA ReadStep ==
    ASSUME IInv, NEW i \in served, NEW rel \in Rels, ReadRelation(i, rel)
    PROVE  IInv'
<1> DEFINE n == loads + 1
           lazy == rel \notin obj[i].loaded
                   /\ \/ env.backend = "sqlalchemy" /\ ~ Restricted(rel)
                      \/ env.backend = "django" /\ rel \in ToOne
           forgets == env.backend = "django" /\ rel \in ToMany /\ ~ FromCache(i, rel)
           o == IF lazy THEN Fill(obj, {Job(i, rel, <<n>>)}, Links)
                ELSE IF forgets THEN [obj EXCEPT ![i].loaded = @ \ {rel}]
                ELSE obj
           given == IF FromCache(i, rel) THEN obj[i].cache[rel]
                    ELSE {At(r, <<n, rel>>) : r \in RelField(i, rel, FALSE, Rows)}
           W == With(o, given)
<1>1. /\ loads' = n /\ obj' = W /\ served' = served \cup given
      /\ env' = env /\ fld' = fld
    BY DEF ReadRelation
<1>2. n \in Nat /\ After(n, loads) /\ loads \in Nat
    BY DEF IInv, After
<1>3. n \in 0 .. n
    BY <1>2
<1> HIDE DEF n
<1>4. /\ Sound(obj) /\ Backed(obj) /\ Numbered(obj, n) /\ i \in DOMAIN obj
      /\ served \subseteq DOMAIN obj /\ Typed(obj)
    BY <1>2, NumberedMore DEF IInv, Sound
<1>5. /\ Sound(o) /\ Backed(o) /\ Numbered(o, n) /\ DOMAIN obj \subseteq DOMAIN o
      /\ env.backend = "tortoise" => o = obj
    <2>1. CASE lazy
        <3> DEFINE jobs == {Job(i, rel, <<n>>)}
                   F == Fill(obj, Missing(obj, jobs), Links)
        <3>1. jobs \subseteq JobsOf(obj, n)
            BY <1>2, <1>4, JobFits
        <3>2. Missing(obj, jobs) = jobs
            BY <2>1 DEF Missing, Job
        <3>3. o = F
            BY <2>1, <3>2
        <3> HIDE DEF jobs, o
        <3>4. Sound(F) /\ Backed(F) /\ Numbered(F, n) /\ DOMAIN obj \subseteq DOMAIN F
            BY <1>2, <1>4, <3>1, MissingFill, ReadsFit
        <3> HIDE DEF F
        <3> QED
            BY <2>1, <3>3, <3>4
    <2>2. CASE ~ lazy /\ forgets
        <3> DEFINE F == [obj EXCEPT ![i].loaded = @ \ {rel}]
        <3>1. rel \notin obj[i].loaded \/ rel \notin obj[i].trusted
            BY <2>2 DEF FromCache, CacheIsScoped
        <3>2. Sound(F) /\ Backed(F) /\ Numbered(F, n) /\ DOMAIN F = DOMAIN obj
            BY <1>4, <3>1, ForgetSound
        <3>3. o = F
            BY <2>2
        <3> HIDE DEF F, o
        <3> QED
            BY <2>2, <3>2, <3>3
    <2>3. CASE ~ lazy /\ ~ forgets
        <3>1. o = obj
            BY <2>3
        <3> QED
            BY <1>4, <3>1
    <2> QED
        BY <2>1, <2>2, <2>3
<1>6. /\ \A k \in given : k.row \in Rows
      /\ env.backend # "sqlalchemy" =>
            \A k \in given \ DOMAIN obj : k.via \in Vias /\ Len(k.via) >= 1 /\ k.via[1] = n
    <2>1. CASE FromCache(i, rel)
        <3>1. given \subseteq DOMAIN obj
            BY <1>4, <2>1 DEF Typed, InstanceOf
        <3> QED
            BY <1>4, <3>1 DEF Typed
    <2>2. CASE ~ FromCache(i, rel)
        <3> DEFINE v == <<n, rel>>
                   rows == RelField(i, rel, FALSE, Rows)
        <3>1. rows \subseteq Rows
            <4>1. rows = ReadAs(rel, i.row)
                BY <1>4, EnvFits, ReadsAreScoped
            <4>2. i.row \in Rows
                BY <1>4 DEF Typed
            <4> QED
                BY <4>1, <4>2, ReadAsFacts
        <3>2. v \in Vias /\ Len(v) >= 1 /\ v[1] = n
            <4>1. n \in Nat \cup Rels /\ rel \in Nat \cup Rels
                BY <1>2
            <4> QED
                BY <4>1 DEF Vias
        <3>3. \A k \in given : \E r \in rows : k = At(r, v)
            BY <2>2
        <3> HIDE DEF v, rows, given
        <3> QED
            BY <3>1, <3>2, <3>3, AtFacts
    <2> QED
        BY <2>1, <2>2
<1> HIDE DEF o, given
<1>7. /\ Sound(W) /\ Backed(W) /\ DOMAIN W = DOMAIN o \cup given
      /\ \A h \in DOMAIN o : W[h] = o[h]
    BY <1>5, <1>6, WithSound, WithIs DEF Sound
<1>8. Numbered(W, n)
    <2>1. given \ DOMAIN o \subseteq given \ DOMAIN obj
        BY <1>5
    <2> QED
        BY <1>2, <1>5, <1>6, <2>1, WithNumbered DEF Sound
<1> HIDE DEF W
<1>9. ASSUME env.backend = "tortoise"
      PROVE  Spared(obj, W, {})
    <2>1. \A h \in DOMAIN obj : Same(obj, W, h)
        BY <1>5, <1>7, <1>9 DEF Same
    <2> QED
        BY <1>4, <1>9, <2>1, SameSpared
<1>10. DOMAIN obj \subseteq DOMAIN W /\ served' \subseteq DOMAIN W
    BY <1>1, <1>4, <1>5, <1>7
<1> QED
    BY <1>1, <1>2, <1>7, <1>8, <1>9, <1>10, RowStep

-----------------------------------------------------------------------------
(* The theorems.                                                           *)

LEMMA IInvInductive == IInv /\ [Next]_vars => IInv'
<1> SUFFICES ASSUME IInv, [Next]_vars PROVE IInv'
    OBVIOUS
<1>1. ASSUME NEW f \in Fields, ReturnQuery(f) PROVE IInv'
    BY <1>1, QueryStep
<1>2. ASSUME NEW f \in Fields, ReturnFreshRows(f) PROVE IInv'
    BY <1>2, FreshRowsStep
<1>3. ASSUME NEW f \in Fields, ReturnHeldRows(f) PROVE IInv'
    BY <1>3, HeldRowsStep
<1>4. ASSUME NEW f \in Fields, ScopeInstances(f) PROVE IInv'
    BY <1>4, ScopeStep
<1>5. ASSUME NEW f \in Fields, LoadRelations(f) PROVE IInv'
    BY <1>5, LoadStep
<1>6. ASSUME NEW f \in Fields, FinishPrefetches(f) PROVE IInv'
    BY <1>6, FinishStep
<1>7. ASSUME NEW i \in served, NEW rel \in Rels, ReadRelation(i, rel) PROVE IInv'
    BY <1>7, ReadStep
<1>8. CASE UNCHANGED vars
    <2>1. /\ env' = env /\ fld' = fld /\ obj' = obj /\ loads' = loads /\ served' = served
          /\ loads \in Nat /\ Numbered(obj, loads) /\ served \subseteq DOMAIN obj
        BY <1>8 DEF vars, IInv
    <2> QED
        BY <2>1, NothingChanged, RowStep
<1> QED
    BY <1>1, <1>2, <1>3, <1>4, <1>5, <1>6, <1>7, <1>8 DEF Next

LEMMA AlwaysSound == Spec => []IInv
BY InitFits, IInvInductive, PTL DEF Spec

\* A relation cache that carries the mark of a scoped load holds exactly the
\* rows a scoped read gives, on every backend, whatever other fields have
\* loaded onto the same instance since; and only rows that the type's
\* scope_rows lets through are marked as scoped or as loaded onto.
THEOREM MarksStayTrue == Spec => []MarksAreTrue
<1>1. IInv => MarksAreTrue
    BY DEF IInv, Sound, SoundAt, MarksAreTrue, Exact, Cached
<1> QED
    BY <1>1, AlwaysSound, PTL

\* No field answers a row its type's scope_rows rejects: not from a query, not
\* from rows its resolver read itself, not from rows another field was given.
THEOREM AnswersAreReadable == Spec => []RootsAreReadable
<1>1. IInv => RootsAreReadable
    BY DEF IInv, FieldFits, RootsAreReadable, Readable
<1> QED
    BY <1>1, AlwaysSound, PTL

\* A relation field answers the related rows its scopes let through, all of
\* them and no other, from whatever cache it decides to trust.
THEOREM RelationsAreScoped == Spec => []RelationsReadAsScoped
<1>1. IInv => RelationsReadAsScoped
    <2> SUFFICES ASSUME IInv, NEW i \in served, NEW rel \in Rels,
                        NEW wanted \in {Rows, TypeAllows}
                 PROVE  /\ RelField(i, rel, FALSE, Rows) = ReadAs(rel, i.row)
                        /\ RelField(i, rel, TRUE, wanted) = ReadAs(rel, i.row) \cap wanted
        BY DEF RelationsReadAsScoped
    <2>1. Sound(obj) /\ i \in DOMAIN obj
        BY DEF IInv
    <2> QED
        BY <2>1, EnvFits, ReadsAreScoped
<1> QED
    BY <1>1, AlwaysSound, PTL
=============================================================================
