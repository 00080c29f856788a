----------------------- MODULE ConnectionPagingProofs -----------------------
(***************************************************************************)
(* Proofs about ConnectionPaging: whatever the rows, the queries, the      *)
(* windows and the writers, a page that the database cut is what slicing   *)
(* the whole result gives, a total is one the query really had, cursors    *)
(* name the positions of their rows, and a walk sees every row once.       *)
(***************************************************************************)
EXTENDS ConnectionPaging, TLAPS, SequenceTheorems, FiniteSetTheorems

-----------------------------------------------------------------------------
(* Parts of sequences.                                                     *)

\* s[a:b] in Python, for positions that do not count from the end.
Part(s, a, b) == SubSeq(s, a + 1, Least(b, Len(s)))

\* What a part holds.
LEMMA PartType ==
  ASSUME NEW S, NEW s \in Seq(S), NEW a \in Nat, NEW b \in Nat
  PROVE  /\ Part(s, a, b) \in Seq(S)
         /\ Len(Part(s, a, b)) = Most(Least(b, Len(s)) - a, 0)
<1> DEFINE m == a + 1  n == Least(b, Len(s))
<1>1. m \in Int /\ n \in Int /\ n <= Len(s) /\ 1 <= m
  BY DEF Least
<1>2. \A i \in m..n : s[i] \in S
  BY <1>1
<1>3. /\ SubSeq(s, m, n) \in Seq(S)
      /\ Len(SubSeq(s, m, n)) = IF m <= n THEN n - m + 1 ELSE 0
  <2> HIDE DEF m, n
  <2> QED BY <1>1, <1>2, SubSeqProperties
<1> QED BY <1>1, <1>3 DEF Part, Most

\* A part that begins at or after its end is empty.
LEMMA PartEmpty ==
  ASSUME NEW s, NEW a \in Nat, NEW b \in Nat, Len(s) \in Nat, Least(b, Len(s)) <= a
  PROVE  Part(s, a, b) = <<>>
<1>1. Least(b, Len(s)) \in Int /\ Least(b, Len(s)) < a + 1
  BY DEF Least
<1> QED BY <1>1, SubSeqEmpty DEF Part

\* Two ends give the same part if they cut at the same row, or before it.
LEMMA PartSame ==
  ASSUME NEW s, NEW a \in Nat, NEW b \in Nat, NEW c \in Nat, Len(s) \in Nat,
         \/ Least(b, Len(s)) = Least(c, Len(s))
         \/ Least(b, Len(s)) <= a /\ Least(c, Len(s)) <= a
  PROVE  Part(s, a, b) = Part(s, a, c)
<1>1. CASE Least(b, Len(s)) = Least(c, Len(s))
  BY <1>1 DEF Part
<1>2. CASE Least(b, Len(s)) <= a /\ Least(c, Len(s)) <= a
  BY <1>2, PartEmpty
<1> QED BY <1>1, <1>2

\* A part of a part is a part.
LEMMA PartOfPart ==
  ASSUME NEW S, NEW s \in Seq(S), NEW a \in Nat, NEW b \in Nat,
         NEW c \in Nat, NEW d \in Nat
  PROVE  Part(Part(s, a, b), c, d) = Part(s, a + c, Least(a + d, b))
<1> DEFINE n == Len(s)  e == Least(b, n)  t == Part(s, a, b)
           l == Len(t)  f == Least(d, l)
<1>0. t \in Seq(S) /\ l = Most(e - a, 0)
  BY PartType
<1>1. n \in Nat /\ t \in Seq(S) /\ l = Most(e - a, 0) /\ l \in Nat
  <2> HIDE DEF t
  <2> QED BY <1>0
<1>2. e \in Int /\ e <= n /\ e >= 0 /\ f \in Int /\ f >= 0 /\ f <= l
  BY <1>1 DEF Least
<1>3. Least(Least(a + d, b), n) \in Nat /\ Least(a + d, b) \in Nat
  BY <1>1 DEF Least
<1>4. CASE f <= c
  <2>1. Part(t, c, d) = <<>>
    <3> HIDE DEF t
    <3> QED BY <1>1, <1>4, PartEmpty
  <2>2. Least(Least(a + d, b), n) <= a + c
    BY <1>1, <1>4 DEF Least, Most
  <2>3. Part(s, a + c, Least(a + d, b)) = <<>>
    BY <1>1, <1>3, <2>2, PartEmpty
  <2> QED BY <2>1, <2>3
<1>5. CASE f > c
  <2>1. /\ a + 1 \in 1..n /\ e \in 1..n
        /\ c + 1 \in 1..e - (a + 1) + 1 /\ f \in 1..e - (a + 1) + 1
    BY <1>1, <1>2, <1>5 DEF Most
  <2>2. SubSeq(SubSeq(s, a + 1, e), c + 1, f)
          = SubSeq(s, a + 1 + (c + 1) - 1, a + 1 + f - 1)
    <3> HIDE DEF n, e, f
    <3> QED BY <2>1, SubSeqOfSubSeq DEF n
  <2>3. a + 1 + (c + 1) - 1 = a + c + 1
    OBVIOUS
  <2>4. a + 1 + f - 1 = Least(Least(a + d, b), n)
    <3>1. l = e - a
      BY <1>1, <1>2, <1>5 DEF Most
    <3>2. a + f = Least(a + d, e)
      <4> HIDE DEF l, e
      <4> QED BY <1>1, <1>2, <3>1 DEF Least
    <3>3. Least(a + d, e) = Least(Least(a + d, b), n)
      <4> HIDE DEF l, n
      <4> QED BY <1>1 DEF Least
    <3> HIDE DEF f
    <3> QED BY <1>2, <3>2, <3>3
  <2> QED BY <2>2, <2>3, <2>4 DEF Part
<1> QED BY <1>2, <1>4, <1>5

-----------------------------------------------------------------------------
(* What the database is asked for, as parts of a listing.                  *)

QueryType ==
  [kind : Kinds, sorted : BOOLEAN, skip : {0, 1}, limit : Nat \cup {None}]
WindowType == [start : Int, end : Int, last : Nat \cup {None}]

\* Where the rows of q end in a listing of n rows.
EndOf(q, n) == IF q.limit = None THEN n ELSE q.skip + q.limit

\* A slice between two positions is a part; a slice of nothing is nothing.
LEMMA SliceIsPart ==
  ASSUME NEW s, Len(s) \in Nat, NEW a \in Nat, NEW b \in Nat
  PROVE  PySlice(s, a, b) = Part(s, a, b)
<1>1. ~(a < 0) /\ ~(b < 0)
  OBVIOUS
<1> QED BY <1>1, Zenon DEF PySlice, Part

LEMMA SliceOfNothing ==
  ASSUME NEW a \in Nat, NEW b \in Int
  PROVE  PySlice(<<>>, a, b) = <<>>
<1>1. Least(IF b < 0 THEN Most(Len(<<>>) + b, 0) ELSE b, Len(<<>>)) = 0
  BY DEF Least, Most
<1>2. PySlice(<<>>, a, b) = SubSeq(<<>>, a + 1, 0)
  BY <1>1 DEF PySlice
<1> QED BY <1>2, SubSeqEmpty

\* A listing has every row of the table once, and fewer rows than there are
\* positions.
LEMMA ListingFacts ==
  ASSUME table \subseteq Rows, NEW q, NEW exact, NEW s \in Listings(q, exact)
  PROVE  /\ s \in Seq(Rows) /\ Len(s) = Cardinality(table)
         /\ Cardinality(table) \in Nat /\ Len(s) < LastPosition
<1>1. IsFiniteSet(table) /\ Cardinality(table) \in Nat
      /\ Cardinality(table) <= Cardinality(Rows) /\ Cardinality(Rows) \in Nat
  BY PagingAssumption, FS_Subset, FS_CardinalityType
<1>2. s \in [1..Cardinality(table) -> table]
  BY DEF Listings, SetToSeqs
<1>3. s \in Seq(Rows) /\ Len(s) = Cardinality(table)
  BY <1>1, <1>2
<1> QED BY <1>1, <1>3, PagingAssumption

\* The rows of a query are a part of the listing, as many as a count finds.
LEMMA RowsArePart ==
  ASSUME NEW q \in QueryType, NEW s \in Seq(Rows)
  PROVE  /\ RowsOf(q, s) = Part(s, q.skip, EndOf(q, Len(s)))
         /\ EndOf(q, Len(s)) \in Nat /\ q.skip \in Nat
         /\ RowsOf(q, s) \in Seq(Rows)
         /\ Len(RowsOf(q, s)) = Most(Least(EndOf(q, Len(s)), Len(s)) - q.skip, 0)
         /\ Len(RowsOf(q, s)) <= Len(s)
<1>1. /\ EndOf(q, Len(s)) \in Nat /\ q.skip \in Nat
      /\ q.limit # None => q.limit \in Nat
  BY DEF QueryType, EndOf
<1>2. RowsOf(q, s) = Part(s, q.skip, EndOf(q, Len(s)))
  BY <1>1 DEF RowsOf, Part, EndOf, Least
<1>3. /\ Part(s, q.skip, EndOf(q, Len(s))) \in Seq(Rows)
      /\ Len(Part(s, q.skip, EndOf(q, Len(s))))
           = Most(Least(EndOf(q, Len(s)), Len(s)) - q.skip, 0)
  BY <1>1, PartType
<1>4. Most(Least(EndOf(q, Len(s)), Len(s)) - q.skip, 0) <= Len(s)
  BY <1>1 DEF Most, Least
<1> QED BY <1>1, <1>2, <1>3, <1>4

LEMMA RowsAreCounted ==
  ASSUME table \subseteq Rows, NEW q \in QueryType, NEW exact,
         NEW s \in Listings(q, exact)
  PROVE  Len(RowsOf(q, s)) = SizeOf(q, table) /\ SizeOf(q, table) \in Nat
<1>1. s \in Seq(Rows) /\ Len(s) = Cardinality(table) /\ Cardinality(table) \in Nat
  BY ListingFacts
<1>2. q.skip \in Nat /\ q.limit \in Nat \cup {None} /\ EndOf(q, Len(s)) \in Nat
  BY <1>1, RowsArePart DEF QueryType
<1>3. Len(RowsOf(q, s)) = Most(Least(EndOf(q, Len(s)), Len(s)) - q.skip, 0)
  BY <1>1, RowsArePart
<1>4. CASE q.limit = None
  BY <1>1, <1>2, <1>3, <1>4 DEF SizeOf, EndOf, Most, Least
<1>5. CASE q.limit # None
  BY <1>1, <1>2, <1>3, <1>5 DEF SizeOf, EndOf, Most, Least
<1> QED BY <1>4, <1>5

\* A cut is a part of the listing.
CutEnd(q, offset, limit) ==
  q.skip + offset +
    (IF q.limit = None THEN limit ELSE Most(0, Least(limit, q.limit - offset)))

LEMMA CutIsPart ==
  ASSUME NEW q \in QueryType, NEW s \in Seq(Rows),
         NEW offset \in Nat, NEW limit \in Nat
  PROVE  /\ Cut(q, s, offset, limit)
              = Part(s, q.skip + offset, CutEnd(q, offset, limit))
         /\ q.skip \in Nat /\ CutEnd(q, offset, limit) \in Nat
         /\ Cut(q, s, offset, limit) \in Seq(Rows)
<1>1. q.skip \in Nat /\ (q.limit # None => q.limit \in Nat)
  BY DEF QueryType
<1>2. CutEnd(q, offset, limit) \in Nat
  BY <1>1 DEF CutEnd, Most, Least
<1>3. Cut(q, s, offset, limit) = Part(s, q.skip + offset, CutEnd(q, offset, limit))
  BY <1>1 DEF Cut, Part, CutEnd
<1>4. q.skip + offset \in Nat
  BY <1>1
<1>5. Part(s, q.skip + offset, CutEnd(q, offset, limit)) \in Seq(Rows)
  BY <1>2, <1>4, PartType
<1> QED BY <1>1, <1>2, <1>3, <1>5

-----------------------------------------------------------------------------
(* Pages are slices.                                                       *)

\* Slicing a cut is slicing the rows of the query, with whatever limit and
\* offset the query has of its own.
LEMMA CutThenSlice ==
  ASSUME NEW q \in QueryType, NEW s \in Seq(Rows), Len(s) < LastPosition,
         NEW st \in Nat, NEW ov \in Nat, NEW lim \in Nat, lim > 0,
         lim = Least(ov, LastPosition) - st
  PROVE  PySlice(Cut(q, s, st, lim), 0, ov - st) = PySlice(RowsOf(q, s), st, ov)
<1> DEFINE n == Len(s)
           cutEnd == CutEnd(q, st, lim)
           rowsEnd == EndOf(q, n)
           cutTo == Least(q.skip + st + (ov - st), cutEnd)
           rowsTo == Least(q.skip + ov, rowsEnd)
<1>1. n \in Nat /\ LastPosition \in Nat /\ n < LastPosition /\ ov - st \in Nat
  BY PagingAssumption DEF Least
<1>2. /\ Cut(q, s, st, lim) = Part(s, q.skip + st, cutEnd)
      /\ Cut(q, s, st, lim) \in Seq(Rows)
      /\ q.skip \in Nat /\ cutEnd \in Nat
  BY CutIsPart
<1>3. /\ RowsOf(q, s) = Part(s, q.skip, rowsEnd) /\ RowsOf(q, s) \in Seq(Rows)
      /\ rowsEnd \in Nat
  BY RowsArePart
<1>4. PySlice(Cut(q, s, st, lim), 0, ov - st) = Part(s, q.skip + st, cutTo)
  <2>1. PySlice(Cut(q, s, st, lim), 0, ov - st)
          = Part(Cut(q, s, st, lim), 0, ov - st)
    BY <1>1, <1>2, SliceIsPart
  <2>2. q.skip + st \in Nat /\ q.skip + st + 0 = q.skip + st
    BY <1>2
  <2>3. Part(Part(s, q.skip + st, cutEnd), 0, ov - st)
          = Part(s, q.skip + st + 0, cutTo)
    <3> DEFINE base == q.skip + st  span == ov - st
    <3>1. base \in Nat /\ span \in Nat /\ cutEnd \in Nat /\ 0 \in Nat
      BY <1>1, <1>2, <2>2
    <3> HIDE DEF cutEnd, base, span
    <3>2. Part(Part(s, base, cutEnd), 0, span)
            = Part(s, base + 0, Least(base + span, cutEnd))
      BY <3>1, PartOfPart
    <3> QED BY <3>2 DEF base, span
  <2> QED BY <1>2, <2>1, <2>2, <2>3
<1>5. PySlice(RowsOf(q, s), st, ov) = Part(s, q.skip + st, rowsTo)
  <2>1. PySlice(RowsOf(q, s), st, ov) = Part(RowsOf(q, s), st, ov)
    BY <1>3, SliceIsPart
  <2>2. Part(Part(s, q.skip, rowsEnd), st, ov) = Part(s, q.skip + st, rowsTo)
    <3>1. q.skip \in Nat /\ rowsEnd \in Nat /\ st \in Nat /\ ov \in Nat
      BY <1>2, <1>3
    <3> DEFINE skip == q.skip
    <3>2. skip \in Nat
      BY <3>1
    <3> HIDE DEF rowsEnd, skip
    <3>3. Part(Part(s, skip, rowsEnd), st, ov)
            = Part(s, skip + st, Least(skip + ov, rowsEnd))
      BY <3>1, <3>2, PartOfPart
    <3> QED BY <3>3 DEF skip
  <2> QED BY <1>3, <2>1, <2>2
<1>6. Part(s, q.skip + st, cutTo) = Part(s, q.skip + st, rowsTo)
  <2>1. cutTo \in Nat /\ rowsTo \in Nat /\ q.skip + st \in Nat
    <3> DEFINE skip == q.skip  reach == q.skip + st + (ov - st)  end == q.skip + ov
    <3>1. reach \in Nat /\ end \in Nat /\ q.skip + st \in Nat
      <4>1. skip \in Nat
        BY <1>2
      <4> HIDE DEF skip
      <4>2. skip + st + (ov - st) \in Nat /\ skip + ov \in Nat /\ skip + st \in Nat
        BY <1>1, <1>2, <4>1
      <4> QED BY <4>2 DEF skip
    <3>2. cutEnd \in Nat /\ rowsEnd \in Nat
      BY <1>2, <1>3
    <3>3. cutTo = Least(reach, cutEnd) /\ rowsTo = Least(end, rowsEnd)
      OBVIOUS
    <3> HIDE DEF cutEnd, rowsEnd, reach, end, cutTo, rowsTo
    <3> QED BY <3>1, <3>2, <3>3 DEF Least
  <2>2. \/ Least(cutTo, n) = Least(rowsTo, n)
        \/ Least(cutTo, n) <= q.skip + st /\ Least(rowsTo, n) <= q.skip + st
    <3>1. CASE q.limit = None
      <4>1. cutEnd = q.skip + st + lim /\ rowsEnd = n
        BY <3>1 DEF CutEnd, EndOf
      <4> HIDE DEF cutEnd, rowsEnd, n
      <4> QED BY <1>1, <1>2, <4>1 DEF Least
    <3>2. CASE q.limit # None
      <4>1. q.limit \in Nat
        BY <3>2 DEF QueryType
      <4>2. /\ cutEnd = q.skip + st + Most(0, Least(lim, q.limit - st))
            /\ rowsEnd = q.skip + q.limit
        BY <3>2 DEF CutEnd, EndOf
      <4> DEFINE own == q.limit  skip == q.skip
      <4>3. own \in Nat /\ skip \in Nat /\ n \in Nat /\ q.skip = skip
        BY <1>1, <1>2, <4>1
      <4>4. /\ cutTo = Least(skip + st + (ov - st),
                            skip + st + Most(0, Least(lim, own - st)))
            /\ rowsTo = Least(skip + ov, skip + own)
        BY <4>2
      <4> HIDE DEF cutTo, rowsTo, n, own, skip
      <4>5. CASE own <= st
        BY <1>1, <4>3, <4>4, <4>5 DEF Least, Most
      <4>6. CASE own > st
        BY <1>1, <4>3, <4>4, <4>6 DEF Least, Most
      <4> QED BY <4>3, <4>5, <4>6
    <3> QED BY <3>1, <3>2
  <2> HIDE DEF cutTo, rowsTo
  <2> QED BY <1>1, <2>1, <2>2, PartSame
<1> QED BY <1>4, <1>5, <1>6

\* A page from a position inside the window's bounds is the slice of the
\* whole result.
LEMMA CutIsSlice ==
  ASSUME NEW q \in QueryType, NEW s \in Seq(Rows), Len(s) < LastPosition,
         NEW w \in WindowType, w.start \in Nat, w.end \in Nat,
         ~Endless(w), Limit(w) > 0
  PROVE  SlicedAt(w, Cut(q, s, w.start, Limit(w)), w.start)
           = Sliced(w, RowsOf(q, s))
<1>1. /\ Overfetch(w) \in Nat /\ Limit(w) \in Nat
      /\ Limit(w) = Least(Overfetch(w), LastPosition) - w.start
      /\ w.start - w.start = 0
  BY PagingAssumption DEF Overfetch, Limit, Least
<1>2. PySlice(Cut(q, s, w.start, Limit(w)), 0, Overfetch(w) - w.start)
        = PySlice(RowsOf(q, s), w.start, Overfetch(w))
  BY <1>1, CutThenSlice
<1> QED BY <1>1, <1>2 DEF SlicedAt, Sliced

\* A window that holds nothing is answered with nothing, as slicing would.
LEMMA NothingIsSlice ==
  ASSUME NEW rows \in Seq(Rows), Len(rows) < LastPosition,
         NEW w \in WindowType, w.start \in Nat, w.end \in Nat, Limit(w) <= 0
  PROVE  SlicedAt(w, <<>>, w.start) = Sliced(w, rows)
<1>1. /\ Overfetch(w) \in Nat /\ LastPosition \in Nat /\ Len(rows) \in Nat
      /\ Least(Overfetch(w), LastPosition) - w.start <= 0
      /\ w.start - w.start = 0 /\ Overfetch(w) - w.start \in Int
  BY PagingAssumption DEF Overfetch, Limit
<1>2. Least(Overfetch(w), Len(rows)) <= w.start
  BY <1>1 DEF Least
<1>3. PySlice(rows, w.start, Overfetch(w)) = <<>>
  BY <1>1, <1>2, SliceIsPart, PartEmpty
<1>4. PySlice(<<>>, 0, Overfetch(w) - w.start) = <<>>
  BY <1>1, SliceOfNothing
<1> QED BY <1>1, <1>3, <1>4 DEF SlicedAt, Sliced

\* What a windowed read keeps for a parent is the slice of its rows.
LEMMA WindowIsSlice ==
  ASSUME NEW s \in Seq(Rows), Len(s) < LastPosition,
         NEW w \in WindowType, w.start \in Nat, w.end \in Nat
  PROVE  SlicedAt(w, Part(s, WindowStart(w), WindowStart(w) + WindowLimit(w)),
                  WindowStart(w))
           = Sliced(w, s)
<1> DEFINE st == w.start  ov == Overfetch(w)  n == Len(s)
           from == WindowStart(w)  lim == WindowLimit(w)
           rows == Part(s, from, from + lim)
<1>1. /\ st \in Nat /\ ov \in Nat /\ n \in Nat /\ n < LastPosition
      /\ LastPosition \in Nat
      /\ from = Least(st, LastPosition)
      /\ lim = Most(Least(ov, LastPosition) - from, 0)
  BY PagingAssumption DEF Overfetch, WindowStart, WindowLimit
<1> HIDE DEF st, ov, n, from, lim
<1>2. from \in Nat /\ lim \in Nat /\ from + lim \in Nat
      /\ st - from \in Nat /\ ov - from \in Int
  BY <1>1 DEF Least, Most
<1>3. rows \in Seq(Rows) /\ Len(rows) \in Nat
  <2>1. rows \in Seq(Rows)
    BY <1>2, PartType
  <2> HIDE DEF rows
  <2> QED BY <2>1
<1>4. PySlice(s, st, ov) = Part(s, st, ov)
  BY <1>1, SliceIsPart DEF n
<1>5. CASE lim = 0
  <2>1. Least(from + lim, n) <= from /\ Least(ov, n) <= st
    BY <1>1, <1>2, <1>5 DEF Least, Most
  <2>2. rows = <<>>
    BY <1>1, <1>2, <2>1, PartEmpty DEF n
  <2>3. Part(s, st, ov) = <<>>
    BY <1>1, <2>1, PartEmpty DEF n
  <2>4. PySlice(<<>>, st - from, ov - from) = <<>>
    BY <1>2, SliceOfNothing
  <2>5. PySlice(rows, st - from, ov - from) = PySlice(s, st, ov)
    BY <1>4, <2>2, <2>3, <2>4
  <2> QED BY <2>5 DEF SlicedAt, Sliced, st, ov, from, lim
<1>6. CASE lim > 0
  <2>1. from = st /\ ov - st \in Nat /\ st - from = 0
        /\ from + lim = Least(ov, LastPosition)
    BY <1>1, <1>2, <1>6 DEF Least, Most
  <2>2. PySlice(rows, 0, ov - st) = Part(rows, 0, ov - st)
    BY <1>3, <2>1, SliceIsPart
  <2>3. Part(rows, 0, ov - st) = Part(s, st + 0, Least(st + (ov - st), from + lim))
    <3> DEFINE span == ov - st  end == from + lim
    <3>1. span \in Nat /\ end \in Nat /\ 0 \in Nat
      BY <1>2, <2>1
    <3>2. rows = Part(s, st, end)
      BY <2>1
    <3> HIDE DEF span, end, rows
    <3>3. Part(Part(s, st, end), 0, span) = Part(s, st + 0, Least(st + span, end))
      BY <1>1, <3>1, PartOfPart
    <3> QED BY <3>2, <3>3 DEF span, end
  <2>4. /\ st + 0 = st /\ Least(st + (ov - st), from + lim) \in Nat
        /\ Least(Least(st + (ov - st), from + lim), n) = Least(ov, n)
    BY <1>1, <1>2, <2>1 DEF Least
  <2>5. Part(s, st, Least(st + (ov - st), from + lim)) = Part(s, st, ov)
    BY <1>1, <2>4, PartSame DEF n
  <2>6. PySlice(rows, st - from, ov - from) = PySlice(s, st, ov)
    BY <1>4, <2>1, <2>2, <2>3, <2>4, <2>5
  <2> QED BY <2>6 DEF SlicedAt, Sliced, st, ov, from, lim
<1> QED BY <1>2, <1>5, <1>6

\* Any slice of rows is a sequence of rows, and any answer made of rows has
\* the shape of a page.
PageType == [edges : Seq([cursor : Int, row : Rows]),
             hasNext : BOOLEAN, hasPrevious : BOOLEAN]

LEMMA SliceType ==
  ASSUME NEW rows \in Seq(Rows), NEW a \in Int, NEW b \in Int
  PROVE  PySlice(rows, a, b) \in Seq(Rows)
<1> DEFINE at(i) == IF i < 0 THEN Most(Len(rows) + i, 0) ELSE i
<1>1. at(a) \in Nat /\ at(b) \in Nat
  BY DEF Most
<1>2. PySlice(rows, a, b) = Part(rows, at(a), at(b))
  BY Zenon DEF PySlice, Part
<1> HIDE DEF at
<1> QED BY <1>1, <1>2, PartType

LEMMA AnswerType ==
  ASSUME NEW w \in WindowType, NEW nodes \in Seq(Rows)
  PROVE  Answer(w, nodes) \in PageType
<1> DEFINE more == ~Endless(w) /\ Len(nodes) = w.end - w.start + 1
           tail == Endless(w) /\ w.last # None
           from == IF tail /\ w.last > 0 THEN Most(Len(nodes) - w.last, 0) ELSE 0
           kept == IF more THEN SubSeq(nodes, 1, Len(nodes) - 1)
                           ELSE SubSeq(nodes, from + 1, Len(nodes))
           edges == [i \in 1..Len(kept) |->
                       [cursor |-> w.start + from + i - 1, row |-> kept[i]]]
<1>1. w.start \in Int /\ (tail => w.last \in Nat) /\ Len(nodes) \in Nat
  BY DEF WindowType
<1>2. from \in Nat
  BY <1>1 DEF Most
<1>3. kept \in Seq(Rows)
  <2>1. /\ \A i \in 1..Len(nodes) - 1 : nodes[i] \in Rows
        /\ \A i \in from + 1..Len(nodes) : nodes[i] \in Rows
    BY <1>2
  <2> HIDE DEF from, more
  <2>2. SubSeq(nodes, 1, Len(nodes) - 1) \in Seq(Rows)
    BY <1>1, <2>1, SubSeqProperties
  <2>3. SubSeq(nodes, from + 1, Len(nodes)) \in Seq(Rows)
    BY <1>1, <1>2, <2>1, SubSeqProperties
  <2> QED BY <2>2, <2>3
<1>4. edges \in Seq([cursor : Int, row : Rows])
  <2> HIDE DEF kept, from
  <2> QED BY <1>1, <1>2, <1>3
<1>5. Answer(w, nodes) = [edges |-> edges, hasNext |-> more,
                          hasPrevious |-> IF tail THEN from > 0 ELSE w.start > 0]
  BY DEF Answer
<1>6. more \in BOOLEAN /\ (IF tail THEN from > 0 ELSE w.start > 0) \in BOOLEAN
  <2>1. more = TRUE \/ more = FALSE
    BY Zenon
  <2>2. (from > 0) \in BOOLEAN /\ (w.start > 0) \in BOOLEAN
    BY <1>1, <1>2
  <2> HIDE DEF more, from, tail
  <2>3. CASE tail
    BY <2>1, <2>2, <2>3, Zenon
  <2>4. CASE ~tail
    BY <2>1, <2>2, <2>4, Zenon
  <2> QED BY <2>3, <2>4
<1> HIDE DEF edges, more, tail, from
<1> QED BY <1>4, <1>5, <1>6 DEF PageType

\* A part up to the last row ends there, and is all that a larger slice of it
\* holds.
LEMMA SliceOfAll ==
  ASSUME NEW rows \in Seq(Rows), NEW b \in Nat, Len(rows) <= b
  PROVE  PySlice(rows, 0, b) = rows
<1>1. PySlice(rows, 0, b) = Part(rows, 0, b)
  BY SliceIsPart
<1>2. Least(b, Len(rows)) = Len(rows)
  BY DEF Least
<1> QED BY <1>1, <1>2, SubSeqFull DEF Part

\* The edges of rows that begin at a position.
EdgesAt(rows, position) ==
  [i \in 1..Len(rows) |-> [cursor |-> position + i - 1, row |-> rows[i]]]

\* The last rows, located by the number of rows and cut: the rows the cut
\* finds are the part of the result from where they begin.
LEMMA TailIsPart ==
  ASSUME NEW q \in QueryType, NEW s \in Seq(Rows), Len(s) < LastPosition,
         NEW last \in Nat, last > 0, NEW off \in Nat
  PROVE  LET lim == Least(off + last, LastPosition) - off
         IN (IF lim <= 0 THEN <<>> ELSE Cut(q, s, off, lim))
              = Part(RowsOf(q, s), off, off + last)
<1> DEFINE R == RowsOf(q, s)
           lim == Least(off + last, LastPosition) - off
           rows == IF lim <= 0 THEN <<>> ELSE Cut(q, s, off, lim)
<1>0. lim \in Int /\ lim = Least(off + last, LastPosition) - off
  BY PagingAssumption DEF Least
<1>1. /\ R \in Seq(Rows) /\ Len(R) \in Nat /\ Len(R) <= Len(s)
      /\ Len(R) < LastPosition /\ LastPosition \in Nat
  BY RowsArePart, PagingAssumption
<1>2. rows = Part(R, off, off + last)
  <2> HIDE DEF lim
  <2>1. CASE lim <= 0
    <3>1. Least(off + last, Len(R)) <= off
      <4> HIDE DEF R
      <4> QED BY <1>0, <1>1, <2>1 DEF Least
    <3>2. Part(R, off, off + last) = <<>>
      <4> HIDE DEF R
      <4> QED BY <1>1, <3>1, PartEmpty
    <3> QED BY <2>1, <3>2
  <2>2. CASE lim > 0
    <3> DEFINE cut == Cut(q, s, off, lim)
    <3>1. lim \in Nat /\ rows = cut /\ off + last \in Nat /\ off + last - off = last
      BY <1>0, <2>2
    <3>2. cut = Part(s, q.skip + off, CutEnd(q, off, lim)) /\ cut \in Seq(Rows)
          /\ q.skip \in Nat /\ CutEnd(q, off, lim) \in Nat
      BY <3>1, CutIsPart
    <3>3. Len(cut) <= last
      <4>1. Len(cut) = Most(Least(CutEnd(q, off, lim), Len(s)) - (q.skip + off), 0)
        <5>1. q.skip + off \in Nat
          BY <3>2
        <5> QED BY <3>2, <5>1, PartType
      <4>2. CutEnd(q, off, lim) <= q.skip + off + lim
        <5>1. q.limit = None \/ q.limit \in Nat
          BY DEF QueryType
        <5>2. CASE q.limit = None
          BY <3>1, <3>2, <5>2 DEF CutEnd
        <5>3. CASE q.limit \in Nat
          <6>1. q.limit # None
            BY <5>3, PagingAssumption
          <6>2. CutEnd(q, off, lim)
                  = q.skip + off + Most(0, Least(lim, q.limit - off))
            BY <6>1 DEF CutEnd
          <6>3. Most(0, Least(lim, q.limit - off)) \in Nat
                /\ Most(0, Least(lim, q.limit - off)) <= lim
            BY <2>2, <3>1, <5>3 DEF Most, Least
          <6> QED BY <3>1, <3>2, <6>2, <6>3
        <5> QED BY <5>1, <5>2, <5>3
      <4>3. lim <= last
        BY <1>0, <1>1, <2>2 DEF Least
      <4> HIDE DEF cut
      <4> QED BY <1>1, <3>1, <3>2, <4>1, <4>2, <4>3 DEF Most, Least
    <3>4. PySlice(cut, 0, last) = cut
      <4> HIDE DEF cut
      <4> QED BY <3>2, <3>3, SliceOfAll
    <3>5. PySlice(cut, 0, off + last - off) = PySlice(R, off, off + last)
      BY <1>0, <2>2, <3>1, CutThenSlice
    <3>6. PySlice(R, off, off + last) = Part(R, off, off + last)
      BY <1>1, <3>1, SliceIsPart
    <3> QED BY <3>1, <3>4, <3>5, <3>6
  <2> QED BY <1>0, <2>1, <2>2
<1> QED BY <1>2

\* What the plain page of the last rows shows.
LEMMA TailShows ==
  ASSUME NEW rows \in Seq(Rows), NEW off \in Nat, NEW back \in BOOLEAN
  PROVE  [SlicedAt(Forward(Len(rows), off), rows, off) EXCEPT !.hasPrevious = back]
           = [edges |-> EdgesAt(rows, off), hasNext |-> FALSE, hasPrevious |-> back]
<1> DEFINE w == Forward(Len(rows), off)  n == Len(rows)
<1>1. /\ n \in Nat /\ w.start = off /\ w.end = off + n /\ w.last = None
      /\ off - off = 0
  BY DEF Forward
<1>2. Overfetch(w) - off \in Nat /\ n <= Overfetch(w) - off
  <2> HIDE DEF w, n
  <2> QED BY <1>1 DEF Overfetch
<1>3. PySlice(rows, 0, Overfetch(w) - off) = rows
  <2> HIDE DEF w
  <2> QED BY <1>2, SliceOfAll
<1>4. SlicedAt(w, rows, off) = Answer(w, rows)
  BY <1>1, <1>3 DEF SlicedAt
<1>5. ~(n = w.end - w.start + 1)
  BY <1>1
<1>6. SubSeq(rows, 0 + 1, n) = rows
  BY SubSeqFull
<1>7. \A i \in 1..n : off + 0 + i - 1 = off + i - 1
  OBVIOUS
<1>8. Answer(w, rows) = [edges |-> EdgesAt(rows, off), hasNext |-> FALSE,
                         hasPrevious |-> w.start > 0]
  <2>1. [i \in 1..n |-> [cursor |-> w.start + 0 + i - 1, row |-> rows[i]]]
          = EdgesAt(rows, off)
    BY <1>1, <1>7 DEF EdgesAt
  <2> HIDE DEF w
  <2> QED BY <1>1, <1>5, <1>6, <2>1 DEF Answer
<1>9. SlicedAt(Forward(Len(rows), off), rows, off)
        = [edges |-> EdgesAt(rows, off), hasNext |-> FALSE,
           hasPrevious |-> w.start > 0]
  BY <1>4, <1>8
<1>10. \A e, f, old, new :
         [[edges |-> e, hasNext |-> f, hasPrevious |-> old]
            EXCEPT !.hasPrevious = new]
           = [edges |-> e, hasNext |-> f, hasPrevious |-> new]
  OBVIOUS
<1> DEFINE shown == SlicedAt(Forward(Len(rows), off), rows, off)
           edges == EdgesAt(rows, off)  no == FALSE  old == w.start > 0
<1>11. shown = [edges |-> edges, hasNext |-> no, hasPrevious |-> old]
  BY <1>9
<1> HIDE DEF shown, edges, no, old
<1>12. [shown EXCEPT !.hasPrevious = back]
         = [edges |-> edges, hasNext |-> no, hasPrevious |-> back]
  BY <1>10, <1>11
<1> QED BY <1>12 DEF shown, edges, no

\* The last rows of a result after a position are those from where they begin.
LEMMA LastRowsArePart ==
  ASSUME NEW R \in Seq(Rows), Len(R) < LastPosition,
         NEW st \in Nat, NEW last \in Nat, last > 0
  PROVE  LET got == PySlice(R, st, LastPosition)
             from == Most(Len(got) - last, 0)
             off == Most(st, Len(R) - last)
         IN /\ got \in Seq(Rows)
            /\ from \in Nat /\ off \in Nat /\ st + from = off
            /\ SubSeq(got, from + 1, Len(got)) = Part(R, off, off + last)
<1> DEFINE n == Len(R)  got == PySlice(R, st, LastPosition)  ln == Len(got)
           from == Most(ln - last, 0)  off == Most(st, n - last)
           kept == SubSeq(got, from + 1, ln)
<1>1. n \in Nat /\ LastPosition \in Nat /\ n < LastPosition
  BY PagingAssumption
<1>2. got = Part(R, st, LastPosition) /\ got \in Seq(Rows)
      /\ ln = Most(Least(LastPosition, n) - st, 0)
  <2>1. got = Part(R, st, LastPosition)
    BY <1>1, SliceIsPart
  <2>2. /\ Part(R, st, LastPosition) \in Seq(Rows)
        /\ Len(Part(R, st, LastPosition)) = Most(Least(LastPosition, n) - st, 0)
    BY <1>1, PartType
  <2> QED BY <2>1, <2>2
<1>3. ln \in Nat /\ ln = Most(n - st, 0)
  <2> HIDE DEF got, n
  <2> QED BY <1>1, <1>2 DEF Most, Least
<1>4. from \in Nat /\ off \in Nat /\ st + from = off
  <2> HIDE DEF ln, n
  <2> QED BY <1>1, <1>3 DEF Most
<1>5. kept = Part(R, off, off + last)
  <2>1. Least(ln, ln) = ln
    BY DEF Least
  <2>2. kept = Part(got, from, ln)
    BY <2>1 DEF Part
  <2>3. Part(Part(R, st, LastPosition), from, ln)
          = Part(R, st + from, Least(st + ln, LastPosition))
    <3> HIDE DEF ln, from
    <3> QED BY <1>1, <1>3, <1>4, PartOfPart
  <2>4. /\ Least(st + ln, LastPosition) \in Nat /\ off + last \in Nat
        /\ \/ Least(Least(st + ln, LastPosition), n) = Least(off + last, n)
           \/ /\ Least(Least(st + ln, LastPosition), n) <= off
              /\ Least(off + last, n) <= off
    <3> HIDE DEF ln, n
    <3> QED BY <1>1, <1>3 DEF Most, Least
  <2>5. Part(R, off, Least(st + ln, LastPosition)) = Part(R, off, off + last)
    <3> HIDE DEF ln, off
    <3> QED BY <1>1, <1>4, <2>4, PartSame DEF n
  <2> HIDE DEF kept, ln, from, off, got
  <2> QED BY <1>2, <1>4, <2>2, <2>3, <2>5
<1> QED BY <1>2, <1>4, <1>5

\* What slicing the last rows out of the whole result shows.
LEMMA LastRowsShow ==
  ASSUME NEW R \in Seq(Rows), Len(R) < LastPosition,
         NEW w \in WindowType, Endless(w), w.start \in Nat,
         w.last \in Nat, w.last > 0
  PROVE  LET off == Most(w.start, Len(R) - w.last)
         IN Sliced(w, R) = [edges |-> EdgesAt(Part(R, off, off + w.last), off),
                            hasNext |-> FALSE, hasPrevious |-> off > w.start]
<1> DEFINE st == w.start  last == w.last
           got == PySlice(R, st, LastPosition)  ln == Len(got)
           from == Most(ln - last, 0)  kept == SubSeq(got, from + 1, ln)
           off == Most(st, Len(R) - last)
           edges == [i \in 1..Len(kept) |->
                       [cursor |-> st + from + i - 1, row |-> kept[i]]]
<1>1. st \in Nat /\ last \in Nat /\ last > 0 /\ w.last # None
  BY PagingAssumption
<1>2. /\ from \in Nat /\ off \in Nat /\ st + from = off
      /\ kept = Part(R, off, off + last)
  <2> HIDE DEF st, last
  <2> QED BY <1>1, LastRowsArePart
<1>3. Sliced(w, R) = Answer(w, got)
  BY DEF Sliced, Overfetch, Endless
<1>4. Answer(w, got) = [edges |-> edges, hasNext |-> FALSE, hasPrevious |-> from > 0]
  <2> HIDE DEF got
  <2> QED BY <1>1, Zenon DEF Answer
<1>5. edges = EdgesAt(kept, off)
  <2> HIDE DEF kept, from, st, off
  <2> QED BY <1>2 DEF EdgesAt
<1>6. (from > 0) = (off > st)
  <2> HIDE DEF from, st, off
  <2> QED BY <1>1, <1>2
<1> HIDE DEF edges, kept, from
<1> QED BY <1>2, <1>3, <1>4, <1>5, <1>6

\* The page cut for the last rows, located when nobody has written since, is
\* the slice of the whole result.
LEMMA TailIsSlice ==
  ASSUME NEW q \in QueryType, NEW s \in Seq(Rows), Len(s) < LastPosition,
         NEW w \in WindowType, Endless(w), w.start \in Nat,
         w.last \in Nat, w.last > 0
  PROVE  LET off == Most(w.start, Len(RowsOf(q, s)) - w.last)
             lim == Least(off + w.last, LastPosition) - off
             rows == IF lim <= 0 THEN <<>> ELSE Cut(q, s, off, lim)
         IN [SlicedAt(Forward(Len(rows), off), rows, off)
               EXCEPT !.hasPrevious = off > w.start] = Sliced(w, RowsOf(q, s))
<1> DEFINE st == w.start  last == w.last  R == RowsOf(q, s)
           off == Most(st, Len(R) - last)
           lim == Least(off + last, LastPosition) - off
           rows == IF lim <= 0 THEN <<>> ELSE Cut(q, s, off, lim)
           back == off > st
<1>1. R \in Seq(Rows) /\ Len(R) < LastPosition /\ LastPosition \in Nat
  BY RowsArePart, PagingAssumption
<1>2. st \in Nat /\ last \in Nat /\ last > 0 /\ off \in Nat /\ lim \in Int
      /\ off + last \in Nat
  <2>1. st \in Nat /\ last \in Nat /\ last > 0
    OBVIOUS
  <2> HIDE DEF st, last, R
  <2> QED BY <1>1, <2>1 DEF Most, Least
<1>3. rows = Part(R, off, off + last)
  <2> HIDE DEF off, last
  <2> QED BY <1>2, TailIsPart
<1>4. rows \in Seq(Rows)
  <2> HIDE DEF R, off, last, rows
  <2> QED BY <1>1, <1>2, <1>3, PartType
<1>5. back \in BOOLEAN
  BY <1>2
<1>6. [SlicedAt(Forward(Len(rows), off), rows, off) EXCEPT !.hasPrevious = back]
        = [edges |-> EdgesAt(rows, off), hasNext |-> FALSE, hasPrevious |-> back]
  <2> HIDE DEF back, rows, off
  <2> QED BY <1>2, <1>4, <1>5, TailShows
<1>7. Sliced(w, R) = [edges |-> EdgesAt(Part(R, off, off + last), off),
                      hasNext |-> FALSE, hasPrevious |-> back]
  <2> HIDE DEF R
  <2> QED BY <1>1, LastRowsShow
<1> HIDE DEF rows
<1>8. [SlicedAt(Forward(Len(rows), off), rows, off) EXCEPT !.hasPrevious = back]
        = Sliced(w, R)
  BY <1>3, <1>6, <1>7
<1> QED BY <1>8 DEF rows

\* A page shorter than its limit ends where the rows of the query end, unless
\* it began past the end.
LEMMA ShortPageIsTheEnd ==
  ASSUME NEW q \in QueryType, NEW s \in Seq(Rows), NEW st \in Nat,
         NEW lim \in Nat, Len(Cut(q, s, st, lim)) < lim,
         Cut(q, s, st, lim) # <<>> \/ st = 0
  PROVE  st + Len(Cut(q, s, st, lim)) = Len(RowsOf(q, s))
<1> DEFINE n == Len(s)  skip == q.skip  own == q.limit
           cut == Cut(q, s, st, lim)  got == Len(cut)
           cutEnd == CutEnd(q, st, lim)  rowsEnd == EndOf(q, n)
<1>1. /\ skip \in Nat /\ cutEnd \in Nat /\ rowsEnd \in Nat /\ n \in Nat
      /\ cut = Part(s, skip + st, cutEnd) /\ cut \in Seq(Rows)
      /\ Len(RowsOf(q, s)) = Most(Least(rowsEnd, n) - skip, 0)
  <2>1. /\ Cut(q, s, st, lim) = Part(s, q.skip + st, CutEnd(q, st, lim))
        /\ q.skip \in Nat /\ CutEnd(q, st, lim) \in Nat
        /\ Cut(q, s, st, lim) \in Seq(Rows)
    BY CutIsPart
  <2>2. /\ EndOf(q, Len(s)) \in Nat /\ Len(s) \in Nat
        /\ Len(RowsOf(q, s)) = Most(Least(EndOf(q, Len(s)), Len(s)) - q.skip, 0)
    BY RowsArePart
  <2> QED BY <2>1, <2>2
<1>2. got = Most(Least(cutEnd, n) - (skip + st), 0)
  <2>1. skip + st \in Nat
    BY <1>1
  <2> HIDE DEF skip, cutEnd
  <2> QED BY <1>1, <2>1, PartType
<1>3. got \in Nat /\ got < lim /\ (got > 0 \/ st = 0)
  <2>1. cut # <<>> => Len(cut) > 0
    <3> HIDE DEF cut
    <3> QED BY <1>1, EmptySeq
  <2> QED BY <1>1, <2>1
<1>4. CASE own = None
  <2>1. cutEnd = skip + st + lim /\ rowsEnd = n
    BY <1>4 DEF CutEnd, EndOf
  <2> HIDE DEF cutEnd, rowsEnd, skip, n, got
  <2>2. st + got = Most(Least(rowsEnd, n) - skip, 0)
    BY <1>1, <1>2, <1>3, <2>1 DEF Most, Least
  <2> QED BY <1>1, <2>2 DEF got
<1>5. CASE own # None
  <2>1. own \in Nat
    BY <1>5 DEF QueryType
  <2>2. cutEnd = skip + st + Most(0, Least(lim, own - st)) /\ rowsEnd = skip + own
    BY <1>5 DEF CutEnd, EndOf
  <2> HIDE DEF cutEnd, rowsEnd, skip, n, got, own
  <2>3. st + got = Most(Least(rowsEnd, n) - skip, 0)
    BY <1>1, <1>2, <1>3, <2>1, <2>2 DEF Most, Least
  <2> QED BY <1>1, <2>3 DEF got
<1> QED BY <1>4, <1>5

\* How many rows a query has is a number.
LEMMA SizeType ==
  ASSUME NEW t \in SUBSET Rows, NEW q \in QueryType
  PROVE  SizeOf(q, t) \in Nat
<1>1. IsFiniteSet(t)
  BY PagingAssumption, FS_Subset
<1>2. Cardinality(t) \in Nat
  BY <1>1, FS_CardinalityType
<1>3. q.skip \in Nat /\ (q.limit = None \/ q.limit \in Nat)
  BY DEF QueryType
<1> QED BY <1>2, <1>3 DEF SizeOf, Most, Least

\* The rows of a query are distinct.
LEMMA RowsAreDistinct ==
  ASSUME table \subseteq Rows, NEW q \in QueryType, NEW exact,
         NEW s \in Listings(q, exact)
  PROVE  IsInjective(RowsOf(q, s))
<1>1. s \in Seq(Rows) /\ IsInjective(s)
  <2>1. /\ s \in [1..Cardinality(table) -> table]
        /\ \A i, j \in 1..Cardinality(table) : i # j => s[i] # s[j]
    BY DEF Listings, SetToSeqs
  <2>2. s \in Seq(Rows)
    BY ListingFacts
  <2> QED BY <2>1, <2>2 DEF IsInjective
<1> DEFINE a == q.skip + 1
           b == IF q.limit = None THEN Len(s) ELSE Least(q.skip + q.limit, Len(s))
<1>2. a \in Nat /\ a >= 1 /\ b \in Int /\ b <= Len(s)
  BY <1>1 DEF QueryType, Least
<1>3. RowsOf(q, s) = SubSeq(s, a, b)
  BY DEF RowsOf
<1> HIDE DEF a, b
<1>4. \A i \in DOMAIN SubSeq(s, a, b) :
        SubSeq(s, a, b)[i] = s[a + i - 1] /\ a + i - 1 \in DOMAIN s /\ i \in Nat
  BY <1>1, <1>2
<1>5. IsInjective(SubSeq(s, a, b))
  BY <1>1, <1>2, <1>4, SMT DEF IsInjective
<1> QED BY <1>3, <1>5

-----------------------------------------------------------------------------
(* The types of what a request is made of.                                 *)

RequestType == [window : WindowType, how : {"query", "batch"},
                edges : BOOLEAN, counts : BOOLEAN]

LEMMA WindowsAreWindows ==
  /\ \A w \in Windows : w \in WindowType
  /\ \A n \in Nat, position \in Int :
       /\ Forward(n, position) \in WindowType
       /\ Backward(n) \in WindowType
       /\ Before(n, position) \in WindowType
BY PagingAssumption DEF WindowType, Forward, Backward, Before, Most

LEMMA QueriesAreQueries ==
  ASSUME NEW q \in Queries \cup {Plain}
  PROVE  q \in QueryType
<1>1. Plain \in QueryType
  BY DEF Plain, QueryType, Kinds
<1> QED BY <1>1, PagingAssumption DEF QueryType

LEMMA PagesArePages ==
  /\ NoAnswer \in PageType
  /\ \A w \in WindowType, rows \in Seq(Rows), offset \in Int :
       SlicedAt(w, rows, offset) \in PageType /\ Sliced(w, rows) \in PageType
<1>1. NoAnswer \in PageType
  BY DEF NoAnswer, PageType
<1>2. ASSUME NEW w \in WindowType, NEW rows \in Seq(Rows), NEW offset \in Int
      PROVE  SlicedAt(w, rows, offset) \in PageType /\ Sliced(w, rows) \in PageType
  <2>1. w.start \in Int /\ Overfetch(w) \in Int
        /\ w.start - offset \in Int /\ Overfetch(w) - offset \in Int
    BY DEF WindowType, Overfetch
  <2>2. /\ PySlice(rows, w.start - offset, Overfetch(w) - offset) \in Seq(Rows)
        /\ PySlice(rows, w.start, Overfetch(w)) \in Seq(Rows)
    BY <2>1, SliceType
  <2> QED BY <2>2, AnswerType DEF SlicedAt, Sliced
<1> QED BY <1>1, <1>2

-----------------------------------------------------------------------------
(* The inductive invariant.                                                *)

\* What the statement a request waits for says of the request.
Fits(at, r) ==
  LET w == r.window IN
  /\ at = "page" => /\ r.edges /\ w.start \in Nat /\ w.end \in Nat
                    /\ ~Endless(w) /\ Limit(w) > 0
  /\ at = "window" => w.start \in Nat /\ w.end \in Nat
  /\ at \in {"locate", "tail"} => /\ r.edges /\ Endless(w) /\ w.start \in Nat
                                  /\ w.last \in Nat /\ w.last > 0
  /\ at = "count" => r.counts

\* The types: those of a request, and those of what stands beside it.
RequestTypes ==
  /\ query \in Queries \cup {Plain} /\ asked \in RequestType /\ stage \in Stages
  /\ listing \in Seq(Rows) /\ IsInjective(listing) /\ page \in PageType
  /\ total \in Nat \cup {None} /\ sizes \subseteq Nat /\ raced \in BOOLEAN

ClientTypes ==
  /\ table \subseteq Rows /\ writes \in 0..MaxWrites
  /\ walk \in [way : {"none", "forward", "backward"}, size : Nat, seen : Seq(Rows)]

\* The ghost has the number of rows there are now, and a total that locates
\* the last rows is one of its numbers: that of now, if nobody wrote.
SizesFit ==
  /\ stage # "idle" => SizeOf(query, table) \in sizes
  /\ stage = "tail" => /\ total \in sizes
                       /\ ~raced => total = SizeOf(query, table)

\* A page that has been read is the slice, also while its total is counted.
PageFits ==
  stage \in {"count", "tally", "answered"} /\ (IsTail => ~raced)
    => page = PageOf(asked, Sliced(Window, listing))

RequestInv ==
  /\ RequestTypes /\ Fits(stage, asked) /\ SizesFit /\ PageFits /\ TotalIsReal

PagingInv == ClientTypes /\ RequestInv

\* The first stage of a request fits it.
LEMMA FirstStageFits ==
  ASSUME NEW r \in RequestType, NEW q \in QueryType
  PROVE  FirstStage(r, q) \in Stages \ {"idle", "tail", "tally"}
         /\ Fits(FirstStage(r, q), r)
         /\ (FirstStage(r, q) = "answered" => ~r.counts)
         /\ (FirstStage(r, q) \in {"count", "answered"} => NeedsNoPage(r))
<1> DEFINE w == r.window
<1>1. /\ w \in WindowType /\ r.edges \in BOOLEAN /\ r.counts \in BOOLEAN
      /\ r.how \in {"query", "batch"}
  BY DEF RequestType
<1>2. /\ w.start \in Int /\ w.end \in Int /\ (w.last = None \/ w.last \in Nat)
      /\ (~FromTheEnd(w) => w.start \in Nat /\ w.end \in Nat)
      /\ Limit(w) \in Int
  BY <1>1, PagingAssumption DEF WindowType, FromTheEnd, Limit, Overfetch, Least
<1>3. CASE ReadsWhole(r, q)
  BY <1>3 DEF FirstStage, Fits, Stages
<1>4. CASE ~ReadsWhole(r, q) /\ NeedsNoPage(r)
  BY <1>1, <1>4 DEF FirstStage, Fits, Stages
<1>5. CASE ~ReadsWhole(r, q) /\ ~NeedsNoPage(r) /\ r.how = "batch"
  <2>1. ~FromTheEnd(w)
    BY <1>5 DEF ReadsWhole
  <2>2. FirstStage(r, q) = "window"
    BY <1>5 DEF FirstStage
  <2> QED BY <1>2, <2>1, <2>2 DEF Fits, Stages
<1>6. CASE ~ReadsWhole(r, q) /\ ~NeedsNoPage(r) /\ r.how = "query"
  <2>1. ~FromTheEnd(w)
    BY <1>6 DEF ReadsWhole
  <2>2. r.edges /\ (Endless(w) \/ Limit(w) > 0)
    <3>1. ~(r.edges => ~Endless(w) /\ Limit(w) <= 0)
      BY <1>6, <2>1 DEF NeedsNoPage
    <3> QED BY <1>2, <3>1
  <2>3. CASE Endless(w)
    <3>1. FirstStage(r, q) = "locate"
      BY <1>6, <2>3 DEF FirstStage
    <3>2. w.last \notin {0, None}
      BY <1>6, <2>2, <2>3 DEF ReadsWhole
    <3> QED BY <1>2, <2>1, <2>2, <2>3, <3>1, <3>2 DEF Fits, Stages
  <2>4. CASE ~Endless(w)
    <3>1. FirstStage(r, q) = "page"
      BY <1>6, <2>4 DEF FirstStage
    <3> QED BY <1>2, <2>1, <2>2, <2>4, <3>1 DEF Fits, Stages
  <2> QED BY <2>3, <2>4
<1> QED BY <1>1, <1>3, <1>4, <1>5, <1>6

\* An edge has a cursor and a row.
LEMMA EdgesAreEdges ==
  ASSUME NEW edges \in Seq([cursor : Int, row : Rows]), NEW i \in DOMAIN edges
  PROVE  /\ edges[i] \in [cursor : Int, row : Rows]
         /\ edges[i].cursor \in Int /\ edges[i].row \in Rows
<1> DEFINE edge == [cursor : Int, row : Rows]
<1>1. \A e \in edge : e.cursor \in Int /\ e.row \in Rows
  OBVIOUS
<1> HIDE DEF edge
<1>2. edges \in Seq(edge) /\ i \in 1..Len(edges)
  BY DEF edge
<1>3. edges[i] \in edge
  BY <1>2, ElementOfSeq
<1> QED BY <1>1, <1>3 DEF edge

LEMMA PageOfType ==
  ASSUME NEW r, NEW answer \in PageType
  PROVE  PageOf(r, answer) \in PageType
<1>1. PageOf(r, answer) \in {answer, NoAnswer}
  BY DEF PageOf
<1> QED BY <1>1, PagesArePages

\* A request begins with the invariant: where there is nothing to read, the
\* page of nothing is what slicing would give.
LEMMA BeginKeeps ==
  ASSUME table \subseteq Rows, UNCHANGED table, NEW r \in RequestType,
         NEW q \in Queries \cup {Plain}, Begin(r, q)
  PROVE  RequestInv'
<1>1. /\ asked' = r /\ query' = q /\ stage' = FirstStage(r, q)
      /\ total' = None /\ sizes' = {SizeOf(q, table)} /\ raced' = FALSE
      /\ page' = IF NeedsNoPage(r)
                   THEN PageOf(r, SlicedAt(r.window, <<>>, r.window.start))
                   ELSE NoAnswer
      /\ table' = table
  BY DEF Begin
<1>2. /\ q \in QueryType /\ r.window \in WindowType /\ r.window.start \in Int
      /\ SizeOf(q, table) \in Nat
  <2>1. q \in QueryType
    BY QueriesAreQueries
  <2>2. r.window \in WindowType /\ r.window.start \in Int
    BY DEF RequestType, WindowType
  <2> QED BY <2>1, <2>2, SizeType
<1>3. /\ listing' \in Seq(Rows) /\ IsInjective(listing') /\ Len(listing') < LastPosition
  <2>1. PICK s \in Listings(q, TRUE) : listing' = RowsOf(q, s)
    BY DEF Begin
  <2>2. s \in Seq(Rows) /\ Len(s) < LastPosition /\ LastPosition \in Nat
    BY ListingFacts, PagingAssumption
  <2>3. listing' \in Seq(Rows) /\ Len(listing') <= Len(s)
    BY <1>2, <2>1, <2>2, RowsArePart
  <2>4. IsInjective(listing')
    BY <1>2, <2>1, RowsAreDistinct
  <2> QED BY <2>2, <2>3, <2>4
<1>4. page' \in PageType
  <2>1. <<>> \in Seq(Rows)
    OBVIOUS
  <2>2. SlicedAt(r.window, <<>>, r.window.start) \in PageType
    BY <1>2, <2>1, PagesArePages
  <2> QED BY <1>1, <2>2, PageOfType, PagesArePages
<1>5. /\ stage' \in Stages \ {"idle", "tail", "tally"} /\ Fits(stage', asked')
      /\ stage' = "answered" => ~r.counts
      /\ stage' \in {"count", "answered"} => NeedsNoPage(r)
  BY <1>1, <1>2, FirstStageFits
<1>6. RequestTypes'
  BY <1>1, <1>2, <1>3, <1>4, <1>5 DEF RequestTypes
<1>7. SizesFit'
  BY <1>1, <1>5 DEF SizesFit
<1>8. TotalIsReal'
  BY <1>1, <1>5 DEF TotalIsReal
<1>9. PageFits'
  <2> SUFFICES ASSUME stage' \in {"count", "tally", "answered"}
               PROVE  page' = PageOf(r, Sliced(r.window, listing'))
    BY <1>1 DEF PageFits, Window
  <2>1. NeedsNoPage(r) /\ page' = PageOf(r, SlicedAt(r.window, <<>>, r.window.start))
    BY <1>1, <1>5
  <2>2. CASE r.edges
    <3>1. /\ r.window.start \in Nat /\ r.window.end \in Nat
          /\ Limit(r.window) <= 0
      <4>1. r.window.start \in Int /\ r.window.end \in Int
        BY <1>2 DEF WindowType
      <4> QED BY <2>1, <2>2, <4>1 DEF NeedsNoPage, FromTheEnd
    <3>2. SlicedAt(r.window, <<>>, r.window.start) = Sliced(r.window, listing')
      BY <1>2, <1>3, <3>1, NothingIsSlice
    <3> QED BY <2>1, <3>2
  <2>3. CASE ~r.edges
    BY <2>1, <2>3 DEF PageOf
  <2> QED BY <2>2, <2>3
<1> QED BY <1>1, <1>5, <1>6, <1>7, <1>8, <1>9 DEF RequestInv

-----------------------------------------------------------------------------
(* The statements keep the invariant.                                      *)

\* What the invariant says of the request, to a statement that lists the rows
\* of its query.
LEMMA Reading ==
  ASSUME PagingInv
  PROVE  /\ query \in QueryType /\ Window \in WindowType /\ table \subseteq Rows
         /\ asked.edges \in BOOLEAN /\ asked.counts \in BOOLEAN
         /\ SizeOf(query, table) \in Nat
         /\ \A exact : \A s \in Listings(query, exact) :
              /\ s \in Seq(Rows) /\ IsInjective(s) /\ Len(s) < LastPosition
              /\ RowsOf(query, s) \in Seq(Rows) /\ IsInjective(RowsOf(query, s))
              /\ Len(RowsOf(query, s)) = SizeOf(query, table)
<1>1. /\ query \in QueryType /\ Window \in WindowType /\ table \subseteq Rows
      /\ asked.edges \in BOOLEAN /\ asked.counts \in BOOLEAN
  BY QueriesAreQueries
     DEF PagingInv, RequestInv, RequestTypes, ClientTypes, RequestType, Window
<1>2. SizeOf(query, table) \in Nat
  BY <1>1, SizeType
<1>3. ASSUME NEW exact, NEW s \in Listings(query, exact)
      PROVE  /\ s \in Seq(Rows) /\ IsInjective(s) /\ Len(s) < LastPosition
             /\ RowsOf(query, s) \in Seq(Rows) /\ IsInjective(RowsOf(query, s))
             /\ Len(RowsOf(query, s)) = SizeOf(query, table)
  <2>1. s \in Seq(Rows) /\ Len(s) < LastPosition
    BY <1>1, ListingFacts
  <2>2. IsInjective(s)
    <3>1. /\ s \in [1..Cardinality(table) -> table]
          /\ \A i, j \in 1..Cardinality(table) : i # j => s[i] # s[j]
      BY DEF Listings, SetToSeqs
    <3> QED BY <3>1 DEF IsInjective
  <2>3. RowsOf(query, s) \in Seq(Rows)
    BY <1>1, <2>1, RowsArePart
  <2>4. IsInjective(RowsOf(query, s))
    BY <1>1, RowsAreDistinct
  <2>5. Len(RowsOf(query, s)) = SizeOf(query, table)
    BY <1>1, RowsAreCounted
  <2> QED BY <2>1, <2>2, <2>3, <2>4, <2>5
<1> QED BY <1>1, <1>2, <1>3

\* Every row is read, and the page is sliced by definition.
LEMMA ReadWholeKeeps ==
  ASSUME PagingInv, ReadWhole
  PROVE  RequestInv'
<1> USE DEF asking
<1>1. PICK s \in Listings(query, FALSE) : listing' = RowsOf(query, s)
  BY DEF ReadWhole
<1>2. /\ query \in QueryType /\ Window \in WindowType
      /\ listing' \in Seq(Rows) /\ IsInjective(listing')
      /\ Len(listing') = SizeOf(query, table) /\ SizeOf(query, table) \in Nat
  BY <1>1, Reading
<1>3. /\ stage = "whole" /\ stage' = "answered"
      /\ page' = PageOf(asked, Sliced(Window, listing'))
      /\ total' = IF asked.counts THEN Len(listing') ELSE None
      /\ UNCHANGED <<table, query, asked, sizes, raced>>
  BY DEF ReadWhole
<1>4. SizeOf(query, table) \in sizes
  BY <1>3 DEF PagingInv, RequestInv, SizesFit
<1>5. page' \in PageType
  <2>1. Sliced(Window, listing') \in PageType
    <3>1. 0 \in Int
      OBVIOUS
    <3> QED BY <1>2, <3>1, PagesArePages
  <2> QED BY <1>3, <2>1, PageOfType
<1>6. RequestTypes'
  BY <1>2, <1>3, <1>5 DEF PagingInv, RequestInv, RequestTypes, Stages
<1>7. Fits(stage', asked')
  BY <1>3 DEF Fits
<1>8. SizesFit' /\ TotalIsReal'
  BY <1>2, <1>3, <1>4 DEF SizesFit, TotalIsReal
<1>9. PageFits'
  BY <1>3 DEF PageFits, Window
<1> QED BY <1>6, <1>7, <1>8, <1>9 DEF RequestInv

\* The page is cut by the database; a short one tells the total.
LEMMA ReadPageKeeps ==
  ASSUME PagingInv, ReadPage
  PROVE  RequestInv'
<1> USE DEF asking
<1> DEFINE w == Window  st == w.start  lim == Limit(w)
<1>1. PICK s \in Listings(query, OrdersToTheRow(query)) :
        /\ listing' = RowsOf(query, s)
        /\ page' = SlicedAt(w, Cut(query, s, st, lim), st)
        /\ IF asked.counts /\ ~ShortPage(Cut(query, s, st, lim))
             THEN stage' = "count" /\ total' = None
             ELSE /\ stage' = "answered"
                  /\ total' = IF asked.counts THEN st + Len(Cut(query, s, st, lim))
                                              ELSE None
  BY DEF ReadPage
<1>2. /\ query \in QueryType /\ w \in WindowType
      /\ s \in Seq(Rows) /\ Len(s) < LastPosition
      /\ listing' \in Seq(Rows) /\ IsInjective(listing')
      /\ Len(RowsOf(query, s)) = SizeOf(query, table)
      /\ SizeOf(query, table) \in Nat
  BY <1>1, Reading
<1>3. stage = "page" /\ UNCHANGED <<table, query, asked, sizes, raced>>
  BY DEF ReadPage
<1>4. SizeOf(query, table) \in sizes
  BY <1>3 DEF PagingInv, RequestInv, SizesFit
<1>5. /\ asked.edges /\ st \in Nat /\ w.end \in Nat /\ ~Endless(w) /\ lim > 0
      /\ lim \in Nat
  <2>1. asked.edges /\ st \in Nat /\ w.end \in Nat /\ ~Endless(w) /\ lim > 0
    BY <1>3 DEF PagingInv, RequestInv, Fits, Window
  <2> QED BY <2>1, PagingAssumption DEF Limit, Overfetch, Least
<1>6. Cut(query, s, st, lim) \in Seq(Rows)
  BY <1>2, <1>5, CutIsPart
<1>7. page' \in PageType
  BY <1>1, <1>2, <1>5, <1>6, PagesArePages
<1>8. page' = PageOf(asked, Sliced(w, listing'))
  <2>1. SlicedAt(w, Cut(query, s, w.start, Limit(w)), w.start)
          = Sliced(w, RowsOf(query, s))
    <3> HIDE DEF w
    <3> QED BY <1>2, <1>5, CutIsSlice DEF st, lim
  <2> QED BY <1>1, <1>5, <2>1 DEF PageOf
<1>9. /\ total' \in Nat \cup {None} /\ stage' \in {"count", "answered"}
      /\ stage' = "answered" => IF asked.counts THEN total' \in sizes
                                                ELSE total' = None
      /\ stage' = "count" => asked.counts
  <2>1. CASE asked.counts /\ ShortPage(Cut(query, s, st, lim))
    <3>1. st + Len(Cut(query, s, st, lim)) = Len(RowsOf(query, s))
      <4>1. /\ Len(Cut(query, s, st, lim)) < lim
            /\ Cut(query, s, st, lim) # <<>> \/ st = 0
        BY <2>1 DEF ShortPage
      <4> HIDE DEF st, lim
      <4> QED BY <1>2, <1>5, <4>1, ShortPageIsTheEnd
    <3> QED BY <1>1, <1>2, <1>4, <2>1, <3>1
  <2>2. CASE asked.counts /\ ~ShortPage(Cut(query, s, st, lim))
    BY <1>1, <2>2
  <2>3. CASE ~asked.counts
    BY <1>1, <2>3
  <2> QED BY <2>1, <2>2, <2>3
<1>10. RequestTypes'
  BY <1>2, <1>3, <1>7, <1>9 DEF PagingInv, RequestInv, RequestTypes, Stages
<1>11. Fits(stage', asked')
  BY <1>3, <1>9 DEF Fits
<1>12. SizesFit' /\ TotalIsReal'
  BY <1>3, <1>4, <1>9 DEF SizesFit, TotalIsReal
<1>13. PageFits'
  BY <1>3, <1>8 DEF PageFits, Window
<1> QED BY <1>10, <1>11, <1>12, <1>13 DEF RequestInv

\* The last rows, from where a total located them.
LEMMA ReadTailKeeps ==
  ASSUME PagingInv, ReadTail
  PROVE  RequestInv'
<1> USE DEF asking
<1> DEFINE w == Window  off == TailOffset  lim == TailLimit
           cut(s) == IF lim <= 0 THEN <<>> ELSE Cut(query, s, off, lim)
           shown(s) == [SlicedAt(Forward(Len(cut(s)), off), cut(s), off)
                          EXCEPT !.hasPrevious = off > w.start]
<1>1. PICK s \in Listings(query, OrdersToTheRow(query)) :
        listing' = RowsOf(query, s) /\ page' = shown(s)
  BY DEF ReadTail
<1>2. /\ query \in QueryType /\ w \in WindowType
      /\ s \in Seq(Rows) /\ Len(s) < LastPosition
      /\ listing' \in Seq(Rows) /\ IsInjective(listing')
      /\ Len(RowsOf(query, s)) = SizeOf(query, table)
  BY <1>1, Reading
<1>3. /\ stage = "tail" /\ stage' = "answered"
      /\ total' = IF asked.counts THEN total ELSE None
      /\ UNCHANGED <<table, query, asked, sizes, raced>>
  BY DEF ReadTail
<1>4. /\ SizeOf(query, table) \in sizes /\ total \in sizes /\ total \in Nat
      /\ ~raced => total = SizeOf(query, table)
  BY <1>3 DEF PagingInv, RequestInv, RequestTypes, SizesFit
<1>5. /\ asked.edges /\ Endless(w) /\ w.start \in Nat /\ w.last \in Nat /\ w.last > 0
  BY <1>3 DEF PagingInv, RequestInv, Fits, Window
<1>6. off \in Nat /\ lim \in Int /\ off = Most(w.start, total - w.last)
      /\ lim = Least(off + w.last, LastPosition) - off
  <2> DEFINE st == w.start  last == w.last
  <2>1. /\ st \in Nat /\ last \in Nat /\ LastPosition \in Nat
        /\ off = Most(st, total - last)
        /\ lim = Least(off + last, LastPosition) - off
    BY <1>5, PagingAssumption DEF TailOffset, TailLimit
  <2> HIDE DEF st, last, off, lim
  <2>2. off \in Nat /\ lim \in Int
    <3>1. off \in Nat
      BY <1>4, <2>1 DEF Most
    <3> QED BY <2>1, <3>1 DEF Least
  <2> QED BY <2>1, <2>2 DEF st, last
<1>7. page' \in PageType
  <2>1. cut(s) \in Seq(Rows)
    <3>1. CASE lim <= 0
      BY <3>1
    <3>2. CASE lim > 0
      <4>1. lim \in Nat /\ ~(lim <= 0)
        BY <1>6, <3>2
      <4>2. Cut(query, s, off, lim) \in Seq(Rows)
        <5> HIDE DEF lim, off
        <5> QED BY <1>2, <1>6, <4>1, CutIsPart
      <4> QED BY <4>1, <4>2
    <3> QED BY <1>6, <3>1, <3>2
  <2>2. Forward(Len(cut(s)), off) \in WindowType
    <3> HIDE DEF cut, off
    <3>1. Len(cut(s)) \in Nat /\ off \in Int
      BY <1>6, <2>1
    <3> QED BY <3>1, WindowsAreWindows
  <2>3. SlicedAt(Forward(Len(cut(s)), off), cut(s), off) \in PageType
    <3> HIDE DEF cut, off
    <3> QED BY <1>6, <2>1, <2>2, PagesArePages
  <2>4. (off > w.start) \in BOOLEAN
    BY <1>5, <1>6
  <2>5. \A p \in PageType, b \in BOOLEAN : [p EXCEPT !.hasPrevious = b] \in PageType
    BY DEF PageType
  <2> QED BY <1>1, <2>3, <2>4, <2>5
<1>8. ASSUME ~raced
      PROVE  page' = PageOf(asked, Sliced(w, listing'))
  <2>1. off = Most(w.start, Len(RowsOf(query, s)) - w.last)
    BY <1>2, <1>4, <1>6, <1>8
  <2>2. shown(s) = Sliced(w, RowsOf(query, s))
    <3> HIDE DEF w, off, lim
    <3> QED BY <1>2, <1>5, <1>6, <2>1, TailIsSlice
  <2> QED BY <1>1, <1>5, <2>2 DEF PageOf
<1>9. RequestTypes'
  BY <1>2, <1>3, <1>4, <1>7 DEF PagingInv, RequestInv, RequestTypes, Stages
<1>10. Fits(stage', asked')
  BY <1>3 DEF Fits
<1>11. SizesFit' /\ TotalIsReal'
  BY <1>3, <1>4 DEF SizesFit, TotalIsReal
<1>12. PageFits'
  <2>1. IsTail
    BY <1>5, PagingAssumption DEF IsTail
  <2>2. IsTail' = IsTail
    BY <1>3 DEF IsTail, Window
  <2> QED BY <1>3, <1>8, <2>1, <2>2 DEF PageFits, Window
<1> QED BY <1>9, <1>10, <1>11, <1>12 DEF RequestInv

\* The page a windowed read keeps for a parent.
LEMMA ReadWindowKeeps ==
  ASSUME PagingInv, ReadWindow
  PROVE  RequestInv'
<1> USE DEF asking
<1> DEFINE w == Window  from == WindowStart(w)  lim == WindowLimit(w)
<1>1. PICK s \in Listings(query, TRUE) :
        /\ listing' = s
        /\ page' = PageOf(asked, SlicedAt(w, Part(s, from, from + lim), from))
  BY DEF ReadWindow, Part
<1>2. /\ w \in WindowType /\ s \in Seq(Rows) /\ Len(s) < LastPosition
      /\ IsInjective(s)
  BY <1>1, Reading
<1>3. /\ stage = "window" /\ stage' = "tally"
      /\ UNCHANGED <<table, query, asked, sizes, raced, total>>
  BY DEF ReadWindow
<1>4. w.start \in Nat /\ w.end \in Nat
  BY <1>3 DEF PagingInv, RequestInv, Fits, Window
<1>5. SlicedAt(w, Part(s, from, from + lim), from) = Sliced(w, s)
  <2> HIDE DEF w
  <2> QED BY <1>2, <1>4, WindowIsSlice
<1>6. page' = PageOf(asked, Sliced(w, listing')) /\ page' \in PageType
  <2>1. Sliced(w, s) \in PageType
    <3>1. 0 \in Int
      OBVIOUS
    <3> QED BY <1>2, <3>1, PagesArePages
  <2> QED BY <1>1, <1>5, <2>1, PageOfType
<1>7. RequestTypes'
  BY <1>1, <1>2, <1>3, <1>6 DEF PagingInv, RequestInv, RequestTypes, Stages
<1>8. Fits(stage', asked')
  BY <1>3 DEF Fits
<1>9. SizesFit' /\ TotalIsReal'
  BY <1>3 DEF PagingInv, RequestInv, SizesFit, TotalIsReal
<1>10. PageFits'
  BY <1>3, <1>6 DEF PageFits, Window
<1> QED BY <1>7, <1>8, <1>9, <1>10 DEF RequestInv

\* The counts read no rows: they take the number of rows there are.
LEMMA CountsKeep ==
  ASSUME PagingInv, CountTotal \/ CountGroups \/ Locate
  PROVE  RequestInv'
<1> USE DEF asking
<1>1. /\ SizeOf(query, table) \in Nat /\ Window \in WindowType
      /\ asked.counts \in BOOLEAN
  BY Reading
<1>2. UNCHANGED <<table, query, asked, sizes, raced, listing, page>>
  BY DEF CountTotal, CountGroups, Locate
<1>3. stage # "idle" /\ SizeOf(query, table) \in sizes
  BY DEF CountTotal, CountGroups, Locate, PagingInv, RequestInv, SizesFit
<1>4. CASE CountTotal
  <2>1. stage = "count" /\ stage' = "answered" /\ total' = SizeOf(query, table)
    BY <1>4 DEF CountTotal
  <2>2. asked.counts
    BY <2>1 DEF PagingInv, RequestInv, Fits
  <2>3. RequestTypes'
    BY <1>1, <1>2, <2>1 DEF PagingInv, RequestInv, RequestTypes, Stages
  <2>4. Fits(stage', asked')
    BY <2>1 DEF Fits
  <2>5. SizesFit' /\ TotalIsReal'
    BY <1>2, <1>3, <2>1, <2>2 DEF SizesFit, TotalIsReal
  <2>6. PageFits'
    BY <1>2, <2>1 DEF PagingInv, RequestInv, PageFits, IsTail, Window
  <2> QED BY <2>3, <2>4, <2>5, <2>6 DEF RequestInv
<1>5. CASE CountGroups
  <2>1. /\ stage = "tally" /\ stage' = "answered"
        /\ total' = IF asked.counts THEN SizeOf(query, table) ELSE None
    BY <1>5 DEF CountGroups
  <2>2. RequestTypes'
    BY <1>1, <1>2, <2>1 DEF PagingInv, RequestInv, RequestTypes, Stages
  <2>3. Fits(stage', asked')
    BY <2>1 DEF Fits
  <2>4. SizesFit' /\ TotalIsReal'
    BY <1>2, <1>3, <2>1 DEF SizesFit, TotalIsReal
  <2>5. PageFits'
    BY <1>2, <2>1 DEF PagingInv, RequestInv, PageFits, IsTail, Window
  <2> QED BY <2>2, <2>3, <2>4, <2>5 DEF RequestInv
<1>6. CASE Locate
  <2>1. /\ stage = "locate" /\ total' = SizeOf(query, table)
        /\ stage' \in {"whole", "tail"}
    BY <1>6 DEF Locate
  <2>2. RequestTypes'
    BY <1>1, <1>2, <2>1 DEF PagingInv, RequestInv, RequestTypes, Stages
  <2>3. Fits(stage', asked')
    BY <1>2, <2>1 DEF PagingInv, RequestInv, Fits
  <2>4. SizesFit' /\ TotalIsReal' /\ PageFits'
    BY <1>2, <1>3, <2>1 DEF SizesFit, TotalIsReal, PageFits
  <2> QED BY <2>2, <2>3, <2>4 DEF RequestInv
<1> QED BY <1>4, <1>5, <1>6

\* A writer changes none of what was read, and its number of rows is noted.
LEMMA WriteKeeps ==
  ASSUME PagingInv, Write
  PROVE  RequestInv' /\ table' \subseteq Rows /\ writes' \in 0..MaxWrites
<1> USE DEF reading
<1>1. /\ stage # "idle" /\ raced' = TRUE /\ sizes' = sizes \cup {SizeOf(query, table')}
      /\ UNCHANGED <<query, asked, stage, listing, page, total, walk>>
      /\ writes' = writes + 1 /\ writes < MaxWrites
  BY DEF Write
<1>2. table' \subseteq Rows /\ table \subseteq Rows /\ query \in QueryType
  BY Reading DEF Write
<1>3. SizeOf(query, table') \in Nat
  BY <1>2, SizeType
<1>4. writes' \in 0..MaxWrites
  BY <1>1, PagingAssumption DEF PagingInv, ClientTypes
<1>5. RequestTypes'
  BY <1>1, <1>3 DEF PagingInv, RequestInv, RequestTypes
<1>6. Fits(stage', asked')
  BY <1>1 DEF PagingInv, RequestInv
<1>7. SizesFit'
  BY <1>1 DEF PagingInv, RequestInv, SizesFit
<1>8. PageFits'
  BY <1>1 DEF PagingInv, RequestInv, PageFits, IsTail, Window
<1>9. TotalIsReal'
  BY <1>1 DEF PagingInv, RequestInv, TotalIsReal
<1> QED BY <1>2, <1>4, <1>5, <1>6, <1>7, <1>8, <1>9 DEF RequestInv

WalkType == [way : {"none", "forward", "backward"}, size : Nat, seen : Seq(Rows)]

\* What a walk remembers are rows.
LEMMA WalkedAreRows ==
  ASSUME PagingInv
  PROVE  [walk EXCEPT !.seen = Remembered(Walked)] \in WalkType
<1>1. page \in PageType /\ walk \in WalkType
  BY DEF PagingInv, ClientTypes, RequestInv, RequestTypes, WalkType
<1>2. PageRows \in Seq(Rows)
  <2> DEFINE edges == page.edges
  <2>1. edges \in Seq([cursor : Int, row : Rows])
    BY <1>1 DEF PageType
  <2>2. PageRows = [i \in DOMAIN edges |-> edges[i].row]
    BY DEF PageRows
  <2> HIDE DEF edges
  <2>3. \A i \in DOMAIN edges : edges[i].row \in Rows
    BY <2>1, EdgesAreEdges
  <2>4. DOMAIN edges = 1..Len(edges) /\ Len(edges) \in Nat
    BY <2>1
  <2> QED BY <2>2, <2>3, <2>4
<1>3. walk.seen \in Seq(Rows)
  BY <1>1 DEF WalkType
<1>4. Walked \in Seq(Rows)
  BY <1>2, <1>3, ConcatProperties DEF Walked
<1>5. Remembered(Walked) \in Seq(Rows)
  <2> DEFINE rows == Walked  bound == Cardinality(Rows) + 1
  <2>1. bound \in Nat
    BY PagingAssumption, FS_CardinalityType
  <2>2. Remembered(rows) = SubSeq(rows, 1, Least(Len(rows), bound))
    BY DEF Remembered
  <2>3. Least(Len(rows), bound) \in Int /\ Least(Len(rows), bound) <= Len(rows)
    <3> HIDE DEF rows, bound
    <3> QED BY <1>4, <2>1 DEF rows, Least
  <2> DEFINE to == Least(Len(rows), bound)
  <2>4. \A i \in 1..to : rows[i] \in Rows
    <3> HIDE DEF to, rows
    <3> QED BY <1>4, <2>3 DEF to, rows
  <2>5. SubSeq(rows, 1, to) \in Seq(Rows)
    <3> HIDE DEF to, rows
    <3> QED BY <2>3, <2>4, SubSeqProperties DEF to
  <2> QED BY <2>2, <2>5
<1> HIDE DEF Remembered
<1>6. \A x \in WalkType, seen \in Seq(Rows) : [x EXCEPT !.seen = seen] \in WalkType
  BY DEF WalkType
<1> QED BY <1>1, <1>5, <1>6

\* The window of the next page is a window.
LEMMA NextPageIsAWindow ==
  ASSUME PagingInv, Continue
  PROVE  \E w \in WindowType : Begin([asked EXCEPT !.window = w], query)
<1> DEFINE edges == page.edges  size == walk.size
           w == IF walk.way = "forward" THEN Forward(size, Last(edges).cursor + 1)
                                        ELSE Before(size, edges[1].cursor)
<1>1. edges \in Seq([cursor : Int, row : Rows]) /\ size \in Nat
  BY DEF PagingInv, ClientTypes, RequestInv, RequestTypes, PageType
<1>2. edges # <<>> /\ Begin([asked EXCEPT !.window = w], query)
  BY DEF Continue, MoreToWalk
<1>3. Last(edges).cursor + 1 \in Int /\ edges[1].cursor \in Int
  <2> HIDE DEF edges
  <2>1. Len(edges) \in DOMAIN edges /\ 1 \in DOMAIN edges
    BY <1>1, <1>2
  <2>2. edges[Len(edges)].cursor \in Int /\ edges[1].cursor \in Int
    BY <1>1, <2>1, EdgesAreEdges
  <2> QED BY <2>2 DEF Last
<1>4. w \in WindowType
  <2> HIDE DEF edges, size
  <2> QED BY <1>1, <1>3, WindowsAreWindows
<1> QED BY <1>2, <1>4

-----------------------------------------------------------------------------
(* Theorems.                                                               *)

LEMMA InitFits == Init => PagingInv
<1> SUFFICES ASSUME Init PROVE PagingInv
  OBVIOUS
<1>1. /\ table \subseteq Rows /\ writes = 0 /\ MaxWrites \in Nat
      /\ walk = [way |-> "none", size |-> 0, seen |-> <<>>]
      /\ query = Plain /\ stage = "idle" /\ listing = <<>> /\ page = NoAnswer
      /\ total = None /\ sizes = {} /\ raced = FALSE
      /\ asked = Request(Forward(1, 0), "query", TRUE, FALSE)
  BY PagingAssumption DEF Init, NoWalk
<1>2. ClientTypes
  BY <1>1 DEF ClientTypes
<1>3. asked \in RequestType
  <2>1. Forward(1, 0) \in WindowType
    BY WindowsAreWindows
  <2> QED BY <1>1, <2>1 DEF Request, RequestType
<1>4. RequestTypes
  <2>1. listing \in Seq(Rows) /\ IsInjective(listing)
    BY <1>1 DEF IsInjective
  <2> QED BY <1>1, <1>3, <2>1, PagesArePages DEF RequestTypes, Stages
<1>5. Fits(stage, asked) /\ SizesFit /\ PageFits /\ TotalIsReal
  BY <1>1 DEF Fits, SizesFit, PageFits, TotalIsReal
<1> QED BY <1>2, <1>4, <1>5 DEF PagingInv, RequestInv

\* Every step keeps the invariant.
LEMMA StepFits == PagingInv /\ [Next]_vars => PagingInv'
<1> SUFFICES ASSUME PagingInv, [Next]_vars PROVE PagingInv'
  OBVIOUS
<1>0. /\ table \subseteq Rows /\ writes \in 0..MaxWrites /\ walk \in WalkType
      /\ asked \in RequestType /\ query \in Queries \cup {Plain} /\ MaxWrites \in Nat
  BY PagingAssumption
     DEF PagingInv, ClientTypes, WalkType, RequestInv, RequestTypes
<1>1. CASE Ask
  <2>1. PICK q \in Queries, w \in Windows, how \in {"query", "batch"},
             edges \in BOOLEAN, counts \in BOOLEAN :
               Begin(Request(w, how, edges, counts), q)
    BY <1>1 DEF Ask
  <2>2. Request(w, how, edges, counts) \in RequestType
    BY WindowsAreWindows DEF Request, RequestType
  <2>3. UNCHANGED <<table, writes, walk>>
    BY <1>1 DEF Ask
  <2>4. RequestInv'
    BY <1>0, <2>1, <2>2, <2>3, BeginKeeps
  <2> QED BY <1>0, <2>3, <2>4 DEF PagingInv, ClientTypes, WalkType
<1>2. CASE StartWalk
  <2>1. PICK q \in Queries, n \in PageSizes, way \in {"forward", "backward"},
             how \in {"query", "batch"} :
               /\ walk' = [way |-> way, size |-> n, seen |-> <<>>]
               /\ Begin(Request(IF way = "forward" THEN Forward(n, 0) ELSE Backward(n),
                                how, TRUE, FALSE), q)
    BY <1>2 DEF StartWalk
  <2>2. UNCHANGED <<table, writes>>
    BY <1>2 DEF StartWalk
  <2>3. n \in Nat /\ (IF way = "forward" THEN Forward(n, 0) ELSE Backward(n)) \in WindowType
    BY PagingAssumption, WindowsAreWindows
  <2>4. Request(IF way = "forward" THEN Forward(n, 0) ELSE Backward(n),
                how, TRUE, FALSE) \in RequestType
    BY <2>3 DEF Request, RequestType
  <2>5. RequestInv'
    BY <1>0, <2>1, <2>2, <2>4, BeginKeeps
  <2>6. walk' \in WalkType
    BY <2>1, <2>3 DEF WalkType
  <2> QED BY <1>0, <2>2, <2>5, <2>6 DEF PagingInv, ClientTypes, WalkType
<1>3. CASE Continue
  <2>1. PICK w \in WindowType : Begin([asked EXCEPT !.window = w], query)
    BY <1>3, NextPageIsAWindow
  <2>2. [asked EXCEPT !.window = w] \in RequestType
    BY <1>0 DEF RequestType
  <2>3. /\ UNCHANGED <<table, writes>>
        /\ walk' = [walk EXCEPT !.seen = Remembered(Walked)]
    BY <1>3 DEF Continue
  <2>4. RequestInv'
    BY <1>0, <2>1, <2>2, <2>3, BeginKeeps
  <2>5. walk' \in WalkType
    BY <2>3, WalkedAreRows
  <2> QED BY <1>0, <2>3, <2>4, <2>5 DEF PagingInv, ClientTypes, WalkType
<1>4. CASE Rest
  <2>1. /\ stage' = "idle" /\ writes' = 0 /\ table' = table
        /\ walk' = [way |-> "none", size |-> 0, seen |-> <<>>]
        /\ query' = Plain /\ listing' = <<>> /\ page' = NoAnswer
        /\ total' = None /\ sizes' = {} /\ raced' = FALSE
        /\ asked' = Request(Forward(1, 0), "query", TRUE, FALSE)
    BY <1>4 DEF Rest, NoWalk
  <2>2. ClientTypes'
    BY <1>0, <2>1 DEF ClientTypes
  <2>3. asked' \in RequestType
    <3>1. Forward(1, 0) \in WindowType
      BY WindowsAreWindows
    <3> QED BY <2>1, <3>1 DEF Request, RequestType
  <2>4. RequestTypes'
    <3>1. listing' \in Seq(Rows) /\ IsInjective(listing')
      BY <2>1 DEF IsInjective
    <3> QED BY <2>1, <2>3, <3>1, PagesArePages DEF RequestTypes, Stages
  <2>5. Fits(stage', asked') /\ SizesFit' /\ PageFits' /\ TotalIsReal'
    BY <2>1 DEF Fits, SizesFit, PageFits, TotalIsReal
  <2> QED BY <2>2, <2>4, <2>5 DEF PagingInv, RequestInv
<1>5. CASE Serve
  <2>1. UNCHANGED <<table, writes, walk>>
    BY <1>5 DEF Serve, ReadWhole, ReadPage, CountTotal, Locate, ReadTail,
                ReadWindow, CountGroups, asking
  <2>2. RequestInv'
    BY <1>5, ReadWholeKeeps, ReadPageKeeps, ReadTailKeeps, ReadWindowKeeps,
       CountsKeep DEF Serve
  <2> QED BY <1>0, <2>1, <2>2 DEF PagingInv, ClientTypes, WalkType
<1>6. CASE Write
  <2>1. walk' = walk
    BY <1>6 DEF Write
  <2> QED BY <1>0, <1>6, <2>1, WriteKeeps DEF PagingInv, ClientTypes, WalkType
<1>7. CASE UNCHANGED vars
  <2>1. UNCHANGED <<table, writes, query, asked, stage, listing, page, total,
                    sizes, raced, walk>>
    BY <1>7 DEF vars, reading
  <2> QED BY <2>1 DEF PagingInv, ClientTypes, RequestInv, RequestTypes, SizesFit,
                      PageFits, TotalIsReal, IsTail, Window
<1> QED BY <1>1, <1>2, <1>3, <1>4, <1>5, <1>6, <1>7 DEF Next

LEMMA PagingIsInvariant == Spec => []PagingInv
BY InitFits, StepFits, PTL DEF Spec

\* Every variable has its type, and the rows a statement lists are distinct:
\* what the statements and the slices of a page hand to one another.
THEOREM PagingTypeCorrect == Spec => []TypeOK
<1>1. PagingInv => TypeOK
  <2> SUFFICES ASSUME PagingInv PROVE TypeOK
    OBVIOUS
  <2>1. /\ asked \in RequestType /\ page \in PageType
        /\ walk \in WalkType
    BY DEF PagingInv, ClientTypes, WalkType, RequestInv, RequestTypes
  <2>2. /\ asked.how \in {"query", "batch"} /\ asked.edges \in BOOLEAN
        /\ asked.counts \in BOOLEAN
        /\ asked.window \in [start : Int, end : Int, last : Nat \cup {None}]
    BY <2>1 DEF RequestType, WindowType
  <2>3. /\ page.hasNext \in BOOLEAN /\ page.hasPrevious \in BOOLEAN
        /\ page.edges \in Seq([cursor : Int, row : Rows])
    BY <2>1 DEF PageType
  <2>4. \A i \in DOMAIN page.edges : page.edges[i] \in [cursor : Int, row : Rows]
    <3> DEFINE edges == page.edges
    <3>1. edges \in Seq([cursor : Int, row : Rows])
      BY <2>3
    <3> HIDE DEF edges
    <3>2. \A i \in DOMAIN edges : edges[i] \in [cursor : Int, row : Rows]
      BY <3>1, EdgesAreEdges
    <3> QED BY <3>2 DEF edges
  <2>5. walk.way \in {"none", "forward", "backward"} /\ walk.seen \in Seq(Rows)
    BY <2>1 DEF WalkType
  <2> QED BY <2>2, <2>3, <2>4, <2>5
          DEF TypeOK, PagingInv, ClientTypes, RequestInv, RequestTypes
<1> QED BY <1>1, PagingIsInvariant, PTL

\* A page that the database cut, at whatever offset and limit of the query's
\* own, is what slicing every row in Python gives (README.md:1974); the last
\* rows, which an earlier statement located, if nobody wrote meanwhile.
THEOREM PagesAreSlices == Spec => []AnswersLikeSlicing
<1>1. PagingInv => AnswersLikeSlicing
  BY DEF PagingInv, RequestInv, PageFits, AnswersLikeSlicing
<1> QED BY <1>1, PagingIsInvariant, PTL

\* A total is a number of rows the query really had while it was answered,
\* though it may be read off a short page and never counted.
THEOREM TotalsAreReal == Spec => []TotalIsReal
<1>1. PagingInv => TotalIsReal
  BY DEF PagingInv, RequestInv
<1> QED BY <1>1, PagingIsInvariant, PTL

-----------------------------------------------------------------------------
(* Cursors.                                                                *)

\* The edges show rows that follow one another, each at its own position.
InPlace(edges, rows) ==
  \A i \in DOMAIN edges :
    /\ edges[i].cursor + 1 \in DOMAIN rows
    /\ rows[edges[i].cursor + 1] = edges[i].row
    /\ i > 1 => edges[i].cursor = edges[i - 1].cursor + 1

\* The edges of a part are in place.
LEMMA PartsAreInPlace ==
  ASSUME NEW R \in Seq(Rows), NEW a \in Nat, NEW b \in Nat
  PROVE  /\ InPlace(EdgesAt(Part(R, a, b), a), R)
         /\ Len(EdgesAt(Part(R, a, b), a)) = Most(Least(b, Len(R)) - a, 0)
<1> DEFINE part == Part(R, a, b)  to == Least(b, Len(R))
           edges == EdgesAt(part, a)
<1>1. part \in Seq(Rows) /\ Len(part) = Most(to - a, 0) /\ Len(part) \in Nat
  <2>1. part \in Seq(Rows) /\ Len(part) = Most(to - a, 0)
    BY PartType
  <2> HIDE DEF part
  <2> QED BY <2>1
<1>2. to \in Int /\ to <= Len(R) /\ Len(R) \in Nat
  BY DEF Least
<1>3. ASSUME NEW i \in 1..Len(part)
      PROVE  part[i] = R[a + i] /\ a + i \in DOMAIN R
  <2>1. i \in Nat /\ i >= 1 /\ a + i <= to /\ a + 1 <= to
    <3> HIDE DEF part, to
    <3> QED BY <1>1, <1>2, <1>3 DEF Most
  <2>2. a + i \in 1..Len(R)
    BY <1>2, <2>1
  <2>3. SubSeq(R, a + 1, to)[i] = R[a + 1 + i - 1]
    <3>1. \A j \in a + 1 .. to : R[j] \in Rows
      BY <1>2
    <3>2. i \in 1..(to - (a + 1) + 1) /\ a + 1 \in Int
      BY <1>2, <2>1
    <3> HIDE DEF to
    <3> QED BY <1>2, <2>1, <3>1, <3>2, SubSeqProperties
  <2>4. a + 1 + i - 1 = a + i
    BY <2>1
  <2>5. part[i] = SubSeq(R, a + 1, to)[i] /\ DOMAIN R = 1..Len(R)
    BY DEF Part
  <2> HIDE DEF part, to
  <2> QED BY <2>2, <2>3, <2>4, <2>5
<1>4. edges = [i \in 1..Len(part) |-> [cursor |-> a + i - 1, row |-> part[i]]]
  BY DEF EdgesAt
<1>5. /\ DOMAIN edges = 1..Len(part) /\ Len(edges) = Len(part)
      /\ \A i \in 1..Len(part) : /\ edges[i].cursor = a + i - 1
                                 /\ edges[i].row = part[i]
  <2> HIDE DEF edges, part
  <2> QED BY <1>1, <1>4
<1>6. InPlace(edges, R)
  <2> SUFFICES ASSUME NEW i \in 1..Len(part)
               PROVE  /\ edges[i].cursor + 1 \in DOMAIN R
                      /\ R[edges[i].cursor + 1] = edges[i].row
                      /\ i > 1 => edges[i].cursor = edges[i - 1].cursor + 1
    <3> HIDE DEF edges, part
    <3> QED BY <1>5 DEF InPlace
  <2>1. edges[i].cursor = a + i - 1 /\ edges[i].row = part[i] /\ i \in Nat
    <3> HIDE DEF edges, part
    <3> QED BY <1>5
  <2>2. edges[i].cursor + 1 = a + i
    BY <2>1
  <2>3. i > 1 => edges[i - 1].cursor = a + (i - 1) - 1
    <3> SUFFICES ASSUME i > 1 PROVE edges[i - 1].cursor = a + (i - 1) - 1
      OBVIOUS
    <3>1. i - 1 \in 1..Len(part)
      <4> HIDE DEF part
      <4> QED BY <1>1
    <3> HIDE DEF edges, part
    <3> QED BY <1>5, <3>1
  <2> HIDE DEF edges, part
  <2> QED BY <1>3, <2>1, <2>2, <2>3
<1> QED BY <1>1, <1>5, <1>6

\* What a slice that is not of the last rows shows is in place.
LEMMA SlicesAreInPlace ==
  ASSUME NEW R \in Seq(Rows), NEW w \in WindowType,
         w.start \in Nat, w.end \in Nat, ~(Endless(w) /\ w.last \notin {0, None})
  PROVE  InPlace(Sliced(w, R).edges, R)
<1> DEFINE st == w.start  ov == Overfetch(w)
           nodes == PySlice(R, st, ov)  ln == Len(nodes)
           more == ~Endless(w) /\ ln = w.end - w.start + 1
           tail == Endless(w) /\ w.last # None
           from == IF tail /\ w.last > 0 THEN Most(ln - w.last, 0) ELSE 0
           kept == IF more THEN SubSeq(nodes, 1, ln - 1)
                           ELSE SubSeq(nodes, from + 1, ln)
           edges == [i \in 1..Len(kept) |->
                       [cursor |-> st + from + i - 1, row |-> kept[i]]]
<1>1. st \in Nat /\ ov \in Nat
  BY DEF Overfetch
<1>2. nodes = Part(R, st, ov) /\ nodes \in Seq(Rows) /\ ln \in Nat
  <2>1. nodes = Part(R, st, ov)
    BY <1>1, SliceIsPart
  <2>2. Part(R, st, ov) \in Seq(Rows)
    BY <1>1, PartType
  <2> HIDE DEF nodes
  <2> QED BY <2>1, <2>2
<1>3. from = 0
  <2>1. tail => w.last = 0
    OBVIOUS
  <2> QED BY <2>1
<1>4. PICK e \in Nat : kept = Part(R, st, e)
  <2>1. CASE more /\ ln = 0
    <3>1. kept = <<>>
      <4>1. ln - 1 < 1
        BY <2>1
      <4>2. SubSeq(nodes, 1, ln - 1) = <<>>
        <5> HIDE DEF nodes
        <5> QED BY <4>1, <2>1, SubSeqEmpty
      <4> QED BY <2>1, <4>2
    <3>2. Part(R, st, st) = <<>>
      <4>1. Least(st, Len(R)) <= st
        <5> HIDE DEF st
        <5> QED BY <1>1 DEF Least
      <4> QED BY <1>1, <4>1, PartEmpty
    <3> QED BY <1>1, <3>1, <3>2
  <2>2. CASE more /\ ln > 0
    <3>1. ln - 1 \in Nat /\ Least(ln - 1, ln) = ln - 1
      <4> HIDE DEF ln
      <4> QED BY <1>2, <2>2 DEF Least
    <3>2. kept = Part(nodes, 0, ln - 1)
      BY <2>2, <3>1 DEF Part
    <3> DEFINE d == ln - 1
    <3>3. Part(Part(R, st, ov), 0, d) = Part(R, st + 0, Least(st + d, ov))
      <4>1. d \in Nat
        BY <3>1
      <4> HIDE DEF d, st, ov
      <4> QED BY <1>1, <4>1, PartOfPart
    <3>4. st + 0 = st /\ Least(st + d, ov) \in Nat
      <4>1. d \in Nat
        BY <3>1
      <4> HIDE DEF d, st, ov
      <4> QED BY <1>1, <4>1 DEF Least
    <3> HIDE DEF kept, nodes, d, st, ov
    <3> QED BY <1>2, <3>2, <3>3, <3>4 DEF d
  <2>3. CASE ~more
    <3>1. kept = SubSeq(nodes, 1, ln)
      BY <1>3, <2>3
    <3>2. SubSeq(nodes, 1, ln) = nodes
      <4> HIDE DEF nodes
      <4> QED BY <1>2, SubSeqFull
    <3> HIDE DEF kept, nodes
    <3> QED BY <1>1, <1>2, <3>1, <3>2
  <2> HIDE DEF more
  <2> QED BY <1>2, <2>1, <2>2, <2>3
<1>5. Sliced(w, R).edges = edges
  <2>1. Sliced(w, R) = Answer(w, nodes)
    BY DEF Sliced
  <2>2. Answer(w, nodes).edges = edges
    <3> HIDE DEF nodes
    <3> QED BY DEF Answer
  <2> QED BY <2>1, <2>2
<1>6. edges = EdgesAt(kept, st)
  <2>1. edges = [i \in 1..Len(kept) |->
                   [cursor |-> st + 0 + i - 1, row |-> kept[i]]]
    <3> HIDE DEF kept, from
    <3> QED BY <1>3
  <2>2. st + 0 = st
    BY <1>1
  <2> HIDE DEF edges, kept, st
  <2> QED BY <2>1, <2>2 DEF EdgesAt
<1>7. InPlace(EdgesAt(Part(R, st, e), st), R)
  BY <1>1, PartsAreInPlace
<1> HIDE DEF edges, kept
<1> QED BY <1>4, <1>5, <1>6, <1>7

\* A page of the last rows shows as many as were asked for, or fewer, from
\* where a total located them: in place, also when rows were written between
\* that total and the page.
TailFits ==
  stage \in {"count", "tally", "answered"} /\ IsTail /\ ~FromTheEnd(Window)
    => \/ page = NoAnswer
       \/ \E off \in Nat :
            page.edges = EdgesAt(Part(listing, off, off + Window.last), off)

\* A page sliced from the whole result is one, whatever it selects.
LEMMA SlicedTails ==
  ASSUME PagingInv, NEW R \in Seq(Rows), Len(R) < LastPosition,
         IsTail, ~FromTheEnd(Window), NEW p, p = PageOf(asked, Sliced(Window, R))
  PROVE  \/ p = NoAnswer
         \/ \E off \in Nat : p.edges = EdgesAt(Part(R, off, off + Window.last), off)
<1> DEFINE w == Window  st == w.start  last == w.last  off == Most(st, Len(R) - last)
<1>1. /\ w \in WindowType /\ Endless(w) /\ w.start \in Nat
      /\ w.last \in Nat /\ w.last > 0
  <2>1. w \in WindowType
    BY Reading
  <2> QED BY <2>1, PagingAssumption DEF IsTail, FromTheEnd, WindowType
<1>2. Sliced(w, R).edges = EdgesAt(Part(R, off, off + w.last), off)
  <2>1. Sliced(w, R) = [edges |-> EdgesAt(Part(R, off, off + w.last), off),
                        hasNext |-> FALSE, hasPrevious |-> off > w.start]
    <3> HIDE DEF w
    <3> QED BY <1>1, LastRowsShow
  <2> DEFINE es == EdgesAt(Part(R, off, off + w.last), off)  b == off > w.start
             no == FALSE
  <2>2. Sliced(w, R) = [edges |-> es, hasNext |-> no, hasPrevious |-> b]
    BY <2>1
  <2> HIDE DEF es, b, no
  <2> QED BY <2>2 DEF es
<1>3. off \in Nat
  <2>1. st \in Nat /\ last \in Nat
    BY <1>1
  <2> HIDE DEF st, last
  <2> QED BY <2>1 DEF Most
<1>4. p = NoAnswer \/ p = Sliced(w, R)
  BY DEF PageOf
<1> HIDE DEF off
<1> QED BY <1>2, <1>3, <1>4

LEMMA TailsFit ==
  ASSUME PagingInv, TailFits, [Next]_vars
  PROVE  TailFits'
<1> USE DEF asking
<1>1. CASE Ask \/ StartWalk \/ Continue
  <2>1. PICK r, q : Begin(r, q)
    <3>1. CASE Ask
      BY <3>1 DEF Ask
    <3>2. CASE StartWalk
      BY <3>2 DEF StartWalk
    <3>3. CASE Continue
      BY <3>3, NextPageIsAWindow
    <3> QED BY <1>1, <3>1, <3>2, <3>3
  <2>2. /\ asked' = r /\ stage' = FirstStage(r, q)
        /\ page' = IF NeedsNoPage(r)
                     THEN PageOf(r, SlicedAt(r.window, <<>>, r.window.start))
                     ELSE NoAnswer
    BY <2>1 DEF Begin
  <2>3. SUFFICES ASSUME IsTail' PROVE page' = NoAnswer
    BY DEF TailFits
  <2>4. Endless(r.window)
    BY <2>2, <2>3 DEF IsTail, Window
  <2>5. NeedsNoPage(r) => ~r.edges
    BY <2>4 DEF NeedsNoPage
  <2> QED BY <2>2, <2>5 DEF PageOf
<1>2. CASE Rest
  BY <1>2 DEF Rest, TailFits
<1>3. CASE ReadWhole
  <2>1. PICK s \in Listings(query, FALSE) : listing' = RowsOf(query, s)
    BY <1>3 DEF ReadWhole
  <2>2. page' = PageOf(asked, Sliced(Window, listing')) /\ asked' = asked
    BY <1>3 DEF ReadWhole
  <2>3. listing' \in Seq(Rows) /\ Len(listing') < LastPosition
    <3>1. /\ query \in QueryType /\ s \in Seq(Rows) /\ Len(s) < LastPosition
      BY Reading
    <3>2. RowsOf(query, s) \in Seq(Rows) /\ Len(RowsOf(query, s)) <= Len(s)
      BY <3>1, RowsArePart
    <3> QED BY <2>1, <3>1, <3>2, PagingAssumption
  <2> QED BY <2>2, <2>3, SlicedTails DEF TailFits, IsTail, Window
<1>4. CASE ReadPage
  <2>1. ~Endless(Window) /\ asked' = asked
    BY <1>4 DEF ReadPage, PagingInv, RequestInv, Fits, Window
  <2> QED BY <2>1 DEF TailFits, IsTail, Window
<1>5. CASE CountTotal \/ CountGroups \/ Locate
  <2>1. UNCHANGED <<asked, page, listing>>
    BY <1>5 DEF CountTotal, CountGroups, Locate
  <2>2. \/ stage \in {"count", "tally"}
        \/ stage' \in {"whole", "tail"}
    BY <1>5 DEF CountTotal, CountGroups, Locate
  <2> QED BY <2>1, <2>2 DEF TailFits, IsTail, Window
<1>6. CASE ReadTail
  <2> DEFINE w == Window  off == TailOffset  lim == TailLimit
             cut(s) == IF lim <= 0 THEN <<>> ELSE Cut(query, s, off, lim)
             back == off > w.start
  <2>1. PICK s \in Listings(query, OrdersToTheRow(query)) :
          /\ listing' = RowsOf(query, s)
          /\ page' = [SlicedAt(Forward(Len(cut(s)), off), cut(s), off)
                        EXCEPT !.hasPrevious = back]
    BY <1>6 DEF ReadTail
  <2>2. /\ asked' = asked /\ total \in Nat /\ LastPosition \in Nat
        /\ w.start \in Nat /\ w.last \in Nat /\ w.last > 0
    BY <1>6, PagingAssumption
       DEF ReadTail, PagingInv, RequestInv, RequestTypes, SizesFit, Fits, Window
  <2>3. /\ query \in QueryType /\ s \in Seq(Rows) /\ Len(s) < LastPosition
        /\ RowsOf(query, s) \in Seq(Rows)
    BY Reading
  <2>4. /\ off \in Nat /\ back \in BOOLEAN
        /\ lim = Least(off + w.last, LastPosition) - off
    <3> DEFINE st == w.start  last == w.last
    <3>1. /\ st \in Nat /\ last \in Nat /\ off = Most(st, total - last)
          /\ lim = Least(off + last, LastPosition) - off
      BY <2>2 DEF TailOffset, TailLimit
    <3> HIDE DEF st, last, off, lim
    <3>2. off \in Nat /\ (off > st) \in BOOLEAN
      BY <2>2, <3>1 DEF Most
    <3> QED BY <3>1, <3>2 DEF st, last
  <2>5. cut(s) = Part(listing', off, off + w.last)
    <3> HIDE DEF w, off, lim
    <3> QED BY <2>1, <2>2, <2>3, <2>4, TailIsPart
  <2>6. cut(s) \in Seq(Rows)
    <3>1. off + w.last \in Nat
      BY <2>2, <2>4
    <3> HIDE DEF w, off, cut
    <3> QED BY <2>1, <2>3, <2>4, <2>5, <3>1, PartType
  <2>7. page' = [edges |-> EdgesAt(cut(s), off), hasNext |-> FALSE,
                 hasPrevious |-> back]
    <3> HIDE DEF w, off, cut, back
    <3> QED BY <2>1, <2>4, <2>6, TailShows
  <2>8. page'.edges = EdgesAt(cut(s), off)
    <3> DEFINE es == EdgesAt(cut(s), off)  no == FALSE
    <3>1. page' = [edges |-> es, hasNext |-> no, hasPrevious |-> back]
      BY <2>7
    <3> HIDE DEF es, no, back
    <3>2. page'.edges = es
      BY <3>1
    <3> QED BY <3>2 DEF es
  <2>9. Window' = Window
    BY <2>2 DEF Window
  <2> HIDE DEF off, cut
  <2> QED BY <2>4, <2>5, <2>8, <2>9 DEF TailFits
<1>7. CASE ReadWindow
  <2> DEFINE w == Window  from == WindowStart(w)  lim == WindowLimit(w)
  <2>1. PICK s \in Listings(query, TRUE) :
          /\ listing' = s
          /\ page' = PageOf(asked, SlicedAt(w, Part(s, from, from + lim), from))
    BY <1>7 DEF ReadWindow, Part
  <2>2. w \in WindowType /\ s \in Seq(Rows) /\ Len(s) < LastPosition
    BY Reading
  <2>3. w.start \in Nat /\ w.end \in Nat /\ asked' = asked
    BY <1>7 DEF ReadWindow, PagingInv, RequestInv, Fits, Window
  <2>4. SlicedAt(w, Part(s, from, from + lim), from) = Sliced(w, s)
    <3> HIDE DEF w
    <3> QED BY <2>2, <2>3, WindowIsSlice
  <2>5. page' = PageOf(asked, Sliced(Window, listing'))
    BY <2>1, <2>4
  <2> QED BY <2>1, <2>2, <2>3, <2>5, SlicedTails DEF TailFits, IsTail, Window
<1>8. CASE Write \/ UNCHANGED vars
  <2>1. UNCHANGED <<asked, stage, page, listing>>
    BY <1>8 DEF Write, vars, reading
  <2> QED BY <2>1 DEF TailFits, IsTail, Window
<1> QED BY <1>1, <1>2, <1>3, <1>4, <1>5, <1>6, <1>7, <1>8 DEF Next, Serve

\* Every edge of a page is a row at the position its cursor names, edges follow
\* one another, and a page of the last rows is never longer than was asked for:
\* also when rows come and go between the total that locates it and the page.
THEOREM CursorsStayTrue == Spec => []CursorsAreTrue
<1>1. PagingInv /\ TailFits => CursorsAreTrue
  <2> SUFFICES ASSUME PagingInv, TailFits, stage = "answered", ~FromTheEnd(Window)
               PROVE  /\ InPlace(page.edges, listing)
                      /\ IsTail => Len(page.edges) <= Window.last
    BY DEF CursorsAreTrue, InPlace
  <2>1. /\ Window \in WindowType /\ Window.start \in Nat /\ Window.end \in Nat
        /\ listing \in Seq(Rows) /\ Window.last \in Nat \cup {None}
    <3>1. Window \in WindowType /\ listing \in Seq(Rows)
      BY Reading DEF PagingInv, RequestInv, RequestTypes
    <3> QED BY <3>1 DEF WindowType, FromTheEnd
  <2>2. CASE page = NoAnswer
    <3>1. page.edges = <<>>
      BY <2>2 DEF NoAnswer
    <3>2. Len(page.edges) = 0 /\ DOMAIN page.edges = {}
      BY <3>1
    <3>3. IsTail => Window.last \in Nat
      BY <2>1 DEF IsTail
    <3> QED BY <3>2, <3>3 DEF InPlace
  <2>3. CASE IsTail /\ page # NoAnswer
    <3>1. PICK off \in Nat :
            page.edges = EdgesAt(Part(listing, off, off + Window.last), off)
      BY <2>3 DEF TailFits
    <3> DEFINE last == Window.last
    <3>2. last \in Nat /\ off + last \in Nat
      BY <2>1, <2>3, <3>1 DEF IsTail
    <3>3. /\ InPlace(page.edges, listing)
          /\ Len(page.edges) = Most(Least(off + last, Len(listing)) - off, 0)
      BY <2>1, <3>1, <3>2, PartsAreInPlace
    <3>4. Most(Least(off + last, Len(listing)) - off, 0) <= last
      <4>1. Len(listing) \in Nat
        BY <2>1
      <4> HIDE DEF last
      <4> QED BY <3>2, <4>1 DEF Most, Least
    <3> QED BY <3>3, <3>4
  <2>4. CASE ~IsTail /\ page # NoAnswer
    <3>1. page = Sliced(Window, listing)
      BY <2>4 DEF PagingInv, RequestInv, PageFits, PageOf
    <3>2. InPlace(Sliced(Window, listing).edges, listing)
      BY <2>1, <2>4, SlicesAreInPlace DEF IsTail
    <3> QED BY <2>4, <3>1, <3>2
  <2> QED BY <2>2, <2>3, <2>4
<1>2. Init => TailFits
  BY DEF Init, TailFits
<1>3. PagingInv /\ TailFits /\ [Next]_vars => TailFits'
  BY TailsFit
<1> QED BY <1>1, <1>2, <1>3, PagingIsInvariant, PTL DEF Spec

-----------------------------------------------------------------------------
(* Walks.                                                                  *)

\* A set of numbers has a least one.
LEMMA LeastElement ==
  ASSUME NEW T, T \subseteq Nat, T # {}
  PROVE  \E n \in T : \A m \in T : ~ m < n
<1> DEFINE R == OpToRel(<, Nat)
<1>1. IsWellFoundedOn(R, Nat)
  BY NatLessThanWellFounded
<1>2. \A m, n \in Nat : m < n => <<m, n>> \in R
  BY DEF OpToRel
<1> HIDE DEF R
<1>3. \E n \in T : \A m \in T : ~ (<<m, n>> \in R)
  BY <1>1, WFMin
<1> QED BY <1>2, <1>3

\* A query that is ordered down to the row has one listing: where two first
\* differed, each would have the other's row further on.
LEMMA OneListing ==
  ASSUME table \subseteq Rows, NEW q \in QueryType,
         NEW s \in Listings(q, TRUE), NEW t \in Listings(q, TRUE)
  PROVE  s = t
<1> DEFINE n == Cardinality(table)  D == 1..n
<1>1. /\ s \in Seq(Rows) /\ Len(s) = n /\ t \in Seq(Rows) /\ Len(t) = n /\ n \in Nat
  BY ListingFacts
<1>2. IsFiniteSet(table) /\ IsFiniteSet(D) /\ Cardinality(D) = n
  <2>1. IsFiniteSet(table)
    BY PagingAssumption, FS_Subset
  <2> HIDE DEF n
  <2> QED BY <1>1, <2>1, FS_Interval
<1>3. ASSUME NEW u \in Listings(q, TRUE)
      PROVE  /\ u \in [D -> table]
             /\ \A i, j \in D : i # j => u[i] # u[j]
             /\ \A i, j \in D : i < j => Ordered(q, u[i], u[j], TRUE)
             /\ \A r \in table : \E i \in D : u[i] = r
  <2>1. u \in [D -> table] /\ \A i, j \in D : i # j => u[i] # u[j]
    BY DEF Listings, SetToSeqs
  <2>2. \A i, j \in D : i < j => Ordered(q, u[i], u[j], TRUE)
    <3>1. Len(u) = n
      BY ListingFacts
    <3> QED BY <3>1 DEF Listings
  <2>3. u \in Injection(D, table)
    <3> HIDE DEF D
    <3> QED BY <2>1 DEF Injection, IsInjective
  <2>4. u \in Surjection(D, table)
    <3> HIDE DEF D
    <3> QED BY <1>2, <2>3, FS_Injection
  <2> QED BY <2>1, <2>2, <2>4 DEF Surjection
<1>4. ASSUME NEW a \in table, NEW b \in table,
             Ordered(q, a, b, TRUE), Ordered(q, b, a, TRUE)
      PROVE  FALSE
  <2>1. a \in Nat /\ b \in Nat /\ RankIn(q, a) \in Nat /\ RankIn(q, b) \in Nat
    BY PagingAssumption DEF RankIn
  <2> QED BY <1>4, <2>1 DEF Ordered
<1> DEFINE T == {i \in D : s[i] # t[i]}
<1>5. SUFFICES ASSUME T # {} PROVE FALSE
  <2>1. \A i \in 1..Len(s) : s[i] = t[i]
    <3> SUFFICES ASSUME T = {} PROVE \A i \in D : s[i] = t[i]
      BY <1>1, <1>5
    <3> HIDE DEF D
    <3> QED OBVIOUS
  <2> HIDE DEF n
  <2> QED BY <1>1, <2>1, SeqEqual
<1>6. PICK i \in T : \A m \in T : ~ m < i
  <2>1. T \subseteq Nat
    OBVIOUS
  <2> HIDE DEF T
  <2> QED BY <1>5, <2>1, LeastElement
<1>7. /\ i \in D /\ s[i] # t[i] /\ s[i] \in table /\ t[i] \in table
      /\ \A j \in D : j < i => s[j] = t[j]
  <2> HIDE DEF D
  <2> QED BY <1>3, <1>6
<1>8. PICK j \in D : t[j] = s[i]
  <2> HIDE DEF D
  <2> QED BY <1>3, <1>7
<1>9. PICK k \in D : s[k] = t[i]
  <2> HIDE DEF D
  <2> QED BY <1>3, <1>7
<1>10. i < j /\ i < k
  <2>1. ~(j < i) /\ ~(k < i) /\ i # j /\ i # k
    <3>1. ASSUME j < i PROVE FALSE
      <4>1. s[j] = s[i] /\ i # j
        BY <1>7, <1>8, <3>1
      <4> HIDE DEF D
      <4> QED BY <1>3, <1>7, <1>8, <4>1
    <3>2. ASSUME k < i PROVE FALSE
      <4>1. t[k] = t[i] /\ i # k
        BY <1>7, <1>9, <3>2
      <4> HIDE DEF D
      <4> QED BY <1>3, <1>7, <1>9, <4>1
    <3> QED BY <1>7, <1>8, <1>9, <3>1, <3>2
  <2> QED BY <1>1, <1>7, <1>8, <1>9, <2>1
<1>11. Ordered(q, t[i], s[i], TRUE) /\ Ordered(q, s[i], t[i], TRUE)
  <2> HIDE DEF D
  <2> QED BY <1>3, <1>7, <1>8, <1>9, <1>10
<1> QED BY <1>4, <1>7, <1>11

\* Two parts that meet are one.
LEMMA PartsMeet ==
  ASSUME NEW R \in Seq(Rows), NEW a \in Nat, NEW p \in Nat, NEW e \in Nat,
         a <= p, p <= e, e <= Len(R)
  PROVE  Part(R, a, p) \o Part(R, p, e) = Part(R, a, e)
<1> DEFINE x == Part(R, a, p)  y == Part(R, p, e)  z == Part(R, a, e)  n == Len(R)
<1>0. n \in Nat /\ e <= n
  OBVIOUS
<1>1. Least(p, n) = p /\ Least(e, n) = e
  <2> HIDE DEF n
  <2> QED BY <1>0 DEF Least
<1>2. /\ x = SubSeq(R, a + 1, p) /\ y = SubSeq(R, p + 1, e) /\ z = SubSeq(R, a + 1, e)
  BY <1>1 DEF Part
<1>3. /\ \A i \in a + 1 .. p : R[i] \in Rows
      /\ \A i \in p + 1 .. e : R[i] \in Rows
      /\ \A i \in a + 1 .. e : R[i] \in Rows
  OBVIOUS
<1>4. /\ x \in Seq(Rows) /\ Len(x) = p - a
      /\ \A i \in 1..p - a : x[i] = R[a + i]
  <2>1. /\ SubSeq(R, a + 1, p) \in Seq(Rows)
        /\ Len(SubSeq(R, a + 1, p)) = IF a + 1 <= p THEN p - (a + 1) + 1 ELSE 0
        /\ \A i \in 1..p - (a + 1) + 1 : SubSeq(R, a + 1, p)[i] = R[a + 1 + i - 1]
    BY <1>3, SubSeqProperties
  <2>2. \A i \in 1..p - a : a + 1 + i - 1 = a + i /\ p - (a + 1) + 1 = p - a
    OBVIOUS
  <2> HIDE DEF x
  <2> QED BY <1>2, <2>1, <2>2
<1>5. /\ y \in Seq(Rows) /\ Len(y) = e - p
      /\ \A i \in 1..e - p : y[i] = R[p + i]
  <2>1. /\ SubSeq(R, p + 1, e) \in Seq(Rows)
        /\ Len(SubSeq(R, p + 1, e)) = IF p + 1 <= e THEN e - (p + 1) + 1 ELSE 0
        /\ \A i \in 1..e - (p + 1) + 1 : SubSeq(R, p + 1, e)[i] = R[p + 1 + i - 1]
    BY <1>3, SubSeqProperties
  <2>2. \A i \in 1..e - p : p + 1 + i - 1 = p + i /\ e - (p + 1) + 1 = e - p
    OBVIOUS
  <2> HIDE DEF y
  <2> QED BY <1>2, <2>1, <2>2
<1>6. /\ z \in Seq(Rows) /\ Len(z) = e - a
      /\ \A i \in 1..e - a : z[i] = R[a + i]
  <2>1. /\ SubSeq(R, a + 1, e) \in Seq(Rows)
        /\ Len(SubSeq(R, a + 1, e)) = IF a + 1 <= e THEN e - (a + 1) + 1 ELSE 0
        /\ \A i \in 1..e - (a + 1) + 1 : SubSeq(R, a + 1, e)[i] = R[a + 1 + i - 1]
    BY <1>3, SubSeqProperties
  <2>2. \A i \in 1..e - a : a + 1 + i - 1 = a + i /\ e - (a + 1) + 1 = e - a
    OBVIOUS
  <2> HIDE DEF z
  <2> QED BY <1>2, <2>1, <2>2
<1> HIDE DEF x, y, z
<1>7. /\ x \o y \in Seq(Rows) /\ Len(x \o y) = e - a
      /\ \A i \in 1..e - a :
           (x \o y)[i] = IF i <= p - a THEN x[i] ELSE y[i - (p - a)]
  <2>1. Len(x) + Len(y) = e - a
    BY <1>4, <1>5
  <2>2. /\ x \o y \in Seq(Rows) /\ Len(x \o y) = Len(x) + Len(y)
        /\ \A i \in 1..Len(x) + Len(y) :
             (x \o y)[i] = IF i <= Len(x) THEN x[i] ELSE y[i - Len(x)]
    BY <1>4, <1>5, ConcatProperties
  <2> QED BY <1>4, <2>1, <2>2
<1>8. \A i \in 1..e - a : (x \o y)[i] = z[i]
  <2> SUFFICES ASSUME NEW i \in 1..e - a PROVE (x \o y)[i] = z[i]
    OBVIOUS
  <2>1. CASE i <= p - a
    <3>1. i \in 1..p - a
      BY <2>1
    <3> QED BY <1>4, <1>6, <1>7, <2>1, <3>1
  <2>2. CASE ~(i <= p - a)
    <3>1. i - (p - a) \in 1..e - p /\ p + (i - (p - a)) = a + i
      BY <2>2
    <3> QED BY <1>5, <1>6, <1>7, <2>2, <3>1
  <2> QED BY <2>1, <2>2
<1> QED BY <1>6, <1>7, <1>8, SeqEqual DEF x, y, z

\* A forward page shows the rows from its position to where the next page
\* begins, or to the end.
LEMMA ForwardPage ==
  ASSUME NEW R \in Seq(Rows), Len(R) < LastPosition,
         NEW n \in Nat, n > 0, NEW p \in 0..Len(R), p + n < LastPosition
  PROVE  \E e \in p..Len(R) :
           /\ Sliced(Forward(n, p), R).edges = EdgesAt(Part(R, p, e), p)
           /\ Sliced(Forward(n, p), R).hasNext => e > p
           /\ ~Sliced(Forward(n, p), R).hasNext => e = Len(R)
<1> DEFINE w == Forward(n, p)  size == Len(R)
           nodes == PySlice(R, p, p + n + 1)  ln == Len(nodes)
           more == ln = n + 1
           kept == IF more THEN SubSeq(nodes, 1, ln - 1) ELSE SubSeq(nodes, 1, ln)
           e == IF more THEN p + n ELSE size
           edges == [i \in 1..Len(kept) |-> [cursor |-> p + i - 1, row |-> kept[i]]]
<1>1. /\ size \in Nat /\ p \in Nat /\ p <= size /\ LastPosition \in Nat
      /\ w.start = p /\ w.end = p + n /\ w.last = None /\ ~Endless(w)
      /\ Overfetch(w) = p + n + 1
  BY PagingAssumption DEF Forward, Endless, Overfetch
<1>2. nodes = Part(R, p, p + n + 1) /\ nodes \in Seq(Rows)
      /\ ln = Most(Least(p + n + 1, size) - p, 0) /\ ln \in Nat
  <2>0. p + n + 1 \in Nat
    BY <1>1
  <2>1. nodes = Part(R, p, p + n + 1)
    BY <1>1, <2>0, SliceIsPart
  <2>2. /\ Part(R, p, p + n + 1) \in Seq(Rows)
        /\ Len(Part(R, p, p + n + 1)) = Most(Least(p + n + 1, size) - p, 0)
    BY <1>1, <2>0, PartType
  <2> HIDE DEF nodes
  <2> QED BY <2>1, <2>2
<1>3. /\ e \in p..size /\ (more => e > p) /\ (more => p + n + 1 <= size)
      /\ (~more => size <= p + n)
  <2>1. CASE more
    <3> HIDE DEF ln, size
    <3> QED BY <1>1, <1>2, <2>1 DEF Most, Least
  <2>2. CASE ~more
    <3> HIDE DEF ln, size
    <3> QED BY <1>1, <1>2, <2>2 DEF Most, Least
  <2> QED BY <2>1, <2>2
<1>4. kept = Part(R, p, e)
  <2>1. CASE more
    <3>1. ln - 1 = n /\ Least(n, ln) = n
      <4> HIDE DEF ln
      <4> QED BY <1>2, <2>1 DEF Least
    <3>2. kept = Part(nodes, 0, n)
      BY <2>1, <3>1 DEF Part
    <3>3. Part(Part(R, p, p + n + 1), 0, n) = Part(R, p + 0, Least(p + n, p + n + 1))
      <4>1. p + n + 1 \in Nat /\ 0 \in Nat
        BY <1>1
      <4> QED BY <1>1, <4>1, PartOfPart
    <3>4. p + 0 = p /\ Least(p + n, p + n + 1) = p + n
      BY <1>1 DEF Least
    <3> HIDE DEF kept, nodes
    <3> QED BY <1>2, <2>1, <3>2, <3>3, <3>4
  <2>2. CASE ~more
    <3>1. kept = nodes
      <4> HIDE DEF nodes
      <4> QED BY <1>2, <2>2, SubSeqFull
    <3>2. Part(R, p, p + n + 1) = Part(R, p, size)
      <4>1. Least(p + n + 1, size) = Least(size, size)
        <5> HIDE DEF size
        <5> QED BY <1>1, <1>3, <2>2 DEF Least
      <4>2. p + n + 1 \in Nat
        BY <1>1
      <4> QED BY <1>1, <4>1, <4>2, PartSame
    <3> HIDE DEF kept, nodes
    <3> QED BY <1>2, <2>2, <3>1, <3>2
  <2> HIDE DEF more
  <2> QED BY <2>1, <2>2
<1>5. Sliced(w, R).edges = edges /\ Sliced(w, R).hasNext = more
  <2>1. Sliced(w, R) = Answer(w, nodes)
    BY <1>1 DEF Sliced
  <2>2. w.end - w.start + 1 = n + 1
    BY <1>1
  <2>3. p + 0 = p /\ 0 + 1 = 1
    BY <1>1
  <2>4. ~(Endless(w) /\ w.last # None)
    BY <1>1
  <2>5. Answer(w, nodes).edges = edges /\ Answer(w, nodes).hasNext = more
    <3> DEFINE back == IF Endless(w) /\ w.last # None THEN 0 > 0 ELSE w.start > 0
    <3>1. Answer(w, nodes) = [edges |-> edges, hasNext |-> more, hasPrevious |-> back]
      <4> HIDE DEF nodes, w
      <4> QED BY <1>1, <2>2, <2>3, <2>4 DEF Answer
    <3> HIDE DEF edges, more, back
    <3> QED BY <3>1
  <2> QED BY <2>1, <2>5
<1>6. edges = EdgesAt(kept, p)
  BY DEF EdgesAt
<1> HIDE DEF edges, more, kept, e, w, size
<1> QED BY <1>3, <1>4, <1>5, <1>6 DEF w, size, e

\* A backward page shows the rows that end at its position, and says whether
\* there are rows before them.
LEMMA BackwardPage ==
  ASSUME NEW R \in Seq(Rows), Len(R) < LastPosition,
         NEW n \in Nat, n > 0, NEW p \in 0..Len(R),
         NEW w, \/ w = Backward(n) /\ p = Len(R)
                \/ w = Before(n, p) /\ p > 0
  PROVE  \E a \in 0..p :
           /\ Sliced(w, R).edges = EdgesAt(Part(R, a, p), a)
           /\ Sliced(w, R).hasPrevious = (a > 0)
           /\ p > 0 => a < p
<1> DEFINE size == Len(R)  a == Most(0, p - n)
<1>1. /\ size \in Nat /\ p \in Nat /\ p <= size /\ LastPosition \in Nat
      /\ size < LastPosition
  BY PagingAssumption
<1>2. a \in 0..p /\ a \in Nat /\ (p > 0 => a < p)
  BY <1>1 DEF Most
<1>3. CASE w = Backward(n) /\ p = size
  <2>1. /\ w \in WindowType /\ Endless(w) /\ w.start = 0 /\ w.last = n
    BY <1>1, <1>3 DEF Backward, Endless, WindowType
  <2>2. Sliced(w, R) = [edges |-> EdgesAt(Part(R, a, a + n), a),
                        hasNext |-> FALSE, hasPrevious |-> a > 0]
    <3>1. w.start \in Nat /\ w.last \in Nat /\ w.last > 0
          /\ a = Most(w.start, Len(R) - w.last)
      BY <1>3, <2>1
    <3> HIDE DEF a
    <3> QED BY <2>1, <3>1, LastRowsShow
  <2>3. Part(R, a, a + n) = Part(R, a, p)
    <3>1. Least(a + n, size) = Least(p, size)
      <4> HIDE DEF size
      <4> QED BY <1>1, <1>3 DEF Least, Most
    <3>2. a + n \in Nat
      BY <1>2
    <3> HIDE DEF a
    <3> QED BY <1>1, <1>2, <3>1, <3>2, PartSame
  <2> DEFINE es == EdgesAt(Part(R, a, p), a)  no == FALSE  back == a > 0
  <2>4. Sliced(w, R) = [edges |-> es, hasNext |-> no, hasPrevious |-> back]
    BY <2>2, <2>3
  <2>5. Sliced(w, R).edges = es /\ Sliced(w, R).hasPrevious = back
    <3> HIDE DEF es, no, back
    <3> QED BY <2>4
  <2> HIDE DEF a
  <2> QED BY <1>2, <2>5
<1>4. CASE w = Before(n, p) /\ p > 0
  <2> DEFINE nodes == PySlice(R, a, p + 1)  ln == Len(nodes)
             kept == SubSeq(nodes, 1, ln - 1)
             edges == [i \in 1..Len(kept) |-> [cursor |-> a + i - 1, row |-> kept[i]]]
  <2>1. /\ w.start = a /\ w.end = p /\ ~Endless(w) /\ Overfetch(w) = p + 1
    BY <1>1, <1>4 DEF Before, Endless, Overfetch
  <2>2. nodes = Part(R, a, p + 1) /\ nodes \in Seq(Rows)
        /\ ln = Most(Least(p + 1, size) - a, 0) /\ ln \in Nat
    <3>1. p + 1 \in Nat
      BY <1>1
    <3>2. nodes = Part(R, a, p + 1)
      <4> HIDE DEF a
      <4> QED BY <1>1, <1>2, <3>1, SliceIsPart
    <3>3. /\ Part(R, a, p + 1) \in Seq(Rows)
          /\ Len(Part(R, a, p + 1)) = Most(Least(p + 1, size) - a, 0)
      <4> HIDE DEF a
      <4> QED BY <1>2, <3>1, PartType
    <3> HIDE DEF nodes, a
    <3> QED BY <3>2, <3>3
  <2>3. CASE p < size
    <3>1. ln = p - a + 1 /\ Least(p - a, ln) = p - a /\ p - a \in Nat
      <4>1. ln = p - a + 1
        <5> HIDE DEF ln, size, a
        <5> QED BY <1>1, <1>2, <2>2, <2>3 DEF Most, Least
      <4> HIDE DEF ln, a
      <4> QED BY <1>1, <1>2, <4>1 DEF Least
    <3>2. kept = Part(R, a, p)
      <4>1. ln - 1 = p - a /\ 0 + 1 = 1
        <5> HIDE DEF ln, a
        <5> QED BY <1>1, <1>2, <3>1
      <4>2. kept = Part(nodes, 0, p - a)
        <5> HIDE DEF nodes, a
        <5> QED BY <3>1, <4>1 DEF Part
      <4>3. Part(Part(R, a, p + 1), 0, p - a)
              = Part(R, a + 0, Least(a + (p - a), p + 1))
        <5>1. p + 1 \in Nat /\ 0 \in Nat
          BY <1>1
        <5> HIDE DEF a
        <5> QED BY <1>2, <3>1, <5>1, PartOfPart
      <4>4. a + 0 = a /\ Least(a + (p - a), p + 1) = p
        <5> HIDE DEF a
        <5> QED BY <1>1, <1>2 DEF Least
      <4> HIDE DEF kept, nodes, a
      <4> QED BY <2>2, <4>2, <4>3, <4>4
    <3>3. Sliced(w, R) = [edges |-> edges, hasNext |-> TRUE, hasPrevious |-> a > 0]
      <4>1. Sliced(w, R) = Answer(w, nodes)
        BY <2>1 DEF Sliced
      <4>2. ln = w.end - w.start + 1 /\ a + 0 = a
        <5> HIDE DEF ln, a
        <5> QED BY <1>1, <1>2, <2>1, <3>1
      <4> HIDE DEF nodes, a
      <4> QED BY <2>1, <4>1, <4>2 DEF Answer
    <3>4. edges = EdgesAt(kept, a)
      BY DEF EdgesAt
    <3> DEFINE yes == TRUE  back == a > 0
    <3>5. Sliced(w, R).edges = edges /\ Sliced(w, R).hasPrevious = back
      <4>1. Sliced(w, R) = [edges |-> edges, hasNext |-> yes, hasPrevious |-> back]
        BY <3>3
      <4> HIDE DEF edges, yes, back
      <4> QED BY <4>1
    <3> HIDE DEF a, kept, edges
    <3> QED BY <1>2, <3>2, <3>4, <3>5
  <2>4. CASE p = size
    <3>1. ln = p - a
      <4> HIDE DEF ln, size, a
      <4> QED BY <1>1, <1>2, <2>2, <2>4 DEF Most, Least
    <3> DEFINE all == [i \in 1..Len(nodes) |-> [cursor |-> a + i - 1, row |-> nodes[i]]]
               no == FALSE  back == a > 0
    <3>2. Sliced(w, R) = [edges |-> all, hasNext |-> no, hasPrevious |-> back]
      <4>1. Sliced(w, R) = Answer(w, nodes)
        BY <2>1 DEF Sliced
      <4>2. ln # w.end - w.start + 1 /\ a + 0 = a /\ 0 + 1 = 1
        <5> HIDE DEF ln, a
        <5> QED BY <1>1, <1>2, <2>1, <3>1
      <4>3. SubSeq(nodes, 1, ln) = nodes
        <5> HIDE DEF nodes
        <5> QED BY <2>2, SubSeqFull
      <4> HIDE DEF nodes, a
      <4> QED BY <2>1, <4>1, <4>2, <4>3 DEF Answer
    <3>3. Sliced(w, R).edges = all /\ Sliced(w, R).hasPrevious = back
      <4> HIDE DEF all, no, back
      <4> QED BY <3>2
    <3>4. Part(R, a, p + 1) = Part(R, a, p)
      <4>1. Least(p + 1, size) = Least(p, size) /\ p + 1 \in Nat
        <5> HIDE DEF size
        <5> QED BY <1>1, <2>4 DEF Least
      <4> HIDE DEF a
      <4> QED BY <1>1, <1>2, <4>1, PartSame
    <3>5. all = EdgesAt(nodes, a)
      BY DEF EdgesAt
    <3> HIDE DEF a, nodes, all
    <3> QED BY <1>2, <2>2, <3>3, <3>4, <3>5
  <2> QED BY <1>1, <2>3, <2>4
<1> QED BY <1>3, <1>4

\* The rows that a page made of a part shows.
LEMMA ShownRows ==
  ASSUME NEW R \in Seq(Rows), NEW a \in Nat, NEW b \in Nat, a <= b, b <= Len(R),
         page.edges = EdgesAt(Part(R, a, b), a)
  PROVE  /\ PageRows = Part(R, a, b) /\ Len(page.edges) = b - a
         /\ page.edges # <<>> <=> a < b
         /\ a < b => /\ page.edges[1].cursor = a
                     /\ Last(page.edges).cursor + 1 = b
<1> DEFINE part == Part(R, a, b)  edges == EdgesAt(part, a)  n == b - a
<1>1. part \in Seq(Rows) /\ Len(part) = n /\ n \in Nat
  <2>1. part \in Seq(Rows) /\ Len(part) = Most(Least(b, Len(R)) - a, 0)
    BY PartType
  <2>2. Most(Least(b, Len(R)) - a, 0) = n /\ n \in Nat
    BY DEF Most, Least
  <2> HIDE DEF part, n
  <2> QED BY <2>1, <2>2
<1>2. /\ edges = [i \in 1..n |-> [cursor |-> a + i - 1, row |-> part[i]]]
      /\ DOMAIN edges = 1..n /\ Len(edges) = n
      /\ \A i \in 1..n : edges[i].cursor = a + i - 1 /\ edges[i].row = part[i]
  <2>1. edges = [i \in 1..n |-> [cursor |-> a + i - 1, row |-> part[i]]]
    <3> HIDE DEF part, n
    <3> QED BY <1>1 DEF EdgesAt
  <2> HIDE DEF part, edges, n
  <2> QED BY <1>1, <2>1
<1>3. PageRows = part
  <2>1. PageRows = [i \in 1..n |-> edges[i].row]
    BY <1>2 DEF PageRows
  <2>2. DOMAIN part = 1..n /\ part = [i \in DOMAIN part |-> part[i]]
    <3> HIDE DEF part, n
    <3> QED BY <1>1
  <2> HIDE DEF part, edges, n
  <2> QED BY <1>2, <2>1, <2>2
<1>4. edges # <<>> <=> a < b
  <2>1. edges = <<>> => n = 0
    <3> HIDE DEF edges, n
    <3> QED BY <1>1, <1>2
  <2>2. n = 0 => edges = <<>>
    <3> HIDE DEF edges, n, part
    <3> QED BY <1>1, <1>2
  <2> HIDE DEF edges
  <2> QED BY <1>1, <2>1, <2>2
<1>5. a < b => edges[1].cursor = a /\ Last(edges).cursor + 1 = b
  <2> SUFFICES ASSUME a < b PROVE edges[1].cursor = a /\ Last(edges).cursor + 1 = b
    OBVIOUS
  <2>1. 1 \in 1..n /\ n \in 1..n /\ a + 1 - 1 = a /\ a + n - 1 + 1 = b
    OBVIOUS
  <2> HIDE DEF edges, n
  <2> QED BY <1>2, <2>1 DEF Last
<1> HIDE DEF edges, part, n
<1> QED BY <1>2, <1>3, <1>4, <1>5 DEF edges, part, n

\* A client's pages are smaller than the distance from any row to the last
\* position there is (relay_max_results; _LAST_POSITION is sys.maxsize).
SmallPages == \A n \in PageSizes : n + Cardinality(Rows) < LastPosition

\* What a walk has seen is where its window begins, or ends.
SeenUpTo(p) ==
  LET n == walk.size IN
  \/ /\ walk.way = "forward" /\ Window = Forward(n, p)
     /\ walk.seen = Part(listing, 0, p)
  \/ /\ walk.way = "backward" /\ walk.seen = Part(listing, p, Len(listing))
     /\ \/ Window = Backward(n) /\ p = Len(listing)
        \/ Window = Before(n, p) /\ p > 0

\* A walk nobody writes into, through a query ordered to the row, reads one and
\* the same result page by page.
Undisturbed == walk.way # "none" /\ query.kind = "cut" /\ writes = 0

WalkFits ==
  /\ stage = "idle" => walk.way = "none"
  /\ writes = 0 => ~raced
  /\ asked.how = "batch" => query = Plain
  /\ stage = "window" => asked.how = "batch"
  /\ Undisturbed =>
       /\ stage # "whole" /\ asked.edges /\ walk.size \in PageSizes
       /\ \A s \in Listings(query, TRUE) : listing = RowsOf(query, s)
       /\ Len(listing) <= Cardinality(Rows)
       /\ \E p \in 0..Len(listing) : SeenUpTo(p)

\* The window of a walk is never read whole.
LEMMA WalksReadPages ==
  ASSUME NEW q, q.kind = "cut", NEW n \in Nat, n > 0, NEW p \in Nat,
         p + n < LastPosition, NEW r,
         \/ r.window = Forward(n, p)
         \/ r.window = Backward(n)
         \/ r.window = Before(n, p)
  PROVE  ~ReadsWhole(r, q)
<1> DEFINE w == r.window
<1>1. LastPosition \in Nat /\ n # 0 /\ n # None
  BY PagingAssumption
<1>2. ~FromTheEnd(w)
  BY <1>1 DEF FromTheEnd, Forward, Backward, Before, Most
<1>3. ~(IF Endless(w) THEN w.last \in {0, None} ELSE Limit(w) > 0 /\ ~CanCut(q))
  <2>1. CASE Endless(w)
    <3>1. w.last = n
      BY <1>1, <2>1 DEF Endless, Forward, Backward, Before
    <3> QED BY <1>1, <2>1, <3>1
  <2>2. CASE ~Endless(w)
    BY <2>2 DEF CanCut
  <2> QED BY <2>1, <2>2
<1> QED BY <1>2, <1>3 DEF ReadsWhole

LEMMA FirstStages ==
  ASSUME NEW r, NEW q
  PROVE  /\ FirstStage(r, q) # "idle"
         /\ FirstStage(r, q) = "whole" => ReadsWhole(r, q)
         /\ FirstStage(r, q) = "window" => r.how = "batch"
BY DEF FirstStage

\* How long a listing and its rows are.
LEMMA RowsAreFew ==
  ASSUME table \subseteq Rows, NEW q \in QueryType, NEW s \in Listings(q, TRUE)
  PROVE  Len(RowsOf(q, s)) <= Cardinality(Rows) /\ Cardinality(Rows) \in Nat
<1>1. Cardinality(table) <= Cardinality(Rows) /\ Cardinality(Rows) \in Nat
  BY PagingAssumption, FS_Subset, FS_CardinalityType
<1>2. s \in Seq(Rows) /\ Len(s) = Cardinality(table) /\ Cardinality(table) \in Nat
  BY ListingFacts
<1>3. RowsOf(q, s) \in Seq(Rows) /\ Len(RowsOf(q, s)) <= Len(s)
  BY <1>2, RowsArePart
<1>4. Len(RowsOf(q, s)) \in Nat
  BY <1>3
<1> QED BY <1>1, <1>2, <1>3, <1>4

\* What an answered page of an undisturbed walk shows.
LEMMA WalkPage ==
  ASSUME PagingInv, WalkFits, SmallPages, Undisturbed, stage = "answered"
  PROVE  \E p \in 0..Len(listing) :
           /\ SeenUpTo(p)
           /\ \/ /\ walk.way = "forward"
                 /\ \E e \in p..Len(listing) :
                      /\ page.edges = EdgesAt(Part(listing, p, e), p)
                      /\ page.hasNext => e > p
                      /\ ~page.hasNext => e = Len(listing)
              \/ /\ walk.way = "backward"
                 /\ \E a \in 0..p :
                      /\ page.edges = EdgesAt(Part(listing, a, p), a)
                      /\ page.hasPrevious = (a > 0)
                      /\ p > 0 => a < p
<1>1. /\ ~raced /\ asked.edges /\ walk.size \in PageSizes
      /\ Len(listing) <= Cardinality(Rows)
  BY DEF WalkFits, Undisturbed
<1>2. PICK p \in 0..Len(listing) : SeenUpTo(p)
  BY DEF WalkFits
<1>3. page = Sliced(Window, listing)
  BY <1>1 DEF PagingInv, RequestInv, PageFits, PageOf
<1>4. listing \in Seq(Rows) /\ Len(listing) \in Nat
  BY DEF PagingInv, RequestInv, RequestTypes
<1> DEFINE n == walk.size
<1>5. /\ n \in Nat /\ n > 0 /\ LastPosition \in Nat /\ Cardinality(Rows) \in Nat
      /\ n + Cardinality(Rows) < LastPosition
  <2>1. n \in PageSizes /\ PageSizes \subseteq Nat \ {0} /\ IsFiniteSet(Rows)
        /\ LastPosition \in Nat
    BY <1>1, PagingAssumption
  <2>2. n + Cardinality(Rows) < LastPosition
    BY <2>1 DEF SmallPages
  <2>3. Cardinality(Rows) \in Nat
    BY <2>1, FS_CardinalityType
  <2> HIDE DEF n
  <2> QED BY <2>1, <2>2, <2>3
<1>6. Len(listing) < LastPosition /\ p + n < LastPosition
  <2> HIDE DEF n
  <2> QED BY <1>1, <1>2, <1>4, <1>5
<1>7. CASE walk.way = "forward"
  <2>1. Window = Forward(n, p)
    BY <1>2, <1>7 DEF SeenUpTo
  <2>2. \E e \in p..Len(listing) :
           /\ Sliced(Forward(n, p), listing).edges = EdgesAt(Part(listing, p, e), p)
           /\ Sliced(Forward(n, p), listing).hasNext => e > p
           /\ ~Sliced(Forward(n, p), listing).hasNext => e = Len(listing)
    <3> HIDE DEF n
    <3> QED BY <1>4, <1>5, <1>6, ForwardPage
  <2> HIDE DEF n
  <2> QED BY <1>2, <1>3, <1>7, <2>1, <2>2
<1>8. CASE walk.way = "backward"
  <2> DEFINE w == Window
  <2>1. \/ w = Backward(n) /\ p = Len(listing)
        \/ w = Before(n, p) /\ p > 0
    BY <1>2, <1>8 DEF SeenUpTo
  <2>2. \E a \in 0..p :
           /\ Sliced(w, listing).edges = EdgesAt(Part(listing, a, p), a)
           /\ Sliced(w, listing).hasPrevious = (a > 0)
           /\ p > 0 => a < p
    <3> HIDE DEF n, w
    <3> QED BY <1>4, <1>5, <1>6, <2>1, BackwardPage
  <2> QED BY <1>2, <1>3, <1>8, <2>2
<1> QED BY <1>2, <1>7, <1>8 DEF SeenUpTo

\* A page joins what was seen before it: the next window begins, or ends, where
\* what was seen does.
LEMMA WalkGoesOn ==
  ASSUME PagingInv, WalkFits, SmallPages, Undisturbed, Continue
  PROVE  \E p \in 0..Len(listing) :
           /\ walk'.seen = IF walk.way = "forward" THEN Part(listing, 0, p)
                                                   ELSE Part(listing, p, Len(listing))
           /\ Begin([asked EXCEPT !.window =
                       IF walk.way = "forward" THEN Forward(walk.size, p)
                                               ELSE Before(walk.size, p)], query)
           /\ walk.way = "backward" => p > 0
<1> DEFINE R == listing  size == Len(R)
<1>1. R \in Seq(Rows) /\ size \in Nat /\ walk.seen \in Seq(Rows) /\ walk \in WalkType
  <2>1. R \in Seq(Rows) /\ walk.seen \in Seq(Rows) /\ walk \in WalkType
    BY DEF PagingInv, RequestInv, RequestTypes, ClientTypes, WalkType
  <2> QED BY <2>1
<1>2. size <= Cardinality(Rows) /\ Cardinality(Rows) \in Nat
  BY PagingAssumption, FS_CardinalityType DEF WalkFits
<1>3. stage = "answered" /\ MoreToWalk
      /\ walk' = [walk EXCEPT !.seen = Remembered(Walked)]
      /\ Begin([asked EXCEPT !.window =
                  IF walk.way = "forward"
                    THEN Forward(walk.size, Last(page.edges).cursor + 1)
                    ELSE Before(walk.size, page.edges[1].cursor)], query)
  BY DEF Continue
<1>4. PICK p \in 0..size :
           /\ SeenUpTo(p)
           /\ \/ /\ walk.way = "forward"
                 /\ \E e \in p..size :
                      /\ page.edges = EdgesAt(Part(R, p, e), p)
                      /\ page.hasNext => e > p
                      /\ ~page.hasNext => e = size
              \/ /\ walk.way = "backward"
                 /\ \E a \in 0..p :
                      /\ page.edges = EdgesAt(Part(R, a, p), a)
                      /\ page.hasPrevious = (a > 0)
                      /\ p > 0 => a < p
  BY <1>3, WalkPage
\* Nothing that was seen is forgotten.
<1>5. ASSUME NEW a \in Nat, NEW b \in Nat, a <= b, b <= size, Walked = Part(R, a, b)
      PROVE  walk'.seen = Part(R, a, b)
  <2> DEFINE rows == Part(R, a, b)  bound == Cardinality(Rows) + 1
  <2>1. rows \in Seq(Rows) /\ Len(rows) \in Nat /\ Len(rows) <= size
    <3>1. rows \in Seq(Rows) /\ Len(rows) = Most(Least(b, size) - a, 0)
      BY <1>1, PartType
    <3>2. Most(Least(b, size) - a, 0) <= size /\ Most(Least(b, size) - a, 0) \in Nat
      <4> HIDE DEF size
      <4> QED BY <1>1, <1>5 DEF Most, Least
    <3> HIDE DEF rows
    <3> QED BY <3>1, <3>2
  <2>2. Least(Len(rows), bound) = Len(rows)
    <3> HIDE DEF rows, size
    <3> QED BY <1>1, <1>2, <2>1 DEF Least
  <2>3. Remembered(rows) = rows
    <3> HIDE DEF rows, bound
    <3> QED BY <2>1, <2>2, SubSeqFull DEF Remembered, bound
  <2>4. walk'.seen = Remembered(Walked)
    BY <1>1, <1>3 DEF WalkType
  <2> QED BY <1>5, <2>3, <2>4
<1>6. CASE walk.way = "forward"
  <2>1. PICK e \in p..size : /\ page.edges = EdgesAt(Part(R, p, e), p)
                             /\ page.hasNext => e > p
    BY <1>4, <1>6
  <2>2. p \in Nat /\ e \in Nat /\ p < e /\ e <= size
    BY <1>1, <1>3, <1>6, <2>1 DEF MoreToWalk
  <2>3. PageRows = Part(R, p, e) /\ Last(page.edges).cursor + 1 = e
    <3> HIDE DEF size
    <3> QED BY <1>1, <2>1, <2>2, ShownRows DEF size
  <2>4. Walked = Part(R, 0, e)
    <3>1. walk.seen = Part(R, 0, p) /\ Walked = walk.seen \o PageRows
      BY <1>4, <1>6 DEF SeenUpTo, Walked
    <3>2. Part(R, 0, p) \o Part(R, p, e) = Part(R, 0, e)
      <4>1. 0 \in Nat /\ 0 <= p /\ p <= e
        BY <2>2
      <4> QED BY <1>1, <2>2, <4>1, PartsMeet
    <3> QED BY <2>3, <3>1, <3>2
  <2>5. walk'.seen = Part(R, 0, e)
    <3>1. 0 \in Nat /\ 0 <= e
      BY <2>2
    <3> QED BY <1>5, <2>2, <2>4, <3>1
  <2>6. e \in 0..Len(listing)
    BY <2>2
  <2> QED BY <1>3, <1>6, <2>3, <2>5, <2>6
<1>7. CASE walk.way = "backward"
  <2>1. PICK a \in 0..p : /\ page.edges = EdgesAt(Part(R, a, p), a)
                          /\ page.hasPrevious = (a > 0)
                          /\ p > 0 => a < p
    BY <1>4, <1>7
  <2>2. a > 0 /\ a \in Nat /\ p \in Nat /\ a < p /\ p <= size
    <3>1. page.hasPrevious
      BY <1>3, <1>7 DEF MoreToWalk
    <3>2. a > 0
      BY <2>1, <3>1, Zenon
    <3>3. a \in Nat /\ p \in Nat /\ p <= size
      BY <1>1
    <3>4. p > 0
      BY <3>2, <3>3
    <3> QED BY <2>1, <3>2, <3>3, <3>4
  <2>3. PageRows = Part(R, a, p) /\ page.edges[1].cursor = a
    <3> HIDE DEF size
    <3> QED BY <1>1, <2>1, <2>2, ShownRows DEF size
  <2>4. Walked = Part(R, a, size)
    <3>1. walk.seen = Part(R, p, size) /\ Walked = PageRows \o walk.seen
      BY <1>4, <1>7 DEF SeenUpTo, Walked
    <3>2. Part(R, a, p) \o Part(R, p, size) = Part(R, a, size)
      BY <1>1, <2>2, PartsMeet
    <3> QED BY <2>3, <3>1, <3>2
  <2>5. walk'.seen = Part(R, a, size)
    <3>1. a <= size /\ size <= size
      BY <1>1, <2>2
    <3> QED BY <1>1, <1>5, <2>2, <2>4, <3>1
  <2>6. a \in 0..Len(listing) /\ walk.way # "forward"
    BY <1>1, <1>7, <2>2
  <2> QED BY <1>3, <1>7, <2>2, <2>3, <2>5, <2>6
<1> QED BY <1>4, <1>6, <1>7

\* A request of a walk begins it, or goes on with it.
LEMMA WalkBegins ==
  ASSUME PagingInv, SmallPages, UNCHANGED <<table, writes>>,
         NEW r, NEW q \in Queries \cup {Plain}, Begin(r, q),
         r.how = "batch" => q = Plain,
         walk'.way # "none" /\ q.kind = "cut" /\ writes = 0 =>
           /\ r.edges /\ walk'.size \in PageSizes
           /\ \E p \in 0..Len(listing') :
                \/ /\ walk'.way = "forward" /\ r.window = Forward(walk'.size, p)
                   /\ walk'.seen = Part(listing', 0, p)
                \/ /\ walk'.way = "backward"
                   /\ walk'.seen = Part(listing', p, Len(listing'))
                   /\ \/ r.window = Backward(walk'.size) /\ p = Len(listing')
                      \/ r.window = Before(walk'.size, p) /\ p > 0
  PROVE  WalkFits'
<1>1. /\ asked' = r /\ query' = q /\ stage' = FirstStage(r, q) /\ raced' = FALSE
      /\ \E s \in Listings(q, TRUE) : listing' = RowsOf(q, s)
      /\ writes' = writes /\ table' = table
  BY DEF Begin
<1>2. q \in QueryType /\ table \subseteq Rows /\ writes \in Nat
  BY QueriesAreQueries, PagingAssumption DEF PagingInv, ClientTypes
<1>3. PICK s \in Listings(q, TRUE) : listing' = RowsOf(q, s)
  BY <1>1
<1>4. \A t \in Listings(q, TRUE) : listing' = RowsOf(q, t)
  BY <1>2, <1>3, OneListing
<1>5. Len(listing') <= Cardinality(Rows) /\ Cardinality(Rows) \in Nat
  BY <1>2, <1>3, RowsAreFew
<1>6. ASSUME Undisturbed'
      PROVE  /\ stage' # "whole" /\ asked'.edges /\ walk'.size \in PageSizes
             /\ \A t \in Listings(query, TRUE)' : listing' = RowsOf(query, t)'
             /\ \E p \in 0..Len(listing') : SeenUpTo(p)'
  <2>1. walk'.way # "none" /\ q.kind = "cut" /\ writes = 0
    BY <1>1, <1>6 DEF Undisturbed
  <2>2. PICK p \in 0..Len(listing') :
                \/ /\ walk'.way = "forward" /\ r.window = Forward(walk'.size, p)
                   /\ walk'.seen = Part(listing', 0, p)
                \/ /\ walk'.way = "backward"
                   /\ walk'.seen = Part(listing', p, Len(listing'))
                   /\ \/ r.window = Backward(walk'.size) /\ p = Len(listing')
                      \/ r.window = Before(walk'.size, p) /\ p > 0
    BY <2>1
  <2>3. r.edges /\ walk'.size \in PageSizes
    BY <2>1
  <2>4. SeenUpTo(p)'
    BY <1>1, <2>2 DEF SeenUpTo, Window
  <2>5. stage' # "whole"
    <3> DEFINE n == walk'.size  size == Len(listing')
    <3>1. n \in Nat /\ n > 0 /\ n + Cardinality(Rows) < LastPosition
          /\ LastPosition \in Nat
      <4>1. n \in PageSizes /\ PageSizes \subseteq Nat \ {0} /\ LastPosition \in Nat
        BY <2>3, PagingAssumption
      <4>2. n + Cardinality(Rows) < LastPosition
        BY <4>1 DEF SmallPages
      <4> HIDE DEF n
      <4> QED BY <4>1, <4>2
    <3>2. size \in Nat
      <4>1. s \in Seq(Rows)
        BY <1>2, ListingFacts
      <4>2. listing' \in Seq(Rows)
        BY <1>2, <1>3, <4>1, RowsArePart
      <4> QED BY <4>2
    <3>3. p \in Nat /\ p + n < LastPosition
      <4> HIDE DEF n, size
      <4> QED BY <1>5, <2>2, <3>1, <3>2 DEF size
    <3>4. \/ r.window = Forward(n, p)
          \/ r.window = Backward(n)
          \/ r.window = Before(n, p)
      BY <2>2
    <3>5. ~ReadsWhole(r, q)
      <4> HIDE DEF n
      <4> QED BY <2>1, <3>1, <3>3, <3>4, WalksReadPages
    <3> QED BY <1>1, <3>5, FirstStages
  <2>6. \A t \in Listings(query, TRUE)' : listing' = RowsOf(query, t)'
    <3>1. Listings(query, TRUE)' = Listings(q, TRUE)
      BY <1>1 DEF Listings, Ordered, RankIn
    <3>2. \A t : RowsOf(query, t)' = RowsOf(q, t)
      BY <1>1 DEF RowsOf
    <3> QED BY <1>4, <3>1, <3>2
  <2> QED BY <1>1, <2>2, <2>3, <2>4, <2>5, <2>6
<1>7. stage' # "idle" /\ ~raced'
  BY <1>1, FirstStages
<1>8. /\ asked'.how = "batch" => query' = Plain
      /\ stage' = "window" => asked'.how = "batch"
  BY <1>1, FirstStages
<1> QED BY <1>5, <1>6, <1>7, <1>8 DEF WalkFits

LEMMA WalksFit ==
  ASSUME SmallPages, PagingInv, WalkFits, [Next]_vars
  PROVE  WalkFits'
<1> USE DEF asking
<1>0. /\ query \in Queries \cup {Plain} /\ asked \in RequestType
      /\ listing \in Seq(Rows) /\ Len(listing) \in Nat /\ writes \in Nat
      /\ walk \in WalkType
  <2>1. /\ query \in Queries \cup {Plain} /\ asked \in RequestType
        /\ listing \in Seq(Rows) /\ writes \in Nat /\ walk \in WalkType
    BY PagingAssumption
       DEF PagingInv, RequestInv, RequestTypes, ClientTypes, WalkType
  <2> QED BY <2>1
<1>1. CASE Ask
  <2>1. PICK q \in Queries, w \in Windows, how \in {"query", "batch"},
             edges \in BOOLEAN, counts \in BOOLEAN :
               /\ how = "batch" => CanBatch(w, q)
               /\ Begin(Request(w, how, edges, counts), q)
    BY <1>1 DEF Ask
  <2>2. /\ stage = "idle" /\ UNCHANGED <<table, writes, walk>> /\ walk'.way = "none"
    BY <1>1 DEF Ask, WalkFits
  <2>3. Request(w, how, edges, counts).how = "batch" => q = Plain
    BY <2>1 DEF Request, CanBatch
  <2> DEFINE r == Request(w, how, edges, counts)
  <2> HIDE DEF r
  <2> QED BY <2>1, <2>2, <2>3, WalkBegins DEF r
<1>2. CASE StartWalk
  <2>1. PICK q \in Queries, n \in PageSizes, way \in {"forward", "backward"},
             how \in {"query", "batch"} :
               LET w == IF way = "forward" THEN Forward(n, 0) ELSE Backward(n) IN
               /\ how = "batch" => way = "forward" /\ CanBatch(w, q)
               /\ walk' = [way |-> way, size |-> n, seen |-> <<>>]
               /\ Begin(Request(w, how, TRUE, FALSE), q)
    BY <1>2 DEF StartWalk
  <2> DEFINE w == IF way = "forward" THEN Forward(n, 0) ELSE Backward(n)
             r == Request(w, how, TRUE, FALSE)
  <2>2. /\ UNCHANGED <<table, writes>> /\ Begin(r, q)
        /\ walk'.way = way /\ walk'.size = n /\ walk'.seen = <<>>
        /\ r.how = "batch" => q = Plain
        /\ r.edges /\ r.window = w
    BY <1>2, <2>1 DEF StartWalk, Request, CanBatch
  <2>3. listing' \in Seq(Rows) /\ Len(listing') \in Nat
    <3>1. q \in QueryType /\ table \subseteq Rows
      BY QueriesAreQueries DEF PagingInv, ClientTypes
    <3>2. PICK s \in Listings(q, TRUE) : listing' = RowsOf(q, s)
      BY <2>2 DEF Begin
    <3>3. s \in Seq(Rows)
      BY <3>1, ListingFacts
    <3>4. listing' \in Seq(Rows)
      BY <3>1, <3>2, <3>3, RowsArePart
    <3> QED BY <3>4
  <2>4. \E p \in 0..Len(listing') :
          \/ /\ walk'.way = "forward" /\ r.window = Forward(walk'.size, p)
             /\ walk'.seen = Part(listing', 0, p)
          \/ /\ walk'.way = "backward"
             /\ walk'.seen = Part(listing', p, Len(listing'))
             /\ \/ r.window = Backward(walk'.size) /\ p = Len(listing')
                \/ r.window = Before(walk'.size, p) /\ p > 0
    <3>1. CASE way = "forward"
      <4>1. Part(listing', 0, 0) = <<>> /\ 0 \in 0..Len(listing')
        <5>1. Least(0, Len(listing')) <= 0
          BY <2>3 DEF Least
        <5> QED BY <2>3, <5>1, PartEmpty
      <4> QED BY <2>2, <3>1, <4>1
    <3>2. CASE way = "backward"
      <4> DEFINE p == Len(listing')
      <4>1. Part(listing', p, p) = <<>> /\ p \in 0..Len(listing')
        <5>1. Least(p, Len(listing')) <= p
          BY <2>3 DEF Least
        <5> QED BY <2>3, <5>1, PartEmpty
      <4>2. r.window = Backward(n)
        BY <2>2, <3>2
      <4> HIDE DEF r
      <4> QED BY <2>2, <3>2, <4>1, <4>2
    <3> QED BY <3>1, <3>2
  <2>5. q \in Queries \cup {Plain}
    OBVIOUS
  <2>6. walk'.size \in PageSizes
    BY <2>2
  <2> HIDE DEF r, w
  <2> QED BY <2>2, <2>4, <2>5, <2>6, WalkBegins
<1>3. CASE Continue
  <2>1. UNCHANGED <<table, writes>> /\ walk' = [walk EXCEPT !.seen = Remembered(Walked)]
    BY <1>3 DEF Continue
  <2>2. walk'.way = walk.way /\ walk'.size = walk.size
    BY <1>0, <2>1 DEF WalkType
  <2>3. PICK x \in WindowType : Begin([asked EXCEPT !.window = x], query)
    BY <1>3, NextPageIsAWindow
  <2>4. \A y : /\ [asked EXCEPT !.window = y].how = asked.how
               /\ [asked EXCEPT !.window = y].edges = asked.edges
               /\ [asked EXCEPT !.window = y].window = y
    BY <1>0 DEF RequestType
  <2>5. asked.how = "batch" => query = Plain
    BY DEF WalkFits
  <2>6. CASE Undisturbed
    <3>1. PICK p \in 0..Len(listing) :
             /\ walk'.seen = IF walk.way = "forward" THEN Part(listing, 0, p)
                                                     ELSE Part(listing, p, Len(listing))
             /\ Begin([asked EXCEPT !.window =
                         IF walk.way = "forward" THEN Forward(walk.size, p)
                                                 ELSE Before(walk.size, p)], query)
             /\ walk.way = "backward" => p > 0
      BY <1>3, <2>6, WalkGoesOn
    <3> DEFINE v == IF walk.way = "forward" THEN Forward(walk.size, p)
                                            ELSE Before(walk.size, p)
               r == [asked EXCEPT !.window = v]
    <3>2. Begin(r, query) /\ r.how = asked.how /\ r.edges = asked.edges /\ r.window = v
      BY <2>4, <3>1
    <3>3. listing' = listing
      <4>1. \A s \in Listings(query, TRUE) : listing = RowsOf(query, s)
        BY <2>6 DEF WalkFits
      <4> QED BY <3>2, <4>1 DEF Begin
    <3>4. asked.edges /\ walk.size \in PageSizes /\ walk.way \in {"forward", "backward"}
      BY <1>0, <2>6 DEF WalkFits, WalkType, Undisturbed
    <3>5. \/ /\ walk'.way = "forward" /\ r.window = Forward(walk'.size, p)
             /\ walk'.seen = Part(listing', 0, p)
          \/ /\ walk'.way = "backward"
             /\ walk'.seen = Part(listing', p, Len(listing'))
             /\ \/ r.window = Backward(walk'.size) /\ p = Len(listing')
                \/ r.window = Before(walk'.size, p) /\ p > 0
      <4> HIDE DEF r
      <4> QED BY <2>2, <3>1, <3>2, <3>3, <3>4
    <3>6. r.edges /\ walk'.size \in PageSizes /\ p \in 0..Len(listing')
          /\ (r.how = "batch" => query = Plain)
      <4> HIDE DEF r
      <4> QED BY <2>2, <2>5, <3>2, <3>3, <3>4
    <3> HIDE DEF r, v
    <3> QED BY <1>0, <2>1, <3>2, <3>5, <3>6, WalkBegins
  <2>7. CASE ~Undisturbed
    <3> DEFINE r == [asked EXCEPT !.window = x]
    <3>1. Begin(r, query) /\ (r.how = "batch" => query = Plain)
      BY <2>3, <2>4, <2>5
    <3>2. ~(walk'.way # "none" /\ query.kind = "cut" /\ writes = 0)
      BY <2>2, <2>7 DEF Undisturbed
    <3> HIDE DEF r
    <3> QED BY <1>0, <2>1, <3>1, <3>2, WalkBegins
  <2> QED BY <2>6, <2>7
<1>4. CASE Rest
  <2>1. /\ stage' = "idle" /\ walk'.way = "none" /\ raced' = FALSE
        /\ asked' = Request(Forward(1, 0), "query", TRUE, FALSE)
    BY <1>4 DEF Rest, NoWalk
  <2> QED BY <2>1 DEF WalkFits, Undisturbed, Request
<1>5. CASE Serve
  <2>1. UNCHANGED <<table, writes, query, asked, raced, walk>>
    BY <1>5 DEF Serve, ReadWhole, ReadPage, CountTotal, Locate, ReadTail,
                ReadWindow, CountGroups
  <2>2. /\ stage' \notin {"idle", "window"}
        /\ stage # "idle" /\ (stage' = "whole" => ~CanCut(query))
    BY <1>5 DEF Serve, ReadWhole, ReadPage, CountTotal, Locate, ReadTail,
                ReadWindow, CountGroups
  <2>3. ASSUME Undisturbed PROVE listing' = listing
    <3>1. /\ stage # "whole"
          /\ \A s \in Listings(query, TRUE) : listing = RowsOf(query, s)
          /\ OrdersToTheRow(query) = TRUE
      BY <2>3 DEF WalkFits, Undisturbed, OrdersToTheRow
    <3>2. CASE ReadPage \/ ReadTail
      BY <3>1, <3>2 DEF ReadPage, ReadTail
    <3>3. CASE ReadWindow
      <4>1. query = Plain /\ query \in QueryType
        BY <1>0, <3>3, QueriesAreQueries DEF ReadWindow, WalkFits
      <4>2. PICK s \in Listings(query, TRUE) : listing' = s
        BY <3>3 DEF ReadWindow
      <4>3. s \in Seq(Rows)
        BY <4>1, ListingFacts DEF PagingInv, ClientTypes
      <4>4. RowsOf(query, s) = s
        <5>1. RowsOf(query, s) = SubSeq(s, 0 + 1, Len(s))
          BY <4>1 DEF RowsOf, Plain
        <5> QED BY <4>3, <5>1, SubSeqFull
      <4> QED BY <3>1, <4>2, <4>4
    <3>4. CASE CountTotal \/ Locate \/ CountGroups
      BY <3>4 DEF CountTotal, Locate, CountGroups
    <3>5. ~ReadWhole
      BY <3>1 DEF ReadWhole
    <3> QED BY <1>5, <3>2, <3>3, <3>4, <3>5 DEF Serve
  <2>4. Undisturbed' = Undisturbed
    BY <2>1 DEF Undisturbed
  <2>5. ASSUME Undisturbed
        PROVE  /\ stage' # "whole" /\ asked'.edges /\ walk'.size \in PageSizes
               /\ \A s \in Listings(query, TRUE)' : listing' = RowsOf(query, s)'
               /\ Len(listing') <= Cardinality(Rows)
               /\ \E p \in 0..Len(listing') : SeenUpTo(p)'
    <3>1. listing' = listing /\ CanCut(query)
      BY <2>3, <2>5 DEF Undisturbed, CanCut
    <3>2. Listings(query, TRUE)' = Listings(query, TRUE)
      BY <2>1 DEF Listings, Ordered, RankIn
    <3>3. \A s : RowsOf(query, s)' = RowsOf(query, s)
      BY <2>1 DEF RowsOf
    <3>4. \A p : SeenUpTo(p)' = SeenUpTo(p)
      BY <2>1, <3>1 DEF SeenUpTo, Window
    <3> QED BY <2>1, <2>2, <2>5, <3>1, <3>2, <3>3, <3>4 DEF WalkFits
  <2> QED BY <2>1, <2>2, <2>4, <2>5 DEF WalkFits
<1>6. CASE Write
  <2>1. writes' # 0 /\ UNCHANGED <<query, asked, stage, walk>> /\ stage # "idle"
    BY <1>0, <1>6 DEF Write
  <2> QED BY <2>1 DEF WalkFits, Undisturbed
<1>7. CASE UNCHANGED vars
  <2>1. UNCHANGED <<table, writes, query, asked, stage, listing, raced, walk>>
    BY <1>7 DEF vars, reading
  <2>2. Listings(query, TRUE)' = Listings(query, TRUE)
    BY <2>1 DEF Listings, Ordered, RankIn
  <2>3. \A s : RowsOf(query, s)' = RowsOf(query, s)
    BY <2>1 DEF RowsOf
  <2>4. \A p : SeenUpTo(p)' = SeenUpTo(p)
    BY <2>1 DEF SeenUpTo, Window
  <2>5. Undisturbed' = Undisturbed
    BY <2>1 DEF Undisturbed
  <2> QED BY <2>1, <2>2, <2>3, <2>4, <2>5 DEF WalkFits
<1> QED BY <1>1, <1>2, <1>3, <1>4, <1>5, <1>6, <1>7 DEF Next

\* A client that walks through a result nobody writes to, forward or backward,
\* with pages of any size it may ask for, sees every row once and in order: no
\* row falls between two pages and none is in both (README.md:1973).
THEOREM WalksSeeEveryRow ==
  ASSUME SmallPages
  PROVE  Spec => []WalkSeesEveryRow
<1>1. ASSUME PagingInv, WalkFits PROVE WalkSeesEveryRow
  <2> SUFFICES ASSUME stage = "answered", walk.way # "none", ~MoreToWalk,
                      query.kind = "cut", writes = 0,
                      NEW s \in Listings(query, TRUE)
               PROVE  Walked = RowsOf(query, s)
    BY DEF WalkSeesEveryRow
  <2> DEFINE R == listing  size == Len(R)
  <2>1. /\ R \in Seq(Rows) /\ size \in Nat /\ walk \in WalkType
        /\ R = RowsOf(query, s)
    <3>1. R \in Seq(Rows) /\ walk \in WalkType
      BY <1>1 DEF PagingInv, RequestInv, RequestTypes, ClientTypes, WalkType
    <3>2. R = RowsOf(query, s)
      BY <1>1 DEF WalkFits, Undisturbed
    <3> QED BY <3>1, <3>2
  <2>2. PICK p \in 0..size :
           /\ SeenUpTo(p)
           /\ \/ /\ walk.way = "forward"
                 /\ \E e \in p..size :
                      /\ page.edges = EdgesAt(Part(R, p, e), p)
                      /\ page.hasNext => e > p
                      /\ ~page.hasNext => e = size
              \/ /\ walk.way = "backward"
                 /\ \E a \in 0..p :
                      /\ page.edges = EdgesAt(Part(R, a, p), a)
                      /\ page.hasPrevious = (a > 0)
                      /\ p > 0 => a < p
    BY <1>1, WalkPage DEF Undisturbed
  <2>3. Part(R, 0, size) = R
    <3>1. Least(size, Len(R)) = Len(R) /\ 0 + 1 = 1
      BY <2>1 DEF Least
    <3> HIDE DEF R
    <3> QED BY <2>1, <3>1, SubSeqFull DEF Part
  <2>4. CASE walk.way = "forward"
    <3>1. PICK e \in p..size : /\ page.edges = EdgesAt(Part(R, p, e), p)
                               /\ page.hasNext => e > p
                               /\ ~page.hasNext => e = size
      BY <2>2, <2>4
    <3>2. p \in Nat /\ e \in Nat /\ p <= e /\ e <= size /\ 0 \in Nat /\ 0 <= p
      BY <2>1
    <3>3. PageRows = Part(R, p, e) /\ (page.edges # <<>> <=> p < e)
      <4> HIDE DEF R
      <4> QED BY <2>1, <3>1, <3>2, ShownRows
    <3>4. e = size
      BY <2>4, <3>1, <3>3 DEF MoreToWalk
    <3>5. walk.seen = Part(R, 0, p) /\ Walked = walk.seen \o PageRows
      BY <2>2, <2>4 DEF SeenUpTo, Walked
    <3>6. Part(R, 0, p) \o Part(R, p, e) = Part(R, 0, e)
      <4>1. e <= Len(R)
        BY <3>2
      <4> HIDE DEF R, size
      <4> QED BY <2>1, <3>2, <4>1, PartsMeet
    <3> QED BY <2>1, <2>3, <3>3, <3>4, <3>5, <3>6
  <2>5. CASE walk.way = "backward"
    <3>1. PICK a \in 0..p : /\ page.edges = EdgesAt(Part(R, a, p), a)
                            /\ page.hasPrevious = (a > 0)
                            /\ p > 0 => a < p
      BY <2>2, <2>5
    <3>2. a \in Nat /\ p \in Nat /\ a <= p /\ p <= size
      BY <2>1
    <3>3. PageRows = Part(R, a, p) /\ (page.edges # <<>> <=> a < p)
      <4> HIDE DEF R
      <4> QED BY <2>1, <3>1, <3>2, ShownRows
    <3>4. a = 0
      <4>1. page.edges = <<>> \/ ~page.hasPrevious
        BY <2>5 DEF MoreToWalk
      <4>2. ~page.hasPrevious => ~(a > 0)
        BY <3>1, Zenon
      <4> QED BY <3>1, <3>2, <3>3, <4>1, <4>2
    <3>5. walk.seen = Part(R, p, size) /\ Walked = PageRows \o walk.seen
      BY <2>2, <2>5 DEF SeenUpTo, Walked
    <3>6. Part(R, a, p) \o Part(R, p, size) = Part(R, a, size)
      <4>1. size \in Nat /\ size <= Len(R)
        BY <2>1
      <4> HIDE DEF R, size
      <4> QED BY <2>1, <3>2, <4>1, PartsMeet
    <3> QED BY <2>1, <2>3, <3>3, <3>4, <3>5, <3>6
  <2> QED BY <2>2, <2>4, <2>5
<1>2. Init => WalkFits
  BY DEF Init, WalkFits, Undisturbed, NoWalk, Request
<1>3. PagingInv /\ WalkFits /\ [Next]_vars => WalkFits'
  BY WalksFit
<1>4. PagingInv /\ WalkFits => WalkSeesEveryRow
  BY <1>1
<1> QED BY <1>2, <1>3, <1>4, PagingIsInvariant, PTL DEF Spec

=============================================================================
