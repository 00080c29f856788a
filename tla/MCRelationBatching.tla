------------------------- MODULE MCRelationBatching -------------------------
(* Small instances of RelationBatching. *)
EXTENDS RelationBatching, TLC

CONSTANTS p1, p2, p3, p4, p5, g1, g2, g3, k1, k2, k3, author, reviewer,
          r1, r2, r3, r4

AddressSymmetry == Permutations(Addresses)

\* Three groups, the second of a single row.
ThreeGroups == p1 :> g1 @@ p2 :> g1 @@ p3 :> g2 @@ p4 :> g3 @@ p5 :> g3
ThreeGroupsPk == p1 :> k1 @@ p2 :> k2 @@ p3 :> k3 @@ p4 :> k3 @@ p5 :> k1

Row(x, y) == author :> x @@ reviewer :> y
TableRows == r1 :> Row(k1, k2) @@ r2 :> Row(k2, k2) @@ r3 :> Row(k3, k2)
               @@ r4 :> Row(k2, k1)

Reads(k, more, rows, plain) ==
  [kind |-> "query",
   query |-> [eq |-> {[col |-> author, val |-> k]} \cup more, rest |-> rows,
              rewritable |-> plain]]

Other(kind, k) == [Reads(k, {}, Rows, FALSE) EXCEPT !.kind = kind]

\* A plain read, a filtered one, one more key, a sliced one, rows, an error.
Varied(k) ==
  {Reads(k, {}, Rows, TRUE), Reads(k, {}, {r1, r3, r4}, TRUE),
   Reads(k, {[col |-> reviewer, val |-> k2]}, Rows, TRUE),
   Reads(k, {}, Rows, FALSE), Other("rows", k), Other("raises", k)}

Plain(k) == {Reads(k, {}, Rows, TRUE)}

AnyOutcome ==
  k1 :> Varied(k1) @@ k2 :> Varied(k2)
    @@ k3 :> Plain(k3) \cup {Other("rows", k3)}

PlainOutcome == [k \in {k1, k2, k3} |-> Plain(k)]
=============================================================================
