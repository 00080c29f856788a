------------------------ MODULE MCRelationConnection ------------------------
(* Small instances of RelationConnection. *)
EXTENDS RelationConnection, TLC

CONSTANTS p1, p2, p3, p4, p5, g1, g2, g3, k1, k2, k3

AddressSymmetry == Permutations(Addresses)

\* Three groups, one of a single row; the row of k2 is read in two of them.
ThreeGroups == p1 :> g1 @@ p2 :> g1 @@ p3 :> g2 @@ p4 :> g2 @@ p5 :> g3
ThreeGroupsPk == p1 :> k1 @@ p2 :> k2 @@ p3 :> k2 @@ p4 :> k3 @@ p5 :> k3
=============================================================================
