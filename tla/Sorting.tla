------------------------------ MODULE Sorting -------------------------------
(* The members of a set one after another, for the modules that read rows  *)
(* in an order.                                                            *)
EXTENDS Naturals, FiniteSets

\* R is a set of pairs: of x and y, x comes before y if <<x, y>> is in R, which
\* orders the members of S. Each takes the place after those that come before it.
Arranged(S, R) ==
    [i \in 1 .. Cardinality(S) |->
        CHOOSE x \in S : Cardinality({y \in S : <<y, x>> \in R}) = i - 1]
=============================================================================
