---------------------------- MODULE MCQueryAgent ----------------------------
(* Instances of QueryAgent for TLC. *)
EXTENDS QueryAgent, TLC

CallSymmetry == Permutations(Calls)
=============================================================================
