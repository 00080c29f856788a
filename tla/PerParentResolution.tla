------------------------ MODULE PerParentResolution ------------------------
(***************************************************************************)
(* What batching.py promises: a relation field is answered as if every     *)
(* parent had been resolved alone.  Each parent gets its own answer, or    *)
(* fails once a statement has failed.                                      *)
(***************************************************************************)
EXTENDS Naturals

CONSTANTS
  Parents,
  Unanswered,
  Failed

VARIABLES
  own,      \* what the resolver of each parent answers when it runs alone
  answer,   \* what the field answered
  faults    \* how often a statement has failed

Init ==
  /\ answer = [p \in Parents |-> Unanswered]
  /\ faults = 0

Resolve(p) ==
  /\ answer[p] = Unanswered
  /\ answer' = [answer EXCEPT ![p] = own[p]]
  /\ UNCHANGED <<own, faults>>

StatementFails ==
  /\ faults' = faults + 1
  /\ UNCHANGED <<own, answer>>

Fail(p) ==
  /\ answer[p] = Unanswered
  /\ answer' = [answer EXCEPT ![p] = Failed]
  /\ faults' \in {faults, faults + 1} /\ faults' > 0
  /\ UNCHANGED own

Next == StatementFails \/ \E p \in Parents : Resolve(p) \/ Fail(p)

Spec == Init /\ [][Next]_<<own, answer, faults>>
=============================================================================
