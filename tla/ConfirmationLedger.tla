------------------------- MODULE ConfirmationLedger -------------------------
(***************************************************************************)
(* What QueryAgent promises of paused confirmations (agent.py, class       *)
(* docstring): on each agent a confirmation is redeemed at most once, and  *)
(* its change is executed at most once, only after that.                   *)
(***************************************************************************)
EXTENDS Naturals

CONSTANTS Agents, Confirmations

VARIABLES
  redeemed,   \* how often each agent let each confirmation through
  ran         \* how often each agent executed its change

ledger == <<redeemed, ran>>

Init ==
  /\ redeemed = [a \in Agents |-> [i \in Confirmations |-> 0]]
  /\ ran = [a \in Agents |-> [i \in Confirmations |-> 0]]

Redeem(a, i) ==
  /\ redeemed[a][i] = 0
  /\ redeemed' = [redeemed EXCEPT ![a][i] = 1]
  /\ UNCHANGED ran

Run(a, i) ==
  /\ redeemed[a][i] = 1 /\ ran[a][i] = 0
  /\ ran' = [ran EXCEPT ![a][i] = 1]
  /\ UNCHANGED redeemed

Next == \E a \in Agents, i \in Confirmations : Redeem(a, i) \/ Run(a, i)

Spec == Init /\ [][Next]_ledger
=============================================================================
