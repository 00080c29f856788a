---------------------------- MODULE AtomicWrite ----------------------------
(***************************************************************************)
(* What orm.apply_upsert() promises: "the whole write is one unit of work, *)
(* so an error leaves nothing behind" (core.py:1487).  Others see the      *)
(* table change when the write succeeds, at once and at no other time.     *)
(***************************************************************************)
VARIABLES table, outcome

Init == outcome = "new"

\* The write begins, or is rejected before it does anything.
Begin ==
  /\ outcome # "running"
  /\ outcome' \in {"running", "rejected"}
  /\ UNCHANGED table

Succeed == outcome = "running" /\ outcome' = "ok"

Abort == outcome = "running" /\ outcome' = "failed" /\ UNCHANGED table

Next == Begin \/ Succeed \/ Abort

Spec == Init /\ [][Next]_<<table, outcome>>
=============================================================================
