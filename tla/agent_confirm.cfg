\* Confirmations: three calls that may look up and ask, replayed states, and an
\* agent that refuses mutations.
SPECIFICATION Spec
CONSTANTS
  a1 = a1
  a2 = a2
  c1 = c1
  c2 = c2
  c3 = c3
  Agents = {a1, a2}
  Mutating = {a1}
  Calls = {c1, c2, c3}
  Confirming = {a1, a2}
  Clarify = TRUE
  Lookups = TRUE
  MaxAttempts = 1
  MaxLookups = 1
  MaxClarifications = 1
  ConfirmWithin = 1
  MaxToolCalls = 1
  MaxTime = 2
SYMMETRY CallSymmetry
CHECK_DEADLOCK FALSE
INVARIANTS
  RedeemedOnce
  ChangeRunsOnce
  ForgottenMeansExpired
PROPERTIES
  KeepsLedger
