SPECIFICATION ServerFairSpec
CONSTANTS
  a1 = a1
  c1 = c1
  c2 = c2
  Agents = {a1}
  Mutating = {a1}
  Calls = {c1, c2}
  Confirming = {a1}
  Clarify = TRUE
  Lookups = TRUE
  MaxAttempts = 2
  MaxLookups = 1
  MaxClarifications = 1
  ConfirmWithin = 1
  MaxToolCalls = 2
  MaxTime = 1
  OnClarify = FALSE
  Clients <- MCClients
CHECK_DEADLOCK FALSE
INVARIANTS
  OnlyAgreedMutationsRun
  TurnsArePaidFor
  EveryToolCallIsReplied
  ChangesNeedAForm
PROPERTIES
  CallsEnd
