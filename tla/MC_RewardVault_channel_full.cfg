\* Shared queue, result channel smaller than the number of vaults; nothing receives.
CONSTANTS
  VaultIds = {v1, v2}
  Nodes = {n1, n2}
  n1 = n1
  n2 = n2
  RecipientChoices <- MCRecipients
  Amounts <- MCAmounts
  MaxTime = 2
  MaxSetBacks = 0
  ChanCap = 1
  Schedulers = {s1}
  Manager = mgr
  SharedState = TRUE
  DLVFaults = FALSE
SPECIFICATION Spec
PROPERTY EveryVaultResolved
\* The task parked in distribution_tx.send(..).await with nobody receiving is
\* the behaviour examined here; once the clock stops, no step is enabled, so
\* the stop is reported as the liveness violation rather than as a deadlock.
CHECK_DEADLOCK FALSE
