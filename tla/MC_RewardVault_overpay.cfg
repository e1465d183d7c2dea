\* Ratios summing to up to 1_010_000 pass the creation check.
CONSTANTS
  VaultIds = {v1, v2}
  Nodes = {n1, n2}
  n1 = n1
  n2 = n2
  RecipientChoices <- MCRecipients
  Amounts <- MCAmounts
  MaxTime = 2
  MaxSetBacks = 0
  ChanCap = 2
  Schedulers = {s1}
  Manager = mgr
  SharedState = TRUE
  DLVFaults = FALSE
SPECIFICATION Spec
INVARIANT NoOverDistribution
