\* The task as start_distribution_processor spawns it: its own fresh queue.
CONSTANTS
  VaultIds = {v1, v2}
  Nodes = {n1, n2}
  n1 = n1
  n2 = n2
  RecipientChoices <- MCRecipients
  Amounts <- MCAmounts
  MaxTime = 2
  MaxSetBacks = 0
  ChanCap = 2
  Schedulers = {s1}
  Manager = mgr
  SharedState = FALSE
  DLVFaults = FALSE
SPECIFICATION Spec
PROPERTY EveryVaultResolved
