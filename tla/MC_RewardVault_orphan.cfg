\* create_vault succeeds and create_vault_post fails.
CONSTANTS
  VaultIds = {v1, v2}
  Nodes = {n1, n2}
  n1 = n1
  n2 = n2
  RecipientChoices <- MCRecipients
  Amounts <- MCAmounts
  MaxTime = 2
  MaxSetBacks = 0
  ChanCap = 2
  Schedulers = {s1}
  Manager = mgr
  SharedState = TRUE
  DLVFaults = TRUE
SPECIFICATION Spec
INVARIANT NoOrphanVault
