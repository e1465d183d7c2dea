\* Shared queue, the wall clock may step back once between tick and processing.
CONSTANTS
  VaultIds = {v1, v2}
  Nodes = {n1, n2}
  n1 = n1
  n2 = n2
  RecipientChoices <- MCRecipients
  Amounts <- MCAmounts
  MaxTime = 2
  MaxSetBacks = 1
  ChanCap = 2
  Schedulers = {s1}
  Manager = mgr
  SharedState = TRUE
  DLVFaults = FALSE
SPECIFICATION Spec
INVARIANT NotYetStaysQueued
