\* The distribution pipeline with the task sharing the manager's queue and
\* registry, two tasks, DLV faults and one clock set-back.
CONSTANTS
  VaultIds = {v1, v2}
  Nodes = {n1, n2}
  n1 = n1
  n2 = n2
  RecipientChoices <- MCRecipients
  Amounts <- MCAmounts
  MaxTime = 2
  MaxSetBacks = 1
  ChanCap = 2
  Schedulers = {s1, s2}
  Manager = mgr
  SharedState = TRUE
  DLVFaults = TRUE
SPECIFICATION Spec
INVARIANT TypeOK
INVARIANT RequestConservation
INVARIANT ClaimRecorded
INVARIANT DistributionWithinTolerance
PROPERTY EveryVaultResolved
PROPERTY RefinesDistributionAbstract
