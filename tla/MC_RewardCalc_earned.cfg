\* Rewards over every window and the stored receipts, for every run of up to two submissions.
CONSTANTS
  Nodes <- MCNodes
  Receipts <- MCTwoClientReceipts
  Schedules <- MCSchedules
  DefaultSchedule <- MCDefault
  Times <- MCTimes
  MaxReceipts = 2
SPECIFICATION Spec
INVARIANT TypeOK
PROPERTY EarnedRewardsNeverShrink
