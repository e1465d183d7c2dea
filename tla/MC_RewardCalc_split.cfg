\* Spec P4 over adjacent windows, for every registry of up to two receipts.
CONSTANTS
  Nodes <- MCNodes
  Receipts <- MCReceipts
  Schedules <- MCSchedules
  DefaultSchedule <- MCDefault
  Times <- MCTimes
  MaxReceipts = 2
SPECIFICATION Spec
INVARIANT AdditiveOverSplit
