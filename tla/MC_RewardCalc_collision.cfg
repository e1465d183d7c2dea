\* Ids of different lengths: node_id || client_id is ambiguous.
CONSTANTS
  Nodes <- MCSplitIdNodes
  Receipts <- MCSplitIdReceipts
  Schedules <- MCSchedules
  DefaultSchedule <- MCDefault
  Times <- MCTimes
  MaxReceipts = 2
SPECIFICATION Spec
INVARIANT HashIdentifiesReceipt
