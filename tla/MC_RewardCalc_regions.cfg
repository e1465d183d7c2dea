\* Receipts with two regions: the node's HashSet may iterate them out of sorted order.
CONSTANTS
  Nodes <- MCNodes
  Receipts <- MCTwoRegionReceipts
  Schedules <- MCSchedules
  DefaultSchedule <- MCDefault
  Times <- MCTimes
  MaxReceipts = 2
SPECIFICATION Spec
INVARIANT CanonicalReceiptAccepted
