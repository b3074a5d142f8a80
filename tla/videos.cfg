\* Two jobs, one client poll and the loop, which takes both rows of a tick in
\* turn; the process may die once.
CONSTANTS
  j1 = j1
  j2 = j2
  Jobs = {j1, j2}
  Clients = {1}
  Loop = 0
  Delta <- MCDelta
  Batch = 2
  MaxCrashes = 1
SPECIFICATION FairSpec
INVARIANTS TypeOK RefundedAtMostOnce FailedIsRefunded SuccessIsPaidFor
PROPERTY EveryJobEnds
CHECK_DEADLOCK FALSE
