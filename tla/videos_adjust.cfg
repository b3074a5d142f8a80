\* One job whose real cost is below the estimate, two client polls and the loop.
CONSTANTS
  j1 = j1
  j2 = j2
  Jobs = {j1}
  Clients = {1, 2}
  Loop = 0
  Delta <- MCDeltaLess
  Batch = 1
  MaxCrashes = 0
SPECIFICATION Spec
INVARIANT AdjustedAtMostOnce
CHECK_DEADLOCK FALSE
