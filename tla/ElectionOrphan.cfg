SPECIFICATION Spec
CONSTANTS
  Server = {1, 2, 3}
  IntRank <- ReversedOrder
  Discovered <- BootOrder
  MaxCrashes = 1
CHECK_DEADLOCK FALSE
INVARIANTS RunningElectionHasCoroutine
