SPECIFICATION Spec
CONSTANTS
  Server = {1, 2, 3}
  IntRank <- SameOrder
  Discovered <- BootOrder
  MaxCrashes = 1
CHECK_DEADLOCK FALSE
PROPERTIES NewerAreNotified
