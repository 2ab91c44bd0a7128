SPECIFICATION Spec
CONSTANTS
  Server = {1, 2, 3}
  IntRank <- SameOrder
  Discovered <- AnyBoot
  MaxCrashes = 1
CHECK_DEADLOCK FALSE
INVARIANTS TypeOK FollowsOlder TracksCoordinator NoRedundantProbe OneConnection
