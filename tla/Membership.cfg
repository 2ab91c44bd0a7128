SPECIFICATION FairSpec
CONSTANTS
  Machine = {m1, m2}
  Peer = {p1, p2}
  Key = {m1, m2, p1, p2}
  Value = {"open", "ended", "shut", "reset"}
  NoKey = Nobody
  Hash <- Colliding
  Capacity = 4
  MaxBoots = 2
  MaxEvents = 4
CHECK_DEADLOCK FALSE
INVARIANTS TypeOK ServedUntilAnotherLeaves LeadsHome
PROPERTIES ShutIsCleared EntriesSettle
