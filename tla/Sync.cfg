SPECIFICATION FairSpec
CONSTANTS
  Name = {1, 2}
  Content <- Bytes
  Absent = Absent
  Checksum <- Sums
  Prefix <- Starts
  Earlier <- Initially
  MaxEvents = 2
  MaxElections = 1
  Rejoins = FALSE
CHECK_DEADLOCK FALSE
INVARIANTS TypeOK StartupMirrors StartupInStep ReplicaAgrees ReplicaInStep
PROPERTIES StartupEnds SyncEnds
