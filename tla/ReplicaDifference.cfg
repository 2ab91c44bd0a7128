SPECIFICATION Spec
CONSTANTS
  Name = {1, 2}
  Content <- Bytes
  Absent = Absent
  Checksum <- Sums
  Prefix <- Starts
  Earlier <- Bytes
  MaxEvents = 1
  MaxElections = 0
  Rejoins = TRUE
CHECK_DEADLOCK FALSE
PROPERTIES ReplicaDifference
