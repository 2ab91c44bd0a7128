SPECIFICATION FairSpec
CONSTANTS
  Client = {"a", "b"}
  Value = {1, 2, 3}
  Empty = Empty
  Absent = Absent
  Short = Short
  Checksum <- Sums
  MaxEdits = 3
CHECK_DEADLOCK FALSE
INVARIANTS TypeOK AgreeWhenIdle OnlyDeletesBlock
PROPERTIES EditSpreads
