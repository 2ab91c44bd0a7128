SPECIFICATION FairSpec
CONSTANTS
  Server = {1, 2}
  Client = {11}
  Nobody = Nobody
  NoAnswer = NoAnswer
  Rank <- SameOrder
  MaxLost = 0
  MaxCrashes = 1
CHECK_DEADLOCK FALSE
PROPERTIES WinnerIsNamed
