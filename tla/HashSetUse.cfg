SPECIFICATION UseSpec
CONSTANTS
  Key = {1, 2, 3, 4, 5}
  Value = {10, 20}
  NoKey = 0
  Hash <- Colliding
  Capacity = 8
  Usage = "drain"
CONSTRAINT OneUpdated
CHECK_DEADLOCK FALSE
INVARIANTS TypeOK VisitsPresentOnce LengthCountsLive Sane
PROPERTIES AnswersRight IsDictionary
