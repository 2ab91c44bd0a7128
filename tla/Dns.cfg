SPECIFICATION FairSpec
CONSTANTS
  Server = {1, 2}
  Client = {11, 12}
  Nobody = Nobody
  NoAnswer = NoAnswer
  Rank <- SameOrder
  MaxLost = 1
  MaxCrashes = 1
CHECK_DEADLOCK FALSE
PROPERTIES RequestsAnswered AnswersMainServer
INVARIANTS TypeOK OneAnswer OldestIsMain NamedIsNotOlder
