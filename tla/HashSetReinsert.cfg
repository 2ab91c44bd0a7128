SPECIFICATION UseSpec
CONSTANTS
  Key = {1, 2, 3, 4, 5}
  Value = {10}
  NoKey = 0
  Hash <- Colliding
  Capacity = 8
  Usage = "any"
CHECK_DEADLOCK FALSE
PROPERTIES FreshInsertSucceeds
