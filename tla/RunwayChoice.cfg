CONSTANTS
  Creators = {c1, c2}
  MaxRunways = 3
  Lanes = 2
  MaxOpens = 5
SPECIFICATION Spec
INVARIANTS
  TypeOK
  ChoosesLastGroup
  Balanced
  ConnsCountsLost
CHECK_DEADLOCK FALSE
