CONSTANTS
  Dids = {d1, d2}
  NoDid = none
  MapSize = 2
  Split = 2
  FilterCondon = 2
  Int32Max = 3
  MaxMsgs = 6
SPECIFICATION BatchesSpec
INVARIANTS
  BatchesTypeOK
  EachRecordOnce
  RowsAddUp
CHECK_DEADLOCK FALSE
SYMMETRY DidSymmetry
