CONSTANTS
  TenDays = 1
  MonthDays = 2
  FirstDay = 2
  MaxDay = 3
  MaxDays = 2
  MaxStarts = 2
SPECIFICATION Spec
CONSTRAINT Followed
INVARIANTS
  TypeOK
  
PROPERTIES
  RemovedIsOld
  LinesKept
CHECK_DEADLOCK FALSE
