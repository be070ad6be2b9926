CONSTANTS
  Clients = {c1, c2}
  Listener = listener
  MaxMsgs = 2
  MaxFails = 1
SPECIFICATION FairSpec
INVARIANTS
  TypeOK
  BacklogLaw
  ActiveLaw
  StaleOnlyThroughOthers
PROPERTY EndedIsClosed
CHECK_DEADLOCK FALSE
