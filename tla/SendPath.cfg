CONSTANTS
  Senders = {s1, s2}
  Runway = r
  Lengths = {1, 3}
  SndBuf = 2
  MaxPushes = 3
SPECIFICATION TwoWaySpec
INVARIANTS
  TypeOK
  WireInOrder
  WritableIsDrained
PROPERTY PushedIsSent
CHECK_DEADLOCK FALSE
