CONSTANTS
  Pushers = {p1, p2, p3}
  Consumer = c
  MaxPushes = 5
SPECIFICATION Spec
INVARIANTS
  TypeOK
  PointersAlive
  PopsWhatFrontReturned
  EmptyIsTrue
PROPERTY FirstInFirstOut
CHECK_DEADLOCK FALSE
