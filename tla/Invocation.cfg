CONSTANTS
  Callers = {c1, c2}
  Paths = {p1, p2}
  Lanes = 1
  MaxCalls <- MCMaxCalls
SPECIFICATION FairSpec
INVARIANTS
  TypeOK
  SucceedIsAnswered
PROPERTIES
  HintUnlessRacing
  AnswerEnds
CHECK_DEADLOCK FALSE
