SPECIFICATION FairSpec
CONSTANTS
  p1 = p1
  p2 = p2
  p3 = p3
  None = None
  Procs <- ThreeProcs
  Tags = {1, 2, 3, 4, 5}
  MaxFree = 1
  Work <- OneEach
  Blocking = {3}
  Victims <- Third
  MaxInterrupts = 2
INVARIANTS
  HeadersInPlace
  RightAnswer
  TagsNotReused
PROPERTIES
  AnswerKept
  EveryCallReturns
CHECK_DEADLOCK FALSE
