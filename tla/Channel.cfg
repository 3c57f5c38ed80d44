SPECIFICATION Spec
CONSTANTS
  p1 = p1
  p2 = p2
  p3 = p3
  c1 = c1
  c2 = c2
  None = None
  Procs <- ThreeProcs
  Boot = p1
  Channels <- TwoChannels
  Size <- OneBuffered
  MaxSends = 2
INVARIANTS
  ListsMatchTasks
  InOrder
  EachValueOnce
CHECK_DEADLOCK FALSE
