SPECIFICATION FairSpec
CONSTANTS
  s1 = s1
  s2 = s2
  None = None
  Slaves <- TwoSlaves
  Reqs = {1}
  Flushes = {11, 12}
  Blocking = {}
  MayHangUp = FALSE
PROPERTY FlushAnswered
CHECK_DEADLOCK FALSE
