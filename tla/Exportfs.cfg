SPECIFICATION FairSpec
CONSTANTS
  s1 = s1
  s2 = s2
  None = None
  Slaves <- TwoSlaves
  Reqs = {1, 2, 3}
  Flushes = {11, 12}
  Blocking = {1}
  MayHangUp = TRUE
INVARIANTS
  ReferencesExact
  AnswersAsPromised
  InterruptHitsItsRequest
PROPERTIES
  
  ExportFreed
CHECK_DEADLOCK FALSE
