SPECIFICATION FairSpec
CONSTANTS
  r1 = r1
  r2 = r2
  w1 = w1
  None = None
  Readers <- TwoReaders
  Writers <- OneWriter
  Limit = 2
  Maxatomic = 2
  WriteSizes = {3}
  ReadSizes = {1}
  MaxBytes = 6
  MaxOpens = 1
  MaxInterrupts = 1
INVARIANTS
  QueueExact
  FlowBound
  EofMeansAll
PROPERTIES
  RefinesStream
  SleepersWake
CHECK_DEADLOCK FALSE
