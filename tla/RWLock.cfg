SPECIFICATION FairSpec
CONSTANTS
  p1 = p1
  p2 = p2
  p3 = p3
  Procs <- MCProcs
  NoProc = NoProc
INVARIANTS
  LocksMatchReaders
  WriterExcludes
PROPERTIES
  EveryoneGetsIn
