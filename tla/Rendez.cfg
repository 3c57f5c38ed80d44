SPECIFICATION FairSpec
CONSTANTS
  s1 = s1
  s2 = s2
  w1 = w1
  i1 = i1
  i2 = i2
  r1 = r1
  None = None
  Sleepers <- MCSleepers
  Wakers <- MCWakers
  Interrupters <- OneInterrupter
  Rendezvous <- MCRendezvous
INVARIANTS
  SleepersRegistered
  OnePostPerSleep
PROPERTIES
  SleepersReturn
