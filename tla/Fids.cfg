SPECIFICATION Spec
CONSTANTS
  f1 = f1
  f2 = f2
  f3 = f3
  s1 = s1
  s2 = s2
  None = None
  Fid <- Fids3
  Slaves <- Slaves2
  File <- Files
  Root <- FileA
  MountPoint <- FileB
  MountedOn <- FileC
  MaxGen = 4
  Chans = {1, 2, 3, 4, 5}
  MaxNames = 1
  MaxReqs = 4
  MaxFails = 1
INVARIANTS
  ReferencesCounted
  QidsTellFilesApart
  ClientFidsServed
  NothingKept
SYMMETRY Alike
