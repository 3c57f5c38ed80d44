SPECIFICATION Spec
CONSTANTS
  p1 = p1
  p2 = p2
  p3 = p3
  a = a
  b = b
  x = x
  y = y
  None = None
  Procs <- Three
  Points <- Ends
  Dirs <- Others
  Ops <- Calls
  Union = a
  First = x
  MaxOps = 3
  Heads <- Heads5
INVARIANT
  WalkHasItsUnion
SYMMETRY Alike
