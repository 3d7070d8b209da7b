SPECIFICATION BothSpec
CONSTANTS
  p1 = p1
  p2 = p2
  d1 = d1
  d2 = d2
  Provers = {p1}
  Dirs = {d1}
  DirOf <- OwnDirs
  Instances = 1
  NAdv = 1
  NIns = 1
  NShp = 1
  NLk = 1
  NPpc = 1
  Size = 3
  Tile = 2
  MaxRuns = 2
  Leftovers <- MCLeftovers
INVARIANTS TypeOK ScratchIntact SweptClean
PROPERTIES ImplementsQuotient SharedSettles
