SPECIFICATION FairSpec
CONSTANTS
  p1 = p1
  p2 = p2
  d1 = d1
  d2 = d2
  Provers = {p1, p2}
  Dirs = {d1}
  DirOf <- SameDir
  Instances = 1
  NAdv = 1
  NIns = 0
  NShp = 0
  NLk = 0
  NPpc = 0
  Size = 2
  Tile = 2
  MaxRuns = 1
  Leftovers = {}
INVARIANTS QuotientExact
