SPECIFICATION FairSpec
CONSTANTS
  N = 3
  Block = 2
  C = 2
  Bits = 3
  Threads = 2
  Modes = {TRUE, FALSE}
  ScalarSet <- MCScalars
  FileLens = {2, 3, 4}
  Suspects = {1, 2}
INVARIANTS TypeOK ScatterExact PartialSums
PROPERTIES ImplementsMsm Terminates
