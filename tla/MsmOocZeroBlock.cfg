SPECIFICATION FairSpec
CONSTANTS
  N = 2
  Block = 0
  C = 2
  Bits = 3
  Threads = 2
  Modes = {TRUE}
  ScalarSet <- MCScalars
  FileLens = {2}
  Suspects = {}
PROPERTIES Terminates
