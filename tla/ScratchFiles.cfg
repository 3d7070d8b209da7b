SPECIFICATION MCSpec
CONSTANTS
  Base = 4
  Extension = 2
  P = 73
  Omega = 10
  Zeta = 8
  ThreadCounts = {1, 3}
  PerThread = 1
  t1 = t1
  d1 = d1
  Callers = {t1}
  DirOf <- MCDirOf
  LogN = 3
  LogCoeffs = 1
  Kinds = {"fft", "extend"}
  Blocks = {3, 8}
  Batches = {2, 4}
  MaxCalls = 2
CHECK_DEADLOCK FALSE
INVARIANTS
  BothTyped
  TransformExact
  SharedWorkExact
  VerdictRight
PROPERTIES
  BothReturn
