SPECIFICATION MCSpec
CONSTANTS
  NAdvice = 2
  NFixed = 3
  NSelectors = 3
  N = 7
  UsableRows = 6
  Equality = {0, 1, 2, 3}
  Cells <- MCCells
  ConstantColumns <- MCConstantColumns
  MaxDegree = 4
  Circuits <- MCCircuits
  F <- MCField
  Zero = 0
  One = 1
  Two = 2
  Plus <- MCPlus
  Times <- MCTimes
  Neg <- MCNeg
  Size = 2
  RotScale = 1
  Columns <- MCColumns
  ColumnValues <- MCColumnValues
  Rotations = {1}
  Scalars = {0, 1, 2}
  Challenges <- MCChallenges
  Beta = 2
  Gamma = 3
  Theta = 4
  Y = 3
  Previous <- MCPrevious
  Uses = {"gates", "lookup", "shuffle"}
  MaxLeaves = 3
  MaxNegations = 1
  Scripts <- MCScripts
  CellValue <- MCCellValue
  Modulus = 11
  MockScripts <- MCMockScripts
  ChallengeOf <- MCChallengeOf
  Blindings = {0, 1, 2}
  BlindValue <- MCBlindValue
  AirModulus = 11
  AirJobs <- MCAirJobs
  Blinder <- MCBlinder
CHECK_DEADLOCK FALSE
INVARIANTS
  AllTyped
  WellPlaced
  CircuitKept
  GraphExact
  BackendAgrees
  AssignedExact
  MockFaithful
  AirKept
