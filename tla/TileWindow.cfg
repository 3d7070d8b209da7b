SPECIFICATION MCSpec
CONSTANTS
  Size = 16
  RotScale = 2
  Tile = 5
  MaxRotation = 4
  Circuits <- MCCircuits
  FileLens = {0, 3, 9, 15, 16, 17}
  P = 193
  S = 6
  RootOfUnity = 125
  Zeta = 108
  Delta = 84
  K = 4
  Statements <- MCStatements
  ChallengeSets <- MCChallenges
  Randoms <- MCRandoms
  Jobs <- MCJobs
  Draws <- MCDraws
  Threads = 3
  TileRows = 24
  Points = {5, 6, 7, 8, 10, 77, 101}
INVARIANTS TypeOK RotatedAccess AcceptedIffSatisfied TwinExact OpenedIffTrue
PROPERTIES TilesTerminate
