SPECIFICATION FairSpec
CONSTANTS
  Circuits <- MCCircuits
  Schemes = {"shplonk", "gwc"}
  RowCounts = {8, 16}
  InstanceSets <- MCInstanceSets
  MaxAttempts = 3
CHECK_DEADLOCK FALSE
INVARIANTS
  TypeOK
  SlotsAgree
  ChallengesFollowTheirPhase
  ProvedMeansCommitted
  OpeningFailsOnlyOnWrap
PROPERTIES
  ImplementsProofSession
  Settles
