SPECIFICATION MCSpec
CONSTANTS
  s1 = s1
  s2 = s2
  MaxK = 1
  Secrets <- OneSecret
  Calls <- MoveAgain
  Parts = {"params"}
INVARIANTS
  SrsMoved
