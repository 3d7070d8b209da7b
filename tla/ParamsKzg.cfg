SPECIFICATION MCSpec
CONSTANTS
  s1 = s1
  s2 = s2
  MaxK = 1
  Secrets <- TwoSecrets
  Calls = {}
  Parts = {"params", "keys"}
INVARIANTS
  TypeOK
  BasesKept
  CommitmentsRight
  FilesReadBack
