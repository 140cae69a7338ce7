SPECIFICATION FairSpec
CONSTANTS
  n1 = n1
  n2 = n2
  n3 = n3
  n4 = n4
  n5 = n5
  n6 = n6
  a = a
  b = b
  c = c
  d = d
  e = e
  f = f
  g = g
  NULL = NULL
  Nodes <- DeepNodes
  Roots = {n1}
  Kind <- DeepKind
  Fut1 <- DeepFut1
  Fut2 <- DeepFut2
INVARIANTS
  TypeOK
  ThenPassesResult
  ThenVerdict
  JoinVerdict
  JoinSavesReturns
  SelectVerdict
PROPERTIES
  MeetsContract
  RootsEnd
