SPECIFICATION FairSpec
CONSTANTS
  n1 = n1
  n2 = n2
  n3 = n3
  n4 = n4
  n5 = n5
  a = a
  b = b
  c = c
  d = d
  e = e
  f = f
  g = g
  p = p
  q = q
  r = r
  u = u
  v = v
  w = w
  NULL = NULL
  None = None
  Nodes <- MixedNodes
  Roots <- MixedRoots
  RootOf <- MixedRootOf
  Kind <- MixedKind
  Op <- MixedOp
  Fd <- MixedFd
  Size <- MixedSize
  Source <- MixedSource
  Fut1 <- MixedFut1
  Fut2 <- MixedFut2
  CString = {c}
  Func <- Capitalize
  Given <- MixedGiven
  Capacity <- MixedCapacity
  Nonblocking = {p, q, r, u, v, w}
  MaxQueueSize = 2
  MaxEvents = 2
INVARIANTS
  TypeOK
  ReadGetsTheBytes
  WritePutsTheText
  NoReaderSleeps
  NoStaleRegistration
PROPERTIES
  ImplementsExecutor
  ImplementsCombinators
  AllAreCompleted
