SPECIFICATION Spec
CONSTANTS
  n1 = n1
  n2 = n2
  n3 = n3
  n4 = n4
  n5 = n5
  a = a
  b = b
  c = c
  d = d
  e = e
  f = f
  g = g
  p = p
  q = q
  r = r
  u = u
  v = v
  w = w
  NULL = NULL
  None = None
  Nodes = {a, d}
  Roots = {a, d}
  RootOf <- LoneRootOf
  Kind <- LoneKind
  Op <- LoneOp
  Fd <- LoneFd
  Size <- LoneSize
  Source <- LoneSource
  Fut1 <- LoneFut
  Fut2 <- LoneFut
  CString = {}
  Func <- Capitalize
  Given <- LoneGiven
  Capacity <- LoneCapacity
  Nonblocking = {}
  MaxQueueSize = 2
  MaxEvents = 2
INVARIANTS
  WaitsInPollOnly
