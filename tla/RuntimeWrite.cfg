SPECIFICATION Spec
CONSTANTS
  n1 = n1
  n2 = n2
  n3 = n3
  n4 = n4
  n5 = n5
  a = a
  b = b
  c = c
  d = d
  e = e
  f = f
  g = g
  p = p
  q = q
  r = r
  u = u
  v = v
  w = w
  NULL = NULL
  None = None
  Nodes = {n1, a, c}
  Roots = {n1}
  RootOf <- ChainRootOf
  Kind <- ChainKind
  Op <- ChainOp
  Fd <- ChainFd
  Size <- ChainSize
  Source <- ChainSource
  Fut1 <- ChainFut1
  Fut2 <- ChainFut2
  CString = {}
  Func <- Capitalize
  Given <- ChainGiven
  Capacity <- ChainCapacity
  Nonblocking = {p, w}
  MaxQueueSize = 1
  MaxEvents = 2
INVARIANTS
  NoWriterSleeps
