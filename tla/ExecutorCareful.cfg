SPECIFICATION FairCarefulSpec
CONSTANTS
  a = a
  b = b
  c = c
  p = p
  q = q
  r = r
  None = None
  Futures = {a, b, c}
  Fds = {p, q, r}
  Users <- PrivateUsers
  MaxQueueSize = 1
  MaxEvents = 2
INVARIANT
  NoOrphan
PROPERTIES
  SpawnedIsCompleted
  ImplementsScope
