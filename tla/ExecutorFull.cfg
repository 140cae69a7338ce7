SPECIFICATION FairSpec
CONSTANTS
  a = a
  b = b
  c = c
  p = p
  q = q
  r = r
  None = None
  Futures = {a, b}
  Fds = {p, r}
  Users <- PrivateUsers
  MaxQueueSize = 1
  MaxEvents = 2
PROPERTY
  SpawnedIsCompleted
