SPECIFICATION LateWakeSpec
CONSTANTS
  a = a
  b = b
  c = c
  p = p
  q = q
  r = r
  None = None
  Futures = {a, b}
  Fds = {p, r}
  Users <- PrivateUsers
  MaxQueueSize = 3
  MaxEvents = 2
INVARIANT
  NoProgressAfterFinish
