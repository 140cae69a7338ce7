SPECIFICATION EndlessWorkSpec
CONSTANTS
  a = a
  b = b
  c = c
  p = p
  q = q
  r = r
  None = None
  Futures = {a, b, c}
  Fds = {p, q, r}
  Users <- PrivateUsers
  MaxQueueSize = 3
  MaxEvents = 2
INVARIANTS
  TypeOK
  ActiveCount
  NoProgressAfterFinish
  NoOrphan
  RegisteredWakerIsKept
PROPERTIES
  ReturnsWhenAllAreDone
  QueuedGetsATurn
