SPECIFICATION Spec
CONSTANTS
  a = a
  b = b
  c = c
  p = p
  q = q
  r = r
  None = None
  Futures = {a, b}
  Fds = {p}
  Users <- SharedUsers
  MaxQueueSize = 2
  MaxEvents = 2
INVARIANT
  RegisteredWakerIsKept
