SPECIFICATION QueueSpec
CONSTANTS
  Futures = {f1, f2, f3}
  Null = Null
  MaxQueueSize = 3
INVARIANTS
  QueueTypeOK
  LiveSlotsAreFutures
  TailFollowsSize
PROPERTY
  ImplementsFifo
