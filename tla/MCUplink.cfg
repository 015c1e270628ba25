\* Messages at any time, some while the queue is full; failures, partial sends.
CONSTANTS
  Addrs = {a1, a2, a3}
  NULL = NULL
  QueueLen = 2
  Lengths = {0, 2}
  MaxMessages = 3
  MaxFailures = 4
  MaxPartials = 1
SPECIFICATION FairSpec
INVARIANTS
  TypeOK
  HeapAccounted
  NewestKept
  SendsOldest
  NothingLost
  WireOrdered
PROPERTY
  QueueDrains
CHECK_DEADLOCK FALSE
