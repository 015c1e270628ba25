\* Deletes a message that was not sent (refuted).
CONSTANTS
  Addrs = {a1, a2}
  NULL = NULL
  QueueLen = 1
  Lengths = {1}
  MaxMessages = 2
  MaxFailures = 0
  MaxPartials = 0
SPECIFICATION Spec
INVARIANT
  DeletesWhatItSent
CHECK_DEADLOCK FALSE
