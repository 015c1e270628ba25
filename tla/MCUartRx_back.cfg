\* Reception that is off comes back (refuted).
CONSTANTS
  Blocks = {b1, b2, b3}
  NULL = NULL
  BufSize = 2
  QueueLen = 2
  MaxBytes = 1
  MaxLineErrors = 2
  MaxEnableErrors = 0
SPECIFICATION FairSpec
PROPERTY
  RxComesBack
CHECK_DEADLOCK FALSE
