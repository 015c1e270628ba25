\* Three blocks of two bytes, two queued events, line and enable errors.
CONSTANTS
  Blocks = {b1, b2, b3}
  NULL = NULL
  BufSize = 2
  QueueLen = 2
  MaxBytes = 5
  MaxLineErrors = 2
  MaxEnableErrors = 1
SPECIFICATION FairSpec
INVARIANTS
  TypeOK
  RefCountAccounted
  SlabAccounted
  UnreadIntact
  NoStrandedEvent
  RecoveryArmed
  EnableOnlyWhenOff
PROPERTIES
  ImplementsReception
  RecoveryCompletes
CHECK_DEADLOCK FALSE
