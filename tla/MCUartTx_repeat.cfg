\* A byte is transmitted twice (refuted).
CONSTANTS
  Capacity = 3
  PacketLengths = {1}
  MaxPackets = 3
SPECIFICATION FairSpec
INVARIANT
  SemaphoreOwnsTransmitter
CHECK_DEADLOCK FALSE
