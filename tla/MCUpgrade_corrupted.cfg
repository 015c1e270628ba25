\* A corrupted file is used all the same (refuted).
CONSTANTS
  MinLength = 2
  Sizes = {3, 4}
  Chunks = {1, 2}
  QueueLen = 2
  Commands = {"download"}
  MaxCommands = 1
  Garbage = {}
  FaultSets <- Mismatch
  PacketSize = 2
  BlockSize = 2
  LogLimit = 3
SPECIFICATION SerialSpec
INVARIANT
  CorruptedIsDropped
CHECK_DEADLOCK FALSE
