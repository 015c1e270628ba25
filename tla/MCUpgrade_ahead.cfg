\* The script sends before the packet before was confirmed (refuted).
CONSTANTS
  MinLength = 2
  Sizes = {7}
  Chunks = {1}
  QueueLen = 4
  Commands = {"transfer"}
  MaxCommands = 1
  Garbage = {}
  FaultSets <- NoFaults
  PacketSize = 3
  BlockSize = 3
  LogLimit = 4
SPECIFICATION SerialSpec
INVARIANT
  ConfirmsEach
CHECK_DEADLOCK FALSE
