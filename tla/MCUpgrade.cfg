\* A script that follows the log, with and without calls that fail; another
\* host that gives commands one after the other and runs ahead, with FTP
\* failing; and everything but the erase failing, with commands at any time.
CONSTANTS
  MinLength = 2
  Sizes = {2, 5}
  Chunks = {1, 4}
  QueueLen = 1
  Commands = {"transfer", "download", "reboot"}
  MaxCommands = 3
  Garbage = {0, 3}
  FaultSets <- MCFaultSets
  PacketSize = 2
  BlockSize = 2
  LogLimit = 3
SPECIFICATION FairSerialSpec
INVARIANTS
  SerialTypeOK
  PendingIsWhole
  NoFault
  LeadBounded
PROPERTIES
  PendingImageStable
  AnnouncedIsInstalled
  ScriptFinishes
CHECK_DEADLOCK FALSE
