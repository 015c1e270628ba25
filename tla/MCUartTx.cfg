\* Packets at any time, longer ones than the ring buffer among them.
CONSTANTS
  Capacity = 3
  PacketLengths = {1, 2, 3, 5}
  MaxPackets = 4
SPECIFICATION FairSpec
INVARIANTS
  TypeOK
  RingOrdered
  TokenNotLost
  PacketsIntact
PROPERTIES
  WriterReturns
  AllTransmitted
CHECK_DEADLOCK FALSE
