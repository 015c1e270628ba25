\* Hang-ups, losses of LTE and failing calls; fewer sockets than are asked for.
CONSTANTS
  Peers = {p1, p2, p3}
  MaxSockets = 3
  MaxHangups = 2
  MaxFails = 3
SPECIFICATION FairSpec
INVARIANTS
  TypeOK
  SocketsAccounted
  OneRoundPerHangup
PROPERTIES
  WaitEnds
  ClientReconnects
  PeerAccepted
CHECK_DEADLOCK FALSE
