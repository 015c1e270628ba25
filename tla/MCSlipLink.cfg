\* Packets on a good line, and any bytes at all once it has had an error.
CONSTANTS
  END = END
  ESC = ESC
  ESC_END = ESC_END
  ESC_ESC = ESC_ESC
  ZERO = ZERO
  DOWNLOAD = DOWNLOAD
  TRANSFER = TRANSFER
  UPLOAD = UPLOAD
  REBOOT = REBOOT
  Data = {UPLOAD, TRANSFER, DOWNLOAD}
  LenMod = 2
  BufferLen = 4
  Packets <- MCPackets
  MaxInFlight = 2
SPECIFICATION Spec
INVARIANTS
  TypeOK
  DispatchSeesPacketOnly
  DispatchTerminated
  UploadsArgument
PROPERTY
  ImplementsChannel
