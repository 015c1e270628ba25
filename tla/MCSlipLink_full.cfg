\* A full buffer stays full (refuted).
CONSTANTS
  END = END
  ESC = ESC
  ESC_END = ESC_END
  ESC_ESC = ESC_ESC
  ZERO = ZERO
  DOWNLOAD = DOWNLOAD
  TRANSFER = TRANSFER
  UPLOAD = UPLOAD
  REBOOT = REBOOT
  Data = {UPLOAD, TRANSFER, DOWNLOAD}
  LenMod = 2
  BufferLen = 4
  Packets <- MCPackets
  MaxInFlight = 0
SPECIFICATION Spec
PROPERTY
  FullIsLeft
