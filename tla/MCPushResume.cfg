SPECIFICATION BufferSpec
CONSTANTS
  PacketSize = 3
  MaxPackets = 5
INVARIANT ResumesWhereItLeftOff
CHECK_DEADLOCK FALSE
