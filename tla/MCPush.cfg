SPECIFICATION BufferSpec
CONSTANTS
  PacketSize = 3
  MaxPackets = 5
INVARIANTS LossIsLocal HandledInOrder
CHECK_DEADLOCK FALSE
