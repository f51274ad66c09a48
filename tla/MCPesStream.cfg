SPECIFICATION StreamSpec
CONSTANTS
  CCMod = 3
  None = None
  Packets <- ConformingPackets
  MaxPackets = 6
  MaxBurst = 2
INVARIANTS HeldIsPrefix EndedAreWhole UnhurtAreDelivered
PROPERTIES NoPieceTwice DataWithinPacket
