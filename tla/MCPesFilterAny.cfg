SPECIFICATION Spec
CONSTANTS
  CCMod = 16
  None = None
  Packets <- AnyPackets
INVARIANTS TypeOK OpenIsTracked
PROPERTY StartsInOrder
