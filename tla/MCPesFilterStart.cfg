SPECIFICATION Spec
CONSTANTS
  CCMod = 16
  None = None
  Packets <- ConformingPackets
PROPERTY StartStreamBeforeBegin
