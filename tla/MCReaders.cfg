SPECIFICATION ReaderSpec
CONSTANTS
  AFWritings <- AdaptationWritings
  PesWritings <- PesHeaderWritings
  PrivateLengths = {0, 2}
  Paddings = {0, 1}
  Lengths = {0, 1, 3, 14, 20, 200}
  Tables <- AllTables
  FalseLengths = {0, 1, 3, 6, 200}
  SectionLengths <- LengthsOfSections
  InfoLengths = {0, 1, 3, 9, 1000, 4095}
  MAX = 15
INVARIANTS
  PacketIsDivided
  FieldsReadBack NeverPanics CutIsNoticed MarkersAreLocal EachByteReadOnce
  EntriesListed IterationEnds AccessorsInBounds
  NumbersReadBack
  RefusedOrHandedOn OnlyTheTableIsRead
  WrapIsSeen
CHECK_DEADLOCK FALSE
