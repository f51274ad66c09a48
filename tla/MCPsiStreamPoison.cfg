SPECIFICATION StreamSpec
CONSTANTS
  Sections = 3
  MaxLen = 5
  PacketSize = 4
  NoVersion = 0
  Broadcasts <- LossyBroadcasts
  Byte <- Tokens
  Stuffing <- StuffingToken
  SectionLength <- TokenSectionLength
  SyntaxFits <- TokenSyntaxFits
  SectionLimit = 9
  MinLength = 1
  Payloads = {}
INVARIANTS SuppressedWereParsed
CHECK_DEADLOCK FALSE
