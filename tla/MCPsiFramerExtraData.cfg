SPECIFICATION Spec
CONSTANTS
  MaxByte = 2
  MaxPayload = 4
  Byte <- Bytes
  Stuffing <- LastByte
  SectionLength <- ThirdByte
  SyntaxFits <- SecondByteSet
  SectionLimit = 1
  MinLength = 1
  Payloads <- ShortPayloads
PROPERTY ExtraDataMeansMissing
