SPECIFICATION Spec
CONSTANTS
  SizeMax = 255
  Chunk = 32
  Half = 16
  Unit <- MCUnit
  NUL = "NUL"
  Junk = "junk"
  Numeral <- MCNumeral
  Texts <- MCTexts
  Lengths <- MCLengths
  MaxCalls = 2
  AllocMayFail = TRUE
  ReadSize = 40
  MaxItems = 2
  Value <- MCValue
  Packet <- MCPacket
  Cases <- MCCases
INVARIANTS
  Terminated
  CleanReplyIsRead
  BrokenReplyIsRefused
  DamageStaysInItsRow
  MappingIsUnambiguous
PROPERTIES
  TextIsKept
  RefusedNearTheLimit
