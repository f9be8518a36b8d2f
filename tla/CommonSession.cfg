CONSTANTS
  ByteBits = 3
  RC5Rounds = 2
  RC6Rounds = 2
  Keys = {0, 2741}
  SessionBits = 3
  SizeBits = 5
  CryptBits = 3
  MissionBits = 1
  OrderBits = 4
  ExtraBits = 3
  OptionBits = 3
  BufferSize = 5
  SendBuffer = 22
  ListSize = 24
  MaxSent = 2
  Requests <- MCRequests
SPECIFICATION Spec
INVARIANTS
  TypeOK
  ReceivedAsSent
  ClientUnderstands
CHECK_DEADLOCK FALSE
