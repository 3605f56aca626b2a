SPECIFICATION Spec
CONSTANTS
  Slave = {5, 8, 9}
  LastAddr = 9
  Word = {0, 1, 7, 256, 258, 285, 512, 720, 65280}
  Unmapped = Unmapped
  Strict = TRUE
  RelaySlave = 5
  Channels = 2
  CoilStart = 0
  HoldingStart = 1
  CoilOn = 0
  CoilOff = 1
  HoldingOn = 256
  HoldingOff = 512
  LabRanges <- LabRangesDef
  Client = {c1, c2}
  First = c1
  Requests <- NoRequests
  NoCall = NoCall
  NoReply = NoReply
  Asks <- AsksDef
  Elsewhere = {9}
  TxIds = 2
  Foreign <- ForeignDef
INVARIANTS
  TypeOK
  AskedIsUnderstood
  ResultTrue
  ResultFitsRequest
PROPERTIES
  AnswersUnderstood
