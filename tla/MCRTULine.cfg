SPECIFICATION Spec
CONSTANTS
  Slave = {5, 8}
  LastAddr = 2
  Word = {0, 1, 7, 256, 258, 512}
  Unmapped = Unmapped
  Strict = TRUE
  RelaySlave = 5
  Channels = 2
  CoilStart = 0
  HoldingStart = 1
  CoilOn = 0
  CoilOff = 1
  HoldingOn = 256
  HoldingOff = 512
  LabRanges <- LabRangesDef
  Client = {c1}
  Requests <- NoRequests
  NoCall = NoCall
  NoReply = NoReply
  Lines <- LinesDef
INVARIANTS
  TypeOK
  InStep
PROPERTIES
  OnlySentFramesServed
  QuietAnswers
