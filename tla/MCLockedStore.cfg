SPECIFICATION Spec
CONSTANTS
  Slave = {5}
  LastAddr = 1
  Word = {0, 1, 256, 512}
  Unmapped = Unmapped
  Strict = TRUE
  RelaySlave = 5
  Channels = 2
  CoilStart = 0
  HoldingStart = 0
  CoilOn = 0
  CoilOff = 1
  HoldingOn = 256
  HoldingOff = 512
  LabRanges <- NoRanges
  Client = {c1, c2, c3}
  Requests <- RequestsDef
  NoCall = NoCall
  NoReply = NoReply
INVARIANTS
  TypeOK
  Exclusive
PROPERTIES
  EveryCallReturns
  Linearizable
