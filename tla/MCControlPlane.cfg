SPECIFICATION ControlSpec
CONSTANTS
  Slave = {0, 5, 8}
  LastAddr = 2
  Word = {0, 1, 256, 512}
  Unmapped = Unmapped
  Strict = FALSE
  RelaySlave = 5
  Channels = 2
  CoilStart = 0
  HoldingStart = 1
  CoilOn = 0
  CoilOff = 1
  HoldingOn = 256
  HoldingOff = 512
  LabRanges <- LabRangesDef
  Handler = c1
  SlaveLoop = c2
  Client = {c1, c2}
  Requests <- RequestsDef
  Jobs <- JobsDef
  NoCall = NoCall
  NoReply = NoReply
  NoJob = NoJob
  NoAnswer = NoAnswer
INVARIANTS
  ControlTypeOK
  RelaySync
  BitTables
  WriteShown
  ReadBackSucceeds
  ResetRestores
PROPERTIES
  AckedWriteApplied
