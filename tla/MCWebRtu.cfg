SPECIFICATION WebSpec
CONSTANTS
  Settings = {r1, r2, off}
  Pollable = {r1, r2}
  Off = off
  Slots = {1, 2}
  Hand = hand
  NoSettings = NoSettings
  NoPoll = NoPoll
  MaxStray = 1
INVARIANTS
  WebTypeOK
  OffMeansClosed
PROPERTIES
  OldPollsSilent
  PollingStops
  InStep
