SPECIFICATION Spec
CONSTANTS
  Settings = {s1, s2, w}
  Pollable = {s1, s2}
  Slots = {1, 2, 3}
  NoSettings = NoSettings
  NoPoll = NoPoll
INVARIANTS
  PollsDoNotOverlap
