SPECIFICATION Spec
CONSTANTS
  Operator = {h1}
  Poller = {}
  Handle = {x1, x2}
  Loop = {l1, l2}
  Port = {p1, p2}
  None = None
INVARIANTS
  ServedWhenOpen
