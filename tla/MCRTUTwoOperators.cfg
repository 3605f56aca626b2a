SPECIFICATION Spec
CONSTANTS
  Operator = {h1, h2}
  Poller = {}
  Handle = {x1, x2, x3, x4, x5, x6}
  Loop = {l1, l2, l3}
  Port = {p1, p2}
  None = None
SYMMETRY Symmetry
INVARIANTS
  HandlesAccounted
  WaitGroupExact
  QuietWhenClosed
