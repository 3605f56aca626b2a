SPECIFICATION Spec
CONSTANTS
  Operator = {h1}
  Poller = {h2}
  Handle = {x1, x2, x3}
  Loop = {l1, l2}
  Port = {p1, p2}
  None = None
INVARIANTS
  TypeOK
  OneServer
  MasterSlaveExclusive
PROPERTIES
  HandlersReturn
