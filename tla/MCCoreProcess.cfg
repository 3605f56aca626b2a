SPECIFICATION CoreSpec
CONSTANTS
  Conn = {c1, c2}
  Window = 1
  NoConn = NoConn
  This = This
  Other = Other
  Token = {t1, t2, t3}
  Given = Given
  Short = Short
  None = None
INVARIANTS
  CoreTypeOK
  Accounting
  QuietAfterClose
  TokenOnFile
PROPERTIES
  CloseReturns
  ConnectionsTaken
  TokenKept
