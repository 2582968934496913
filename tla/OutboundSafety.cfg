CONSTANTS
  Addr = {a1, a2}
  Client = {k1, k2}
  Conn = {c1, c2}
  MaxReq = 2
  MaxFrames = 2
  NoConn = NoConn
  NoAddr = NoAddr
  NoOne = NoOne
  NoFrame = NoFrame
SPECIFICATION Spec
SYMMETRY Symm
CONSTRAINT Small
CHECK_DEADLOCK FALSE
INVARIANTS
  PoolSafe
  AnswersItsClient
  IInv
PROPERTIES
  ImplementsExchange
