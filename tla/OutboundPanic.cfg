CONSTANTS
  Addr = {a1}
  Client = {k1}
  Conn = {c1}
  MaxReq = 1
  MaxFrames = 0
  NoConn = NoConn
  NoAddr = NoAddr
  NoOne = NoOne
  NoFrame = NoFrame
SPECIFICATION Spec
SYMMETRY Symm
CHECK_DEADLOCK FALSE
INVARIANTS
  NoPanic
