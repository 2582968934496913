CONSTANTS
  Addr = {a1}
  Client = {k1, k2}
  Conn = {c1}
  MaxReq = 1
  MaxFrames = 1
  NoConn = NoConn
  NoAddr = NoAddr
  NoOne = NoOne
  NoFrame = NoFrame
SPECIFICATION FairPeerSpec
CONSTRAINT OneAnswered
CHECK_DEADLOCK FALSE
PROPERTIES
  ForwardReturns
  CloseEnds
