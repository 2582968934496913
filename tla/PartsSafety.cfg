SPECIFICATION Spec
CONSTANTS
  PartNames = {"lifecycle", "supervisor", "cbc", "hotreload", "parse", "framing",
               "padding", "session"}
  Conn = {x1, x2, x3}
  N = 3
  MaxStarts = 2
  CbcFrames = 3
  PacketN = 3
  Client = {k1, k2}
  MaxPicks = 4
  Writer = {g1, g2}
  NoOne = NoOne
  Embedded = TRUE
  s1 = s1
  s2 = s2
  Foreign = Foreign
  Secrets <- TwoSecrets
  Packets <- Edge
  MaxPackets = 2
  RespLen = {0, 4}
  DC = {2, 4, 5}
  Host = {"a", "b"}
  Files <- SomeFiles
  MaxEdits = 3
SYMMETRY Symm
CHECK_DEADLOCK FALSE
INVARIANTS
  OpenIsReachable NoWorkerLeft StreamSound RoutesSound ReadAsWritten SessionsSound
  CountersAddUp
PROPERTIES
  QuietDrain NoOrphan NeverOlder
