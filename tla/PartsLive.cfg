SPECIFICATION FairSpec
CONSTANTS
  PartNames = {"lifecycle", "supervisor", "cbc", "hotreload", "framing"}
  Conn = {x1, x2}
  N = 2
  MaxStarts = 3
  CbcFrames = 2
  PacketN = 2
  Client = {k1}
  MaxPicks = 0
  Writer = {g1, g2}
  NoOne = NoOne
  Embedded = TRUE
  s1 = s1
  s2 = s2
  Foreign = Foreign
  Secrets <- TwoSecrets
  Packets <- Edge
  MaxPackets = 2
  RespLen = {0, 4}
  DC = {2, 4, 5}
  Host = {"a", "b"}
  Files <- SomeFiles
  MaxEdits = 3
CHECK_DEADLOCK FALSE
PROPERTIES
   SupervisorLive StreamsDeliver SignalledIsServed
