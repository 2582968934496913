SPECIFICATION Spec
CONSTANTS
  Transports = {"padded"}
  Words = {0, 1, 2}
  Pads = {0, 1, 2, 3}
  Acks = {FALSE}
  MaxPackets = 2
INVARIANTS PaddingSkipped
CHECK_DEADLOCK FALSE
