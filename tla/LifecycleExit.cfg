SPECIFICATION LifeSpec
CONSTANTS
  Conn = {x1, x2}
  Embedded = FALSE
INVARIANTS DrainedBeforeExit
CHECK_DEADLOCK FALSE
