SPECIFICATION Spec
CONSTANTS
  PartNames = {"job", "targets", "ext", "accept", "timers", "listening", "socket",
               "oneThread", "stats", "workers", "handshake", "probe"}
  Nobody = Nobody
  Nothing = Nothing
CHECK_DEADLOCK FALSE
PROPERTIES
  ThreadsProgress ConnectionsProgress
