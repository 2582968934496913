SPECIFICATION Spec
CONSTANTS
  PartNames = {"job", "targets", "single", "ext", "packets", "queue", "semaphore", "accept",
               "timers", "listening", "socket", "oneThread", "stats", "workers", "dh"}
  Twins = {a, b}
  mainThread = mainThread
  Nobody = Nobody
  Nothing = Nothing
  Thread <- Threads
  Sig = {0, 5, 7}
  Fast = {5}
  SigClass <- JobClass
  Mask <- JobMask
  MaxRefs = 2
  MaxSends = 2
  MaxTime = 3
  MaxSets = 3
  MaxQ = 4
  Same = FALSE
  Managed = TRUE
  Listener = {1, 2}
  max_special_connections = 1
  Cpu = {1}
  MaxArrivals = 3
  MaxUpdates = 3
  workers = 2
  Tries = 2
  MaxSignals = 2
SYMMETRY Symm
CONSTRAINT ShortQueues
CHECK_DEADLOCK FALSE
INVARIANTS
  JobSafe TargetsSafe  QueueSafe AcceptSafe TimersSafe ListeningSafe SocketSafe
  StatsSafe WorkersSafe DhSafe
PROPERTIES
  WrittenBeforeClose
