\* A shutdown with at most one request before it.
SPECIFICATION FairSpec
CONSTANTS
  w1 = w1
  w2 = w2
  c1 = c1
  c2 = c2
  None = None
  Worker <- TwoWorkers
  Client <- OneClient
  BootWorkers <- BootFirst
  MaxRequests = 1
  MaxStarts = 2
  MaxMessages = 0
  MaySignal = TRUE
PROPERTY ShutdownCompletes
CHECK_DEADLOCK FALSE
