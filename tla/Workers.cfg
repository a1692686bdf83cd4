\* Fair goroutines, with and without a shutdown.  A shutdown blocks for ever, so
\* the system may stop.
SPECIFICATION FairSpec
CONSTANTS
  w1 = w1
  w2 = w2
  c1 = c1
  c2 = c2
  None = None
  Worker <- OneWorker
  Client <- TwoClients
  BootWorkers <- BootFirst
  MaxRequests = 2
  MaxStarts = 3
  MaxMessages = 1
  MaySignal = TRUE
INVARIANTS TypeOK FlagIsTrue EveryMessageIsCounted
PROPERTIES StopTakesEffect CallsReturn
CHECK_DEADLOCK FALSE
