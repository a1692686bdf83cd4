\* Two requests for one place, queues that overflow, fair goroutines.
SPECIFICATION FairSpec
CONSTANTS
  c1 = c1
  c2 = c2
  None = None
  Client <- TwoClients
  Event <- Line
  QueueSize = 2
  ClientSize = 1
  Count = 2
  MaxConnections = 1
  LogEvery = 1
INVARIANTS TypeOK OneHistory PoolIsHonest ReportIsLast
PROPERTIES NobodyIsHeldUp
