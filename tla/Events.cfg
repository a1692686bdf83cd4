\* Two events; one start or stop by hand, loss of the coordinator, or kill;
\* requests to the broker fail or do not.  With nothing to do the process waits.
SPECIFICATION FairSpec
CONSTANTS
  w1 = w1
  w2 = w2
  p0 = p0
  p1 = p1
  k1 = k1
  None = None
  Worker <- TwoWorkers
  Partition <- TwoPartitions
  First = p0
  Key = {k1}
  MaxEvents = 2
  MaxChanges = 1
  MayFail = TRUE
INVARIANTS TypeOK NothingSlipsThrough HandledOnce OffsetAdvances InOrder
PROPERTIES EventsAreTaken
CHECK_DEADLOCK FALSE
