\* Two requests, two starts, every fault.  When all is answered nothing happens.
SPECIFICATION FairSpec
CONSTANTS
  r1 = r1
  r2 = r2
  laptop = laptop
  nothing = nothing
  Malformed = Malformed
  Req = {r1, r2}
  Product = {laptop}
  ProductID = {laptop, nothing}
  Timeout = 1
  Grace = 2
  Faults = {"lost", "crash"}
  MaxStarts = 2
INVARIANTS TypeOK OrdersAddUp
PROPERTY AcceptedIsAnswered
CHECK_DEADLOCK FALSE
