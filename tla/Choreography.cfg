\* Failing statements, crashes and doubled events, or broken connections and
\* crashes; fair consumers.
SPECIFICATION FairSpec
CONSTANTS
  t1 = t1
  t2 = t2
  alice = alice
  carol = carol
  Tx <- TwoTx
  Name = {alice, carol}
  Account = {alice}
  Balance0 <- AliceHas
  MaxReturns = 1
  Amount <- MixedAmounts
  Faults = {"db", "lost", "crash", "dup"}
  Exposures <- DoubledOrBroken
INVARIANTS TypeOK ConfirmedIsPaid PaidOnce CancelledIsUnpaid
PROPERTIES OrderSettles
