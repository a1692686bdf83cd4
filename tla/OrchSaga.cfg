\* Every set of faults, with and without the race on err, fair processes.
SPECIFICATION FairSpec
CONSTANTS
  t1 = t1
  t2 = t2
  alice = alice
  Tx <- TwoTx
  Name = {alice}
  Account = {alice}
  Balance0 <- AliceHas
  Amount = {2}
  Faults = {"db", "lost", "crash"}
INVARIANTS TypeOK ConfirmedIsPaid CompensationIsDue
PROPERTIES SagaSettles
