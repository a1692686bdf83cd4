\* Every fault, but each handler tests its own result; fair processes.
SPECIFICATION FairSpec
CONSTANTS
  t1 = t1
  t2 = t2
  alice = alice
  bob = bob
  carol = carol
  Tx <- TwoTx
  Name = {alice}
  Account = {alice}
  Balance0 <- AliceHas
  Amount = {2}
  Faults = {"db", "lost", "crash"}
  SharedErr = FALSE
INVARIANTS SuccessIsEarned
PROPERTIES AtomicSpec HeldFundsSettled
