\* Every fault, each handler testing its own result.
SPECIFICATION PaymentSpec
CONSTANTS
  t1 = t1
  t2 = t2
  t3 = t3
  alice = alice
  Tx <- ThreeTx
  Name = {alice}
  Account = {alice}
  Balance0 <- AliceHas
  Amount <- MixedAmounts
  Faults = {"db", "lost", "crash"}
  SharedErr = FALSE
SYMMETRY Interchangeable
INVARIANTS LockedIsHeld
