\* Every fault and the race on err: what holds unconditionally.
SPECIFICATION Spec
CONSTANTS
  t1 = t1
  t2 = t2
  alice = alice
  bob = bob
  carol = carol
  Tx <- TwoTx
  Name = {alice, carol}
  Account = {alice}
  Balance0 <- AliceHas
  Amount <- MixedAmounts
  Faults = {"db", "lost", "crash"}
  SharedErr = TRUE
SYMMETRY Interchangeable
INVARIANTS TypeOK Agreement FundsCovered RolledBackIsNotCommitted
PROPERTIES OrderIsFinal
