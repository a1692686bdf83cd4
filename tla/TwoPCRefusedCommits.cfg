\* The race on err alone, no other fault.
SPECIFICATION Spec
CONSTANTS
  t1 = t1
  t2 = t2
  alice = alice
  bob = bob
  carol = carol
  Tx <- TwoTx
  Name = {alice, carol}
  Account = {alice}
  Balance0 <- AliceHas
  Amount = {2}
  Faults = {}
  SharedErr = TRUE
INVARIANTS RefusedIsNotCommitted
