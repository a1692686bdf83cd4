\* Every fault, fair transactions.
SPECIFICATION FairSpec
CONSTANTS
  t1 = t1
  t2 = t2
  alice = alice
  bob = bob
  carol = carol
  None = None
  Tx <- TwoTx
  Name = {alice, bob, carol}
  Account = {alice, bob}
  Seed <- Accounts
  Amount <- Amounts
  Faults = {"db", "lost", "crash"}
INVARIANTS TypeOK
PROPERTIES TransfersOnly TransferEnds
