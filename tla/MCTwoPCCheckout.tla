-------------------------- MODULE MCTwoPCCheckout --------------------------
(***************************************************************************)
(* Small instances of the two-phase commit demo: two checkouts, which may  *)
(* or may not carry the same account, and an account name without a row.   *)
(***************************************************************************)
EXTENDS TwoPCCheckout, TLC

CONSTANTS t1, t2, alice, bob, carol

TwoTx      == {t1, t2}
OneAccount == {alice}
TwoAccounts == {alice, bob}
Balances   == [a \in {alice, bob} |-> IF a = alice THEN 3 ELSE 1]
AliceHas   == [a \in {alice} |-> 3]
MixedAmounts == {-1, 2}
Interchangeable == Permutations(TwoTx)
=============================================================================
