--------------------------- MODULE MCTwoPCPayment ---------------------------
(***************************************************************************)
(* Three checkouts that compete for the funds of one account.              *)
(***************************************************************************)
EXTENDS TwoPCPaymentClients, TLC

CONSTANTS t1, t2, t3, alice

ThreeTx  == {t1, t2, t3}
\* The handlers take any amount but zero: a negative one unlocks and pays in.
MixedAmounts == {-1, 1, 2}
AliceHas == [a \in {alice} |-> 3]
Interchangeable == Permutations(ThreeTx)
=============================================================================
