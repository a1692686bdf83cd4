----------------------- MODULE MCMonolithicTransfer -----------------------
(***************************************************************************)
(* Two transfers among two accounts and a name without one: they may meet  *)
(* on one row or, in opposite directions, on both.                         *)
(***************************************************************************)
EXTENDS MonolithicTransfer

CONSTANTS t1, t2, alice, bob, carol

TwoTx    == {t1, t2}
Accounts == [a \in {alice, bob} |-> IF a = alice THEN 3 ELSE 1]
Amounts  == {-1, 2}
=============================================================================
