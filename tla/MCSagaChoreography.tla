------------------------ MODULE MCSagaChoreography ------------------------
(***************************************************************************)
(* Two orders, on an account that can pay for one of them or on a name     *)
(* without an account.                                                     *)
(***************************************************************************)
EXTENDS SagaChoreography

CONSTANTS t1, t2, alice, carol

TwoTx        == {t1, t2}
AliceHas     == [a \in {alice} |-> 3]
MixedAmounts == {-1, 2}

\* A fault need not happen, so an exposure covers the smaller ones but for the
\* properties that exclude a fault.  No execution both doubles events and breaks
\* connections.
DoubledOrBroken ==
  {{}, {"dup"}, {"db", "crash"}, {"db", "crash", "dup"}, {"lost", "crash"}}
=============================================================================
