------------------------ MODULE MCSagaOrchestration ------------------------
(***************************************************************************)
(* Two checkouts on an account that can pay for one of them.               *)
(***************************************************************************)
EXTENDS SagaOrchestration

CONSTANTS t1, t2, alice

TwoTx    == {t1, t2}
AliceHas == [a \in {alice} |-> 3]
=============================================================================
