--------------------------- MODULE TwoPCCheckout ---------------------------
(***************************************************************************)
(* The two-phase commit demo as a whole: the coordinator's /checkout       *)
(* handler, one goroutine per checkout, and the two services it calls.     *)
(*                                                                         *)
(* A call is seen to end by its answer, or by a transport error, which the *)
(* client reports when the call has died and, with "lost" connections,     *)
(* whenever it pleases: the callee may still be at work, or still start.   *)
(* The client has neither timeout nor retry.                               *)
(***************************************************************************)
EXTENDS TwoPCOrderService, TwoPCPaymentService

VARIABLES
  pc,    \* pc[t], the call the goroutine of checkout t waits for
  err1,  \* err1[t], did the order's /commit end in a transport error?
  reply  \* reply[t], what the client of checkout t has been told

vars == <<orderVars, payVars, pc, err1, reply>>

Waiting == {"prepareOrder", "preparePayment", "commitOrder",
            "commitPayment", "rollbackOrder"}
Reply   == {"none", "successful", "rolledBack", "critical"}

CoordinatorTypeOK ==
  /\ pc \in [Tx -> Waiting \cup {"init", "done", "crashed"}]
  /\ err1 \in [Tx -> BOOLEAN]
  /\ reply \in [Tx -> Reply]

Init ==
  /\ OrderInit
  /\ PayInit
  /\ pc = [t \in Tx |-> "init"]
  /\ err1 = [t \in Tx |-> FALSE]
  /\ reply = [t \in Tx |-> "none"]

-----------------------------------------------------------------------------
(***************************************************************************)
(* How a call can look to the coordinator.                                 *)
(***************************************************************************)
TransportError(call) == call = "dead" \/ "lost" \in Faults
Answered(call)       == call \in {"ok", "fail"}
Failed(call)         == call = "fail" \/ TransportError(call)

Goto(t, from, to) ==
  /\ pc[t] = from
  /\ pc' = [pc EXCEPT ![t] = to]

Says(t, from, answer) ==
  /\ Goto(t, from, "done")
  /\ reply' = [reply EXCEPT ![t] = answer]

\* POST /checkout with a well-formed body.
StartCheckout(t) ==
  /\ Goto(t, "init", "prepareOrder")
  /\ OrderRequest(t, "prepare")
  /\ UNCHANGED <<orders, payVars, err1, reply>>

OrderPrepared(t) ==
  /\ Goto(t, "prepareOrder", "preparePayment")
  /\ orderCall[t]["prepare"] = "ok"
  /\ PayRequest(t, "prepare")
  /\ UNCHANGED <<orderVars, req, balance, lockedBalance, capturedErr,
                 payResult, err1, reply>>

\* Neither flag is set: nothing to roll back.
OrderNotPrepared(t) ==
  /\ Says(t, "prepareOrder", "rolledBack")
  /\ Failed(orderCall[t]["prepare"])
  /\ UNCHANGED <<orderVars, payVars, err1>>

\* Slip to rule out: any answer of /prepare is taken for a yes.
PaymentPreparedByAnyAnswer(t) ==
  /\ Goto(t, "preparePayment", "commitOrder")
  /\ Answered(payCall[t]["prepare"])
  /\ OrderRequest(t, "commit")
  /\ UNCHANGED <<orders, payVars, err1, reply>>

PaymentPrepared(t) ==
  /\ Goto(t, "preparePayment", "commitOrder")
  /\ payCall[t]["prepare"] = "ok"
  /\ OrderRequest(t, "commit")
  /\ UNCHANGED <<orders, payVars, err1, reply>>

\* Only the order is rolled back: paymentPrepared is false on this branch.
PaymentNotPrepared(t) ==
  /\ Goto(t, "preparePayment", "rollbackOrder")
  /\ Failed(payCall[t]["prepare"])
  /\ OrderRequest(t, "rollback")
  /\ UNCHANGED <<orders, payVars, err1, reply>>

\* Slip to rule out: an order that did not commit is rolled back, and the
\* payment committed all the same.
OrderCommitEndsInRollback(t) ==
  /\ Goto(t, "commitOrder", "commitPayment")
  /\ \/ orderCall[t]["commit"] = "ok" /\ UNCHANGED orderCall
     \/ Failed(orderCall[t]["commit"]) /\ OrderRequest(t, "rollback")
  /\ PayRequest(t, "commit")
  /\ UNCHANGED <<orders, req, balance, lockedBalance, capturedErr, payResult,
                 err1, reply>>

\* Slip to rule out: err1 is dropped.
OrderCommitEndsUnseen(t) ==
  /\ Goto(t, "commitOrder", "commitPayment")
  /\ Answered(orderCall[t]["commit"]) \/ TransportError(orderCall[t]["commit"])
  /\ PayRequest(t, "commit")
  /\ UNCHANGED <<orderVars, req, balance, lockedBalance, capturedErr,
                 payResult, err1, reply>>

\* Slip to rule out: after an error the payment's commit is not asked for.
OrderCommitEndsEarly(t) ==
  \/ /\ Answered(orderCall[t]["commit"])
     /\ Goto(t, "commitOrder", "commitPayment")
     /\ PayRequest(t, "commit")
     /\ UNCHANGED <<orderVars, req, balance, lockedBalance, capturedErr,
                    payResult, err1, reply>>
  \/ /\ TransportError(orderCall[t]["commit"])
     /\ Says(t, "commitOrder", "critical")
     /\ UNCHANGED <<orderVars, payVars, err1>>

\* err1 is about the transport only: an answer of 500 leaves it nil.
OrderCommitEnds(t) ==
  /\ Goto(t, "commitOrder", "commitPayment")
  /\ \/ Answered(orderCall[t]["commit"]) /\ UNCHANGED err1
     \/ TransportError(orderCall[t]["commit"]) /\ err1' = [err1 EXCEPT ![t] = TRUE]
  /\ PayRequest(t, "commit")
  /\ UNCHANGED <<orderVars, req, balance, lockedBalance, capturedErr,
                 payResult, reply>>

\* Slip to rule out: a failed commit is reported as a rollback.
PaymentCommitEndsAsRollback(t) ==
  /\ Answered(payCall[t]["commit"]) \/ TransportError(payCall[t]["commit"])
  /\ Says(t, "commitPayment",
          IF Answered(payCall[t]["commit"]) /\ ~err1[t] THEN "successful" ELSE "rolledBack")
  /\ UNCHANGED <<orderVars, payVars, err1>>

\* So is err2.
PaymentCommitEnds(t) ==
  /\ \/ /\ Answered(payCall[t]["commit"])
        /\ Says(t, "commitPayment", IF err1[t] THEN "critical" ELSE "successful")
     \/ /\ TransportError(payCall[t]["commit"])
        /\ Says(t, "commitPayment", "critical")
  /\ UNCHANGED <<orderVars, payVars, err1>>

OrderRollbackEnds(t) ==
  /\ Answered(orderCall[t]["rollback"]) \/ TransportError(orderCall[t]["rollback"])
  /\ Says(t, "rollbackOrder", "rolledBack")
  /\ UNCHANGED <<orderVars, payVars, err1>>

\* The coordinator keeps its transactions in memory only.
CoordinatorCrash ==
  /\ "crash" \in Faults
  /\ \E t \in Tx : pc[t] \in Waiting
  /\ pc' = [t \in Tx |-> IF pc[t] \in Waiting THEN "crashed" ELSE pc[t]]
  /\ UNCHANGED <<orderVars, payVars, err1, reply>>

Coordinator(t) ==
  \/ StartCheckout(t)
  \/ OrderPrepared(t)     \/ OrderNotPrepared(t)
  \/ PaymentPrepared(t)   \/ PaymentNotPrepared(t)
  \/ OrderCommitEnds(t)   \/ PaymentCommitEnds(t)
  \/ OrderRollbackEnds(t)

-----------------------------------------------------------------------------
coordinatorVars == <<pc, err1, reply>>

OrderService(t) == OrderHandler(t) /\ UNCHANGED <<payVars, coordinatorVars>>

PaymentService(t) == PayHandler(t) /\ UNCHANGED <<orderVars, coordinatorVars>>

PaymentFault ==
  /\ PaymentCrash \/ \E t \in Tx, op \in PayOp : LoseRequest(t, op)
  /\ UNCHANGED <<orderVars, coordinatorVars>>

\* Every client has its answer, and no service has a request left.
Finished ==
  /\ \A t \in Tx : /\ pc[t] \in {"done", "crashed"}
                   /\ \A op \in OrderOp : orderCall[t][op] # "sent"
                   /\ \A op \in PayOp : payCall[t][op] \notin InService
  /\ UNCHANGED vars

Next ==
  \/ \E t \in Tx : Coordinator(t) \/ OrderService(t) \/ PaymentService(t)
  \/ PaymentFault
  \/ CoordinatorCrash
  \/ Finished

Spec == Init /\ [][Next]_vars

(***************************************************************************)
(* Fairness.  The scheduler runs every goroutine that can go on, and the   *)
(* database answers every statement.  Whether a client posts, a connection *)
(* breaks or a process dies is nobody's obligation: with "lost" the fair   *)
(* steps below may still end a call early, never must they.                *)
(***************************************************************************)
FairSpec ==
  /\ Spec
  /\ \A t \in Tx :
       /\ WF_vars(Coordinator(t) /\ pc[t] # "init")
       /\ WF_vars(OrderService(t))
       /\ WF_vars(PaymentService(t))

TypeOK == OrderTypeOK /\ PayTypeOK /\ CoordinatorTypeOK

-----------------------------------------------------------------------------
(***************************************************************************)
(* Safety.                                                                 *)
(***************************************************************************)

\* No checkout is charged and cancelled, whatever is lost, crashes or fails,
\* and whatever the handlers read in the captured err: the coordinator decides
\* once, and its /commit and /rollback calls exclude each other.
Agreement == \A t \in Tx : ~(orders[t] = "CANCELLED" /\ Charged(t))

\* What prepare has locked is covered by the balance, under every interleaving
\* of prepares and commits: the row lock makes check and update one step.
FundsCovered == \A a \in Account : lockedBalance[a] <= balance[a]

\* "checkout failed and rolled back" is never told to a client whose order is
\* confirmed or whose account has been charged, even if a call the coordinator
\* has given up on is carried out afterwards.
RolledBackIsNotCommitted ==
  \A t \in Tx : reply[t] = "rolledBack" => orders[t] # "CONFIRMED" /\ ~Charged(t)

\* After "checkout successful" each commit has been carried out, but for one that
\* its service answered with an error status, which the coordinator does not look
\* at.  A broken connection or a crash never passes for a success.
SuccessIsEarned ==
  \A t \in Tx : reply[t] = "successful" =>
    /\ orders[t] = "CONFIRMED" \/ orderCall[t]["commit"] = "fail"
    /\ Charged(t) \/ payResult[t]["commit"] = "error"

\* A prepare that the payment service's database has refused ends in rollback,
\* never in a confirmed order.
RefusedIsNotCommitted ==
  \A t \in Tx : payResult[t]["prepare"] = "error"
                  => orders[t] # "CONFIRMED" /\ ~Charged(t)

\* CONFIRMED and CANCELLED are final although /commit and /rollback write the
\* status whatever it was: no late call overwrites the outcome.
OrderIsFinal ==
  [][\A t \in Tx : orders[t] \in {"CONFIRMED", "CANCELLED"}
                     => orders'[t] = orders[t]]_vars

-----------------------------------------------------------------------------
(***************************************************************************)
(* Refinement: with a result that stays its handler's own, the demo is an  *)
(* atomic checkout.  A service is prepared when its database is, not when  *)
(* the coordinator has heard of it.                                        *)
(***************************************************************************)
OrderState ==
  [s \in OrderStatus |-> CASE s = "none"            -> "working"
                           [] s = "PREPARE_PENDING" -> "prepared"
                           [] s = "CONFIRMED"       -> "committed"
                           [] s = "CANCELLED"       -> "aborted"]

PaymentState(t) ==
  CASE Charged(t)                            -> "committed"
    [] Reserved(t) /\ ~Charged(t)            -> "prepared"
    [] payResult[t]["prepare"] = "error"     -> "aborted"
    [] payResult[t]["prepare"] = "none"      -> "working"

atomicState ==
  [t \in Tx |-> [p \in {"order", "payment"} |->
     IF p = "order" THEN OrderState[orders[t]] ELSE PaymentState(t)]]

Atomic == INSTANCE AtomicCheckout
            WITH Participant <- {"order", "payment"}, state <- atomicState

\* Both services vote and then commit or give up together.
AtomicSpec == Atomic!Spec

-----------------------------------------------------------------------------
(***************************************************************************)
(* Liveness.                                                               *)
(***************************************************************************)

\* A service that refused, failed or died, or a coordinator that did.
Disturbed(t) ==
  \/ pc[t] = "crashed"
  \/ \E op \in OrderOp : orderCall[t][op] \in {"fail", "dead"}
  \/ \E op \in PayOp   : payCall[t][op] \in {"fail", "dead"} \/ payResult[t][op] = "error"

\* Reserved funds are charged or released in the end, unless one of the steps
\* of that very checkout was disturbed, or its client is told of a rollback
\* (the coordinator never heard that the funds are reserved, and never asks for
\* their release).  A decision to commit is carried out although a connection
\* breaks, and no checkout waits for ever on a lost answer.
HeldFundsSettled ==
  \A t \in Tx :
    Reserved(t) ~> \/ Charged(t) \/ Released(t)
                  \/ Disturbed(t) \/ reply[t] = "rolledBack"
=============================================================================
