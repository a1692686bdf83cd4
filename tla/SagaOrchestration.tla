------------------------- MODULE SagaOrchestration -------------------------
(***************************************************************************)
(* The orchestrated saga: an orchestrator calls an order service and a     *)
(* payment service, and cancels the order when the payment has failed, or  *)
(* seems to have.  Calls, their faults and the captured err of the payment *)
(* service are as in the two-phase commit demo.                            *)
(***************************************************************************)
EXTENDS CheckoutBase

CONSTANTS
  Balance0   \* the seeded balance of each account

ASSUME Balance0Assumption == Balance0 \in [Account -> Nat]

VARIABLES
  faults,       \* the faults this execution is exposed to
  sharedErr,    \* may the payment handler's test of err read main's variable?
  req,          \* req[t], the body of checkout t
  orders,       \* orders[t], the status of its order
  balance,      \* the accounts
  capturedErr,  \* main's err in the payment service
  paid,         \* paid[t], what the transaction of its payment returned
  call,         \* call[t][op], how far a call got
  pc,           \* pc[t], the call the orchestrator's goroutine waits for
  reply         \* reply[t], what its client has been told

\* What no step changes.
given == <<faults, sharedErr, req>>

vars == <<given, orders, balance, capturedErr, paid, call, pc, reply>>

Op        == {"create", "pay", "confirm", "cancel"}
CallState == {"idle", "sent", "returned", "assigned", "ok", "fail", "dead"}
InService == {"sent", "returned", "assigned"}

OrderStatus == {"none", "PENDING", "CONFIRMED", "CANCELLED"}

TypeOK ==
  /\ faults \subseteq Faults
  /\ sharedErr \in BOOLEAN
  /\ req \in [Tx -> Request]
  /\ orders \in [Tx -> OrderStatus]
  /\ balance \in [Account -> Int]
  /\ capturedErr \in {"nil", "error"}
  /\ paid \in [Tx -> {"none", "nil", "error"}]
  /\ call \in [Tx -> [Op -> CallState]]
  /\ pc \in [Tx -> Op \cup {"init", "done", "crashed"}]
  /\ reply \in [Tx -> {"none", "notCreated", "successful", "cancelled"}]

OrderInit == orders = [t \in Tx |-> "none"]

PaymentInit ==
  /\ balance = Balance0
  /\ capturedErr = "nil"
  /\ paid = [t \in Tx |-> "none"]

Init ==
  /\ faults \in SUBSET Faults
  /\ sharedErr \in BOOLEAN
  /\ req \in [Tx -> Request]
  /\ OrderInit
  /\ PaymentInit
  /\ call = [t \in Tx |-> [op \in Op |-> "idle"]]
  /\ pc = [t \in Tx |-> "init"]
  /\ reply = [t \in Tx |-> "none"]

Moves(t, op, from, to) ==
  /\ call[t][op] = from
  /\ call' = [call EXCEPT ![t][op] = to]

-----------------------------------------------------------------------------
(***************************************************************************)
(* The order service.                                                      *)
(***************************************************************************)
WritesStatus(t, op, status) ==
  /\ \/ /\ Moves(t, op, "sent", "ok")
        /\ orders' = [orders EXCEPT ![t] = status]
     \/ /\ "db" \in faults
        /\ Moves(t, op, "sent", "fail")
        /\ UNCHANGED orders
     \/ /\ faults \cap {"lost", "crash"} # {}
        /\ Moves(t, op, "sent", "dead")
        /\ orders' \in {orders, [orders EXCEPT ![t] = status]}
  /\ UNCHANGED <<given, balance, capturedErr, paid, pc, reply>>

\* Slip to rule out: a status no reader of the table knows.
CancelOrderMisspelt(t) == WritesStatus(t, "cancel", "ROLLED_BACK")

CreateOrder(t)  == WritesStatus(t, "create", "PENDING")
ConfirmOrder(t) == WritesStatus(t, "confirm", "CONFIRMED")
CancelOrder(t)  == WritesStatus(t, "cancel", "CANCELLED")

OrderHandler(t) == CreateOrder(t) \/ ConfirmOrder(t) \/ CancelOrder(t)

(***************************************************************************)
(* The payment service.                                                    *)
(***************************************************************************)
Covered(t) == req[t].account \in Account /\ balance[req[t].account] >= req[t].amount

\* db.Transaction, under the row lock of the account.
PayTransaction(t) ==
  /\ Moves(t, "pay", "sent", "returned")
  /\ \/ /\ Covered(t)
        /\ balance' = [balance EXCEPT ![req[t].account] = @ - req[t].amount]
        /\ paid' = [paid EXCEPT ![t] = "nil"]
     \/ /\ ~Covered(t) \/ "db" \in faults
        /\ paid' = [paid EXCEPT ![t] = "error"]
        /\ UNCHANGED balance
  /\ UNCHANGED <<given, orders, capturedErr, pc, reply>>

PayAssignErr(t) ==
  /\ Moves(t, "pay", "returned", "assigned")
  /\ capturedErr' = paid[t]
  /\ UNCHANGED <<given, orders, balance, paid, pc, reply>>

PayRespond(t) ==
  /\ \E err \in {paid[t]} \cup (IF sharedErr THEN {capturedErr} ELSE {}) :
       Moves(t, "pay", "assigned", IF err = "nil" THEN "ok" ELSE "fail")
  /\ UNCHANGED <<given, orders, balance, capturedErr, paid, pc, reply>>

PayHandler(t) == PayTransaction(t) \/ PayAssignErr(t) \/ PayRespond(t)

LosePayment(t) ==
  /\ faults \cap {"lost", "crash"} # {}
  /\ Moves(t, "pay", "sent", "dead")
  /\ UNCHANGED <<given, orders, balance, capturedErr, paid, pc, reply>>

PaymentCrash ==
  /\ "crash" \in faults
  /\ \E t \in Tx : call[t]["pay"] \in InService
  /\ call' = [t \in Tx |-> IF call[t]["pay"] \in InService
                             THEN [call[t] EXCEPT !["pay"] = "dead"] ELSE call[t]]
  /\ capturedErr' = "nil"
  /\ UNCHANGED <<given, orders, balance, paid, pc, reply>>

-----------------------------------------------------------------------------
(***************************************************************************)
(* The orchestrator.                                                       *)
(***************************************************************************)
TransportError(t, op) == call[t][op] = "dead" \/ "lost" \in faults
Failed(t, op)         == call[t][op] = "fail" \/ TransportError(t, op)
Ends(t, op)           == call[t][op] = "ok" \/ Failed(t, op)

\* The goroutine goes on to call op.
Sends(t, from, op) ==
  /\ pc[t] = from
  /\ pc' = [pc EXCEPT ![t] = op]
  /\ Moves(t, op, "idle", "sent")
  /\ UNCHANGED <<given, orders, balance, capturedErr, paid, reply>>

Says(t, from, answer) ==
  /\ pc[t] = from
  /\ pc' = [pc EXCEPT ![t] = "done"]
  /\ reply' = [reply EXCEPT ![t] = answer]
  /\ UNCHANGED <<given, orders, balance, capturedErr, paid, call>>

StartCheckout(t)  == Sends(t, "init", "create")
OrderCreated(t)   == call[t]["create"] = "ok" /\ Sends(t, "create", "pay")
OrderNotCreated(t) == Failed(t, "create") /\ Says(t, "create", "notCreated")
\* Slip to rule out: any answer of the payment service is taken for a yes.
PaymentDoneByAnyAnswer(t) ==
  call[t]["pay"] \in {"ok", "fail"} /\ Sends(t, "pay", "confirm")

PaymentDone(t)    == call[t]["pay"] = "ok" /\ Sends(t, "pay", "confirm")

\* Slip to rule out: the order is left as it is.
PaymentNotDoneUncompensated(t) == Failed(t, "pay") /\ Says(t, "pay", "cancelled")

\* The compensation, whatever the reason for which the call did not succeed.
PaymentNotDone(t) == Failed(t, "pay") /\ Sends(t, "pay", "cancel")

\* Slip to rule out: an order that could not be confirmed is cancelled.
ConfirmEndsInCancel(t) ==
  \/ call[t]["confirm"] = "ok" /\ Says(t, "confirm", "successful")
  \/ Failed(t, "confirm") /\ Sends(t, "confirm", "cancel")

\* How the last call ended is not looked at.
ConfirmEnds(t) == Ends(t, "confirm") /\ Says(t, "confirm", "successful")
CancelEnds(t)  == Ends(t, "cancel") /\ Says(t, "cancel", "cancelled")

OrchestratorCrash ==
  /\ "crash" \in faults
  /\ \E t \in Tx : pc[t] \in Op
  /\ pc' = [t \in Tx |-> IF pc[t] \in Op THEN "crashed" ELSE pc[t]]
  /\ UNCHANGED <<given, orders, balance, capturedErr, paid, call, reply>>

Orchestrator(t) ==
  \/ StartCheckout(t)
  \/ OrderCreated(t) \/ OrderNotCreated(t)
  \/ PaymentDone(t)  \/ PaymentNotDone(t)
  \/ ConfirmEnds(t)  \/ CancelEnds(t)

Finished ==
  /\ \A t \in Tx : /\ pc[t] \in {"done", "crashed"}
                   /\ \A op \in Op : call[t][op] \notin InService
  /\ UNCHANGED vars

Next ==
  \/ \E t \in Tx : Orchestrator(t) \/ OrderHandler(t) \/ PayHandler(t) \/ LosePayment(t)
  \/ PaymentCrash
  \/ OrchestratorCrash
  \/ Finished

Spec == Init /\ [][Next]_vars

\* As for the two-phase commit demo: what can run does, faults need not happen.
FairSpec ==
  /\ Spec
  /\ \A t \in Tx : /\ WF_vars(Orchestrator(t) /\ pc[t] # "init")
                   /\ WF_vars(OrderHandler(t))
                   /\ WF_vars(PayHandler(t))

-----------------------------------------------------------------------------
Paid(t) == paid[t] = "nil"

\* No order is confirmed without its payment, whatever fails on the way, as
\* long as the payment's answer is its own.
ConfirmedIsPaid ==
  ~sharedErr => \A t \in Tx : orders[t] = "CONFIRMED" => Paid(t)

\* The compensation finds nothing to compensate: no order is cancelled whose
\* payment went through, while no connection breaks and no process dies.
CompensationIsDue ==
  faults \subseteq {"db"} /\ ~sharedErr
    => \A t \in Tx : orders[t] = "CANCELLED" => ~Paid(t)

\* Without faults every saga is carried through: an order that is created is
\* confirmed or cancelled, and money that is taken gets its order.
Undisturbed == faults = {} /\ ~sharedErr
SagaSettles ==
  \A t \in Tx : /\ Undisturbed /\ orders[t] = "PENDING"
                     ~> orders[t] \in {"CONFIRMED", "CANCELLED"}
                /\ Undisturbed /\ Paid(t) ~> orders[t] = "CONFIRMED"
=============================================================================
