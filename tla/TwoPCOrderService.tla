------------------------- MODULE TwoPCOrderService -------------------------
(***************************************************************************)
(* The order service of the two-phase commit demo: one database row per    *)
(* checkout and three POST handlers, each a single SQL statement.  The     *)
(* service keeps nothing in memory, so a crash of it is no more than the   *)
(* death of the calls it was serving.                                      *)
(***************************************************************************)
EXTENDS CheckoutBase

VARIABLES
  orders,    \* orders[t], the status of the row that t's prepare created
  orderCall  \* orderCall[t][op], how far the call of handler op for t got

OrderOp        == {"prepare", "commit", "rollback"}
OrderStatus    == {"none", "PREPARE_PENDING", "CONFIRMED", "CANCELLED"}
OrderCallState == {"idle", "sent", "ok", "fail", "dead"}

orderVars == <<orders, orderCall>>

OrderTypeOK ==
  /\ orders \in [Tx -> OrderStatus]
  /\ orderCall \in [Tx -> [OrderOp -> OrderCallState]]

OrderInit ==
  /\ orders = [t \in Tx |-> "none"]
  /\ orderCall = [t \in Tx |-> [op \in OrderOp |-> "idle"]]

\* A caller posts to handler op on behalf of checkout t.
OrderRequest(t, op) ==
  /\ orderCall[t][op] = "idle"
  /\ orderCall' = [orderCall EXCEPT ![t][op] = "sent"]

OrderAnswers(t, op, answer) ==
  /\ orderCall[t][op] = "sent"
  /\ orderCall' = [orderCall EXCEPT ![t][op] = answer]

(***************************************************************************)
(* A handler runs its statement and answers 200, or the statement fails    *)
(* and it answers 500 with the row as it was, or the call dies without an  *)
(* answer, before its statement took effect or after it.                   *)
(***************************************************************************)
WritesStatus(t, op, status) ==
  \/ /\ OrderAnswers(t, op, "ok")
     /\ orders' = [orders EXCEPT ![t] = status]
  \/ /\ "db" \in Faults
     /\ OrderAnswers(t, op, "fail")
     /\ UNCHANGED orders
  \/ /\ Faults \cap {"lost", "crash"} # {}
     /\ OrderAnswers(t, op, "dead")
     /\ orders' \in {orders, [orders EXCEPT ![t] = status]}

\* Slip to rule out: a status no reader of the table knows.
OrderRollbackMisspelt(t) == WritesStatus(t, "rollback", "ROLLED_BACK")

OrderPrepare(t)  == WritesStatus(t, "prepare", "PREPARE_PENDING")
OrderCommit(t)   == WritesStatus(t, "commit", "CONFIRMED")
OrderRollback(t) == WritesStatus(t, "rollback", "CANCELLED")

OrderHandler(t) == OrderPrepare(t) \/ OrderCommit(t) \/ OrderRollback(t)
=============================================================================
