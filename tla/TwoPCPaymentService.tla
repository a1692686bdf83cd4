------------------------ MODULE TwoPCPaymentService ------------------------
(***************************************************************************)
(* The payment service of the two-phase commit demo: accounts with a       *)
(* balance and a locked part of it, and three POST handlers.  A handler    *)
(* runs one database transaction under a row lock, hence in one step,      *)
(* assigns its result to a variable and answers by what it finds in it.    *)
(* That variable is main's own err, captured by all the handlers: another  *)
(* request may assign it between a request's assignment and its test.      *)
(***************************************************************************)
EXTENDS CheckoutBase

CONSTANTS
  Balance0,  \* the seeded balance of each account
  SharedErr  \* may a test of err read main's variable, or only the result
             \* the handler itself has just stored there?  The race leaves
             \* the choice to the build.

ASSUME Balance0Assumption  == Balance0 \in [Account -> Nat]
ASSUME SharedErrAssumption == SharedErr \in BOOLEAN

VARIABLES
  req,            \* req[t], the body of checkout t, the same in all its calls
  balance,        \* column balance of the accounts table
  lockedBalance,  \* column locked_balance
  capturedErr,    \* main's err, which every handler assigns and tests
  payCall,        \* payCall[t][op], how far the call of handler op for t got
  payResult       \* payResult[t][op], what its database transaction returned

PayOp        == {"prepare", "commit", "rollback"}
PayCallState == {"idle", "sent", "returned", "assigned", "ok", "fail", "dead"}
InService    == {"sent", "returned", "assigned"}

payVars == <<req, balance, lockedBalance, capturedErr, payCall, payResult>>

PayTypeOK ==
  /\ req \in [Tx -> Request]
  /\ balance \in [Account -> Int]
  /\ lockedBalance \in [Account -> Int]
  /\ capturedErr \in {"nil", "error"}
  /\ payCall \in [Tx -> [PayOp -> PayCallState]]
  /\ payResult \in [Tx -> [PayOp -> {"none", "nil", "error"}]]

PayInit ==
  /\ req \in [Tx -> Request]
  /\ balance = Balance0
  /\ lockedBalance = [a \in Account |-> 0]
  /\ capturedErr = "nil"
  /\ payCall = [t \in Tx |-> [op \in PayOp |-> "idle"]]
  /\ payResult = [t \in Tx |-> [op \in PayOp |-> "none"]]

\* What the database has seen of checkout t, whatever was answered.
Reserved(t) == payResult[t]["prepare"] = "nil"
Charged(t)  == payResult[t]["commit"] = "nil"
Released(t) == payResult[t]["rollback"] = "nil"

Adds(column, t, n) == [column EXCEPT ![req[t].account] = @ + n]

PayRequest(t, op) ==
  /\ payCall[t][op] = "idle"
  /\ payCall' = [payCall EXCEPT ![t][op] = "sent"]

\* db.Transaction of a handler: it changes the row of the account by db and
\* dl and returns nil, provided ok, or it returns an error and changes nothing.
Transaction(t, op, ok, db, dl) ==
  /\ payCall[t][op] = "sent"
  /\ payCall' = [payCall EXCEPT ![t][op] = "returned"]
  /\ \/ /\ req[t].account \in Account
        /\ ok
        /\ balance' = Adds(balance, t, db)
        /\ lockedBalance' = Adds(lockedBalance, t, dl)
        /\ payResult' = [payResult EXCEPT ![t][op] = "nil"]
     \/ /\ req[t].account \in Account => ~ok \/ "db" \in Faults
        /\ payResult' = [payResult EXCEPT ![t][op] = "error"]
        /\ UNCHANGED <<balance, lockedBalance>>
  /\ UNCHANGED <<req, capturedErr>>

\* Slip to rule out: prepare overlooks what others have locked.
AvailableIgnoringLocks(t) == balance[req[t].account]

Available(t) == balance[req[t].account] - lockedBalance[req[t].account]

\* Slip to rule out: rollback forgets to unlock.
RollbackKeepsLock(t) == Transaction(t, "rollback", TRUE, 0, 0)

PrepareTransaction(t) ==
  Transaction(t, "prepare", Available(t) >= req[t].amount, 0, req[t].amount)
CommitTransaction(t) ==
  Transaction(t, "commit", TRUE, -req[t].amount, -req[t].amount)
RollbackTransaction(t) ==
  Transaction(t, "rollback", TRUE, 0, -req[t].amount)

\* err = <the result>, on main's variable.
AssignErr(t, op) ==
  /\ payCall[t][op] = "returned"
  /\ payCall' = [payCall EXCEPT ![t][op] = "assigned"]
  /\ capturedErr' = payResult[t][op]
  /\ UNCHANGED <<req, balance, lockedBalance, payResult>>

\* if err != nil, and the answer: 200, or 402 from prepare and 500 otherwise.
SeenErr(t, op) ==
  {payResult[t][op]} \cup (IF SharedErr THEN {capturedErr} ELSE {})

Respond(t, op) ==
  /\ payCall[t][op] = "assigned"
  /\ \E err \in SeenErr(t, op) :
       payCall' = [payCall EXCEPT ![t][op] =
                     IF err = "nil" THEN "ok" ELSE "fail"]
  /\ UNCHANGED <<req, balance, lockedBalance, capturedErr, payResult>>

\* A request that never reaches the service.
LoseRequest(t, op) ==
  /\ Faults \cap {"lost", "crash"} # {}
  /\ payCall[t][op] = "sent"
  /\ payCall' = [payCall EXCEPT ![t][op] = "dead"]
  /\ UNCHANGED <<req, balance, lockedBalance, capturedErr, payResult>>

\* The process dies with the calls it was serving and starts again with a
\* fresh err; the accounts are in the database.
PaymentCrash ==
  /\ "crash" \in Faults
  /\ \E t \in Tx, op \in PayOp : payCall[t][op] \in InService
  /\ payCall' = [t \in Tx |-> [op \in PayOp |->
                   IF payCall[t][op] \in InService THEN "dead"
                                                   ELSE payCall[t][op]]]
  /\ capturedErr' = "nil"
  /\ UNCHANGED <<req, balance, lockedBalance, payResult>>

PayHandler(t) ==
  \/ PrepareTransaction(t)
  \/ CommitTransaction(t)
  \/ RollbackTransaction(t)
  \/ \E op \in PayOp : AssignErr(t, op) \/ Respond(t, op)
=============================================================================
