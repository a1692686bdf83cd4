------------------------ MODULE OrchestrationProofs ------------------------
(***************************************************************************)
(* What holds of the orchestrated saga for any number of checkouts,        *)
(* accounts and amounts and for every set of faults.                       *)
(*                                                                         *)
(* The argument: the orchestrator's goroutine goes straight on, so of one  *)
(* checkout it confirms or cancels, and it does either after the call to   *)
(* pay has ended.  What it then knows of the payment is true as long as    *)
(* the handler has answered by its own result, and complete as long as the *)
(* call could end only by an answer.                                       *)
(***************************************************************************)
EXTENDS SagaOrchestration, TLAPS

Sent(t, op) == call[t][op] # "idle"

\* Where the goroutine stands tells what it has not sent yet.
SentAtPC(t) ==
  /\ pc[t] \in {"init", "create", "pay"} => ~Sent(t, "confirm") /\ ~Sent(t, "cancel")
  /\ pc[t] \in {"init", "create"} => ~Sent(t, "pay")

\* A status was asked for.
StatusWasSent(t) ==
  /\ orders[t] = "CONFIRMED" => Sent(t, "confirm")
  /\ orders[t] = "CANCELLED" => Sent(t, "cancel")

\* A payment has its result, which is final, once its transaction has ended.
ResultOfCall(t) ==
  /\ call[t]["pay"] \in {"idle", "sent"} => paid[t] = "none"
  /\ call[t]["pay"] \in {"returned", "assigned"} => paid[t] # "none"

\* An answer tells the payment's result.
AnswerIsTrue(t) ==
  /\ call[t]["pay"] = "ok" => paid[t] = "nil"
  /\ call[t]["pay"] = "fail" => paid[t] = "error"

\* While nothing but statements can fail, a call ends by its answer.
CallsAreAnswered(t) ==
  /\ call[t]["pay"] # "dead"
  /\ Sent(t, "cancel") => call[t]["pay"] = "fail"

TxInv(t) ==
  /\ SentAtPC(t) /\ StatusWasSent(t) /\ ResultOfCall(t)
  /\ ~sharedErr => AnswerIsTrue(t) /\ (Sent(t, "confirm") => paid[t] = "nil")
  /\ faults \subseteq {"db"} => CallsAreAnswered(t)

IInv == TypeOK /\ \A t \in Tx : TxInv(t)

-----------------------------------------------------------------------------
USE AccountAssumption, AmountAssumption, FaultsAssumption, Balance0Assumption
USE DEF TypeOK, Op, CallState, InService, OrderStatus, Request, given, vars,
        TxInv, Sent, SentAtPC, StatusWasSent, ResultOfCall, AnswerIsTrue, CallsAreAnswered

\* A call that moves, and no other.
LEMMA MovesEffect ==
  ASSUME TypeOK, NEW t \in Tx, NEW op \in Op, NEW from, NEW to \in CallState,
         Moves(t, op, from, to)
  PROVE  /\ call[t][op] = from
         /\ call' \in [Tx -> [Op -> CallState]]
         /\ \A s \in Tx, o \in Op : call'[s][o] = IF s = t /\ o = op THEN to ELSE call[s][o]
  BY DEF Moves

LEMMA InitIInv == Init => IInv
  BY DEF Init, OrderInit, PaymentInit, IInv

\* A handler of the order service writes the status it was asked for.
LEMMA WritesStatusKeepsInv ==
  ASSUME IInv, NEW t \in Tx, NEW op \in Op \ {"pay"},
         NEW status \in OrderStatus,
         status = "CONFIRMED" => op = "confirm",
         status = "CANCELLED" => op = "cancel",
         WritesStatus(t, op, status)
  PROVE  IInv'
<1>1. /\ UNCHANGED <<given, balance, capturedErr, paid, pc, reply>>
      /\ orders' \in {orders, [orders EXCEPT ![t] = status]}
      /\ \E to \in {"ok", "fail", "dead"} : Moves(t, op, "sent", to)
  BY DEF WritesStatus
<1>2. PICK to \in {"ok", "fail", "dead"} : Moves(t, op, "sent", to)
  BY <1>1
<1>3. /\ call[t][op] = "sent"
      /\ call' \in [Tx -> [Op -> CallState]]
      /\ \A s \in Tx, o \in Op : call'[s][o] = IF s = t /\ o = op THEN to ELSE call[s][o]
  BY <1>2, MovesEffect DEF IInv
<1>4. TypeOK'
  BY <1>1, <1>3 DEF IInv
<1>5. ASSUME NEW s \in Tx PROVE TxInv(s)'
  <2>1. \A o \in Op : Sent(s, o)' = Sent(s, o)
    BY <1>3
  <2>2. call'[s]["pay"] = call[s]["pay"]
    BY <1>3
  <2>3. StatusWasSent(s)'
    BY <1>1, <1>3, <2>1 DEF IInv
  <2>. QED BY <1>1, <2>1, <2>2, <2>3 DEF IInv
<1>. QED BY <1>4, <1>5 DEF IInv

LEMMA OrderHandlerKeepsInv ==
  ASSUME IInv, NEW t \in Tx, OrderHandler(t)
  PROVE  IInv'
  BY WritesStatusKeepsInv DEF OrderHandler, CreateOrder, ConfirmOrder, CancelOrder

\* What the payment's call may do to a checkout when it moves.
LEMMA PayKeepsInv ==
  ASSUME IInv, NEW t \in Tx, PayHandler(t) \/ LosePayment(t)
  PROVE  IInv'
<1>1. CASE PayTransaction(t)
  <2>1. Moves(t, "pay", "sent", "returned")
    BY <1>1 DEF PayTransaction
  <2>2. /\ call[t]["pay"] = "sent"
        /\ call' \in [Tx -> [Op -> CallState]]
        /\ \A s \in Tx, o \in Op :
             call'[s][o] = IF s = t /\ o = "pay" THEN "returned" ELSE call[s][o]
    BY <2>1, MovesEffect DEF IInv
  <2>3. PICK result \in {"nil", "error"} : paid' = [paid EXCEPT ![t] = result]
    BY <1>1 DEF PayTransaction
  <2>4. balance' \in [Account -> Int]
    <3>1. req[t].amount \in Int
      <4>1. req[t].amount \in Amount
        BY DEF IInv
      <4>. QED BY <4>1
    <3>. QED BY <1>1, <3>1 DEF PayTransaction, IInv
  <2>5. TypeOK'
    BY <1>1, <2>2, <2>3, <2>4 DEF PayTransaction, IInv
  <2>6. ASSUME NEW s \in Tx PROVE TxInv(s)'
    BY <1>1, <2>2, <2>3 DEF PayTransaction, IInv
  <2>. QED BY <2>5, <2>6 DEF IInv
<1>2. CASE PayAssignErr(t)
  <2>1. /\ call[t]["pay"] = "returned"
        /\ call' \in [Tx -> [Op -> CallState]]
        /\ \A s \in Tx, o \in Op :
             call'[s][o] = IF s = t /\ o = "pay" THEN "assigned" ELSE call[s][o]
    BY <1>2, MovesEffect DEF PayAssignErr, IInv
  <2>2. TypeOK'
    BY <1>2, <2>1 DEF PayAssignErr, IInv
  <2>3. ASSUME NEW s \in Tx PROVE TxInv(s)'
    BY <1>2, <2>1 DEF PayAssignErr, IInv
  <2>. QED BY <2>2, <2>3 DEF IInv
<1>3. CASE PayRespond(t)
  <2>1. PICK err \in {paid[t]} \cup (IF sharedErr THEN {capturedErr} ELSE {}) :
          Moves(t, "pay", "assigned", IF err = "nil" THEN "ok" ELSE "fail")
    BY <1>3 DEF PayRespond
  <2>2. /\ call[t]["pay"] = "assigned"
        /\ call' \in [Tx -> [Op -> CallState]]
        /\ \A s \in Tx, o \in Op :
             call'[s][o] = IF s = t /\ o = "pay" THEN IF err = "nil" THEN "ok" ELSE "fail"
                                                 ELSE call[s][o]
    BY <2>1, MovesEffect DEF IInv
  <2>3. TypeOK'
    BY <1>3, <2>2 DEF PayRespond, IInv
  <2>4. ASSUME NEW s \in Tx PROVE TxInv(s)'
    BY <1>3, <2>1, <2>2 DEF PayRespond, IInv
  <2>. QED BY <2>3, <2>4 DEF IInv
<1>4. CASE LosePayment(t)
  <2>1. /\ call[t]["pay"] = "sent"
        /\ call' \in [Tx -> [Op -> CallState]]
        /\ \A s \in Tx, o \in Op :
             call'[s][o] = IF s = t /\ o = "pay" THEN "dead" ELSE call[s][o]
    BY <1>4, MovesEffect DEF LosePayment, IInv
  <2>2. TypeOK'
    BY <1>4, <2>1 DEF LosePayment, IInv
  <2>3. ~(faults \subseteq {"db"})
    BY <1>4 DEF LosePayment
  <2>4. ASSUME NEW s \in Tx PROVE TxInv(s)'
    BY <1>4, <2>1, <2>3 DEF LosePayment, IInv
  <2>. QED BY <2>2, <2>4 DEF IInv
<1>. QED BY <1>1, <1>2, <1>3, <1>4 DEF PayHandler

LEMMA CrashKeepsInv ==
  ASSUME IInv, PaymentCrash \/ OrchestratorCrash
  PROVE  IInv'
<1>1. CASE PaymentCrash
  <2>1. \A s \in Tx, o \in Op : call'[s][o] =
          IF o = "pay" /\ call[s]["pay"] \in InService THEN "dead" ELSE call[s][o]
    BY <1>1 DEF PaymentCrash, IInv
  <2>2. call' \in [Tx -> [Op -> CallState]]
    BY <1>1 DEF PaymentCrash, IInv
  <2>3. ~(faults \subseteq {"db"})
    BY <1>1 DEF PaymentCrash
  <2>4. TypeOK'
    BY <1>1, <2>2 DEF PaymentCrash, IInv
  <2>5. ASSUME NEW s \in Tx PROVE TxInv(s)'
    BY <1>1, <2>1, <2>3 DEF PaymentCrash, IInv
  <2>. QED BY <2>4, <2>5 DEF IInv
<1>2. CASE OrchestratorCrash
  BY <1>2 DEF OrchestratorCrash, IInv
<1>. QED BY <1>1, <1>2

\* The orchestrator sends a call.
LEMMA SendsEffect ==
  ASSUME IInv, NEW t \in Tx, NEW from, NEW op \in Op, Sends(t, from, op)
  PROVE  /\ pc[t] = from /\ call[t][op] = "idle"
         /\ TypeOK'
         /\ pc' = [pc EXCEPT ![t] = op]
         /\ \A s \in Tx, o \in Op : call'[s][o] = IF s = t /\ o = op THEN "sent" ELSE call[s][o]
         /\ UNCHANGED <<given, orders, paid>>
<1>1. /\ call[t][op] = "idle"
      /\ call' \in [Tx -> [Op -> CallState]]
      /\ \A s \in Tx, o \in Op : call'[s][o] = IF s = t /\ o = op THEN "sent" ELSE call[s][o]
  BY MovesEffect DEF Sends, IInv
<1>. QED BY <1>1 DEF Sends, IInv

LEMMA SaysKeepsInv ==
  ASSUME IInv, NEW t \in Tx, NEW from,
         NEW answer \in {"notCreated", "successful", "cancelled"}, Says(t, from, answer)
  PROVE  IInv'
  BY DEF Says, IInv

LEMMA OrchestratorKeepsInv ==
  ASSUME IInv, NEW t \in Tx, Orchestrator(t)
  PROVE  IInv'
<1>1. CASE StartCheckout(t)
  <2>1. ASSUME NEW s \in Tx PROVE TxInv(s)'
    BY <1>1, SendsEffect DEF StartCheckout, IInv
  <2>. QED BY <1>1, <2>1, SendsEffect DEF StartCheckout, IInv
<1>2. CASE OrderCreated(t)
  <2>1. /\ call[t]["create"] = "ok"
        /\ Sends(t, "create", "pay")
    BY <1>2 DEF OrderCreated
  <2>2. /\ pc[t] = "create" /\ call[t]["pay"] = "idle"
        /\ TypeOK'
        /\ pc' = [pc EXCEPT ![t] = "pay"]
        /\ \A s \in Tx, o \in Op :
             call'[s][o] = IF s = t /\ o = "pay" THEN "sent" ELSE call[s][o]
        /\ UNCHANGED <<given, orders, paid>>
    BY <2>1, SendsEffect
  <2>3. ASSUME NEW s \in Tx PROVE TxInv(s)'
    BY <2>1, <2>2 DEF IInv
  <2>. QED BY <2>2, <2>3 DEF IInv
<1>3. CASE PaymentDone(t)
  <2>1. /\ call[t]["pay"] = "ok"
        /\ Sends(t, "pay", "confirm")
    BY <1>3 DEF PaymentDone
  <2>2. /\ pc[t] = "pay" /\ call[t]["confirm"] = "idle"
        /\ TypeOK'
        /\ pc' = [pc EXCEPT ![t] = "confirm"]
        /\ \A s \in Tx, o \in Op :
             call'[s][o] = IF s = t /\ o = "confirm" THEN "sent" ELSE call[s][o]
        /\ UNCHANGED <<given, orders, paid>>
    BY <2>1, SendsEffect
  <2>3. ASSUME NEW s \in Tx PROVE TxInv(s)'
    BY <2>1, <2>2 DEF IInv
  <2>. QED BY <2>2, <2>3 DEF IInv
<1>4. CASE PaymentNotDone(t)
  <2>1. faults \subseteq {"db"} => call[t]["pay"] = "fail"
    BY <1>4 DEF PaymentNotDone, Failed, TransportError, IInv
  <2>2. ASSUME NEW s \in Tx PROVE TxInv(s)'
    BY <1>4, <2>1, SendsEffect DEF PaymentNotDone, IInv
  <2>. QED BY <1>4, <2>2, SendsEffect DEF PaymentNotDone, IInv
<1>5. CASE OrderNotCreated(t) \/ ConfirmEnds(t) \/ CancelEnds(t)
  BY <1>5, SaysKeepsInv DEF OrderNotCreated, ConfirmEnds, CancelEnds
<1>. QED BY <1>1, <1>2, <1>3, <1>4, <1>5 DEF Orchestrator

LEMMA IInvStep == IInv /\ [Next]_vars => IInv'
<1>. SUFFICES ASSUME IInv, [Next]_vars PROVE IInv'
  OBVIOUS
<1>1. ASSUME NEW t \in Tx, Orchestrator(t) PROVE IInv'
  BY <1>1, OrchestratorKeepsInv
<1>2. ASSUME NEW t \in Tx, OrderHandler(t) PROVE IInv'
  BY <1>2, OrderHandlerKeepsInv
<1>3. ASSUME NEW t \in Tx, PayHandler(t) \/ LosePayment(t) PROVE IInv'
  BY <1>3, PayKeepsInv
<1>4. CASE PaymentCrash \/ OrchestratorCrash
  BY <1>4, CrashKeepsInv
<1>5. CASE UNCHANGED vars
  BY <1>5 DEF IInv
<1>. QED BY <1>1, <1>2, <1>3, <1>4, <1>5 DEF Next, Finished

LEMMA Invariance == Spec => []IInv
  BY InitIInv, IInvStep, PTL DEF Spec

-----------------------------------------------------------------------------
\* Every value a variable of the saga takes is of its type.
THEOREM TypeCorrect == Spec => []TypeOK
<1>1. IInv => TypeOK
  BY DEF IInv
<1>. QED BY <1>1, Invariance, PTL

\* As long as the payment's answer is its own, no order is confirmed unpaid,
\* whatever is lost, crashes or fails.
THEOREM ConfirmedIsPaidHolds == Spec => []ConfirmedIsPaid
<1>1. IInv => ConfirmedIsPaid
  BY DEF IInv, ConfirmedIsPaid, Paid
<1>. QED BY <1>1, Invariance, PTL

\* While statements fail but connections and processes do not, the compensation
\* never cancels an order that is paid.
THEOREM CompensationIsDueHolds == Spec => []CompensationIsDue
<1>1. IInv => CompensationIsDue
  BY DEF IInv, CompensationIsDue, Paid
<1>. QED BY <1>1, Invariance, PTL
=============================================================================
