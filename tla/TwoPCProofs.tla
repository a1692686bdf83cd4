---------------------------- MODULE TwoPCProofs ----------------------------
(***************************************************************************)
(* What holds of the two-phase commit demo for any number of checkouts,    *)
(* accounts and amounts, under every fault and with the race on err.       *)
(* What the race alone breaks, the refinement of AtomicCheckout, the votes *)
(* and the sum of the locked funds, is proved of services without it.      *)
(*                                                                         *)
(* The argument: the coordinator's goroutine is a straight line, so a      *)
(* /commit and a /rollback of one checkout are never both sent, and        *)
(* neither before the order's /prepare has answered.  A call that was      *)
(* given up and is carried out late can therefore do no harm to a status.  *)
(***************************************************************************)
EXTENDS TwoPCCheckout, TwoPCPaymentClients, FiniteSetTheorems, TLAPS

\* The order was asked to commit, or to roll back.
CommitSent(t)   == orderCall[t]["commit"] # "idle"
RollbackSent(t) == orderCall[t]["rollback"] # "idle"

OneDecision(t) == ~(CommitSent(t) /\ RollbackSent(t))

DecidedAfterPrepare(t) ==
  CommitSent(t) \/ RollbackSent(t) => orderCall[t]["prepare"] = "ok"

\* Where the goroutine stands tells what it has sent.
SentAtPC(t) ==
  /\ pc[t] \in {"init", "prepareOrder", "preparePayment"}
       => ~CommitSent(t) /\ ~RollbackSent(t)
  /\ pc[t] = "preparePayment" => orderCall[t]["prepare"] = "ok"
  /\ pc[t] \in {"commitOrder", "commitPayment"} => CommitSent(t)
  /\ pc[t] = "rollbackOrder" => RollbackSent(t)

\* Every effect was asked for: the order's by its own call, a charge by a call
\* that is sent only after the order's.
EffectsWereSent(t) ==
  /\ orders[t] = "CONFIRMED" => CommitSent(t)
  /\ orders[t] = "CANCELLED" => RollbackSent(t)
  /\ Charged(t) => payCall[t]["commit"] # "idle"
  /\ payCall[t]["commit"] # "idle" => CommitSent(t)
  /\ payCall[t]["rollback"] = "idle"

RepliesAreLast(t) ==
  /\ reply[t] # "none" => pc[t] = "done"
  /\ reply[t] = "rolledBack" => ~CommitSent(t)

TxInv(t) ==
  /\ OneDecision(t)
  /\ DecidedAfterPrepare(t)
  /\ SentAtPC(t)
  /\ EffectsWereSent(t)
  /\ RepliesAreLast(t)

\* A call tells what its service's database has seen, from the moment it is
\* answered: nothing before it is carried out, the status it writes when it is
\* answered with 200, and a result of the transaction once that has ended.
OrderCallsMatch(t) ==
  /\ orderCall[t]["prepare"] \in {"idle", "sent"} => orders[t] = "none"
  /\ orderCall[t]["prepare"] = "ok" => orders[t] # "none"
  /\ orderCall[t]["commit"] = "sent" => orders[t] = "PREPARE_PENDING"
  /\ orderCall[t]["commit"] = "ok" => orders[t] = "CONFIRMED"
  /\ orderCall[t]["rollback"] = "sent" => orders[t] = "PREPARE_PENDING"

PayCallsMatch(t) ==
  \A op \in PayOp :
    /\ payCall[t][op] \in {"idle", "sent"} => payResult[t][op] = "none"
    /\ payCall[t][op] \in {"returned", "assigned", "ok", "fail"}
         => payResult[t][op] # "none"

\* err1 is nil, and a success told, only after answers.
AnswersWereSeen(t) ==
  /\ pc[t] = "commitPayment" /\ ~err1[t] => Answered(orderCall[t]["commit"])
  /\ reply[t] = "successful" => Answered(orderCall[t]["commit"]) /\ Answered(payCall[t]["commit"])

CallInv(t) == OrderCallsMatch(t) /\ PayCallsMatch(t) /\ AnswersWereSeen(t)

\* A handler assigns err only what its transaction has returned.
ReturnedHasResult ==
  \A t \in Tx, op \in PayOp :
    payCall[t][op] = "returned" => payResult[t][op] # "none"

TypeInv == TypeOK /\ ReturnedHasResult

IInv ==
  /\ TypeInv
  /\ \A t \in Tx : TxInv(t) /\ CallInv(t)
  /\ FundsCovered

-----------------------------------------------------------------------------
\* The declarations behind every step below.
USE AccountAssumption, AmountAssumption, FaultsAssumption, Balance0Assumption,
    SharedErrAssumption
USE DEF TypeOK, OrderTypeOK, PayTypeOK, CoordinatorTypeOK, OrderOp, OrderStatus,
        OrderCallState, PayOp, PayCallState, InService, Waiting, Reply, Request,
        orderVars, payVars, coordinatorVars, vars

\* The types of the variables hold at the start: the accounts are seeded, and
\* nothing has been called.
LEMMA InitTypeOK == Init => TypeOK
  BY DEF Init, OrderInit, PayInit

\* A step of the coordinator keeps the types.
LEMMA CoordinatorTypeStep ==
  ASSUME TypeOK, NEW t \in Tx, Coordinator(t) PROVE TypeOK'
<1>. USE DEF Goto, Says, OrderRequest, PayRequest
<1>1. CASE StartCheckout(t) BY <1>1 DEF StartCheckout
<1>2. CASE OrderPrepared(t) BY <1>2 DEF OrderPrepared
<1>3. CASE OrderNotPrepared(t) BY <1>3 DEF OrderNotPrepared
<1>4. CASE PaymentPrepared(t) BY <1>4 DEF PaymentPrepared
<1>5. CASE PaymentNotPrepared(t) BY <1>5 DEF PaymentNotPrepared
<1>6. CASE OrderCommitEnds(t) BY <1>6 DEF OrderCommitEnds
<1>7. CASE PaymentCommitEnds(t) BY <1>7 DEF PaymentCommitEnds
<1>8. CASE OrderRollbackEnds(t) BY <1>8 DEF OrderRollbackEnds
<1>. QED BY <1>1, <1>2, <1>3, <1>4, <1>5, <1>6, <1>7, <1>8 DEF Coordinator

\* What a handler of the order service may do, in one formula.
OrderAct(t, op, answer) ==
  /\ orderCall[t][op] = "sent"
  /\ orderCall' = [orderCall EXCEPT ![t][op] = answer]
  /\ \/ answer # "ok" /\ orders' = orders
     \/ op = "prepare"  /\ orders' = [orders EXCEPT ![t] = "PREPARE_PENDING"]
     \/ op = "commit"   /\ orders' = [orders EXCEPT ![t] = "CONFIRMED"]
     \/ op = "rollback" /\ orders' = [orders EXCEPT ![t] = "CANCELLED"]

LEMMA OrderHandlerEffect ==
  ASSUME TypeOK, NEW t \in Tx, OrderHandler(t)
  PROVE  \E op \in OrderOp, answer \in {"ok", "fail", "dead"} : OrderAct(t, op, answer)
<1>. USE DEF WritesStatus, OrderAnswers, OrderAct
<1>1. CASE OrderPrepare(t) BY <1>1 DEF OrderPrepare
<1>2. CASE OrderCommit(t) BY <1>2 DEF OrderCommit
<1>3. CASE OrderRollback(t) BY <1>3 DEF OrderRollback
<1>. QED BY <1>1, <1>2, <1>3 DEF OrderHandler

\* Updating one call of one checkout keeps a table of calls well typed.
LEMMA TableUpdate ==
  ASSUME NEW S, NEW T, NEW U, NEW f \in [S -> [T -> U]],
         NEW s \in S, NEW x \in T, NEW u \in U
  PROVE  [f EXCEPT ![s][x] = u] \in [S -> [T -> U]]
  OBVIOUS

\* and changes that call only.
LEMMA TableLookup ==
  ASSUME NEW S, NEW T, NEW U, NEW f \in [S -> [T -> U]],
         NEW s \in S, NEW x \in T, NEW u \in U
  PROVE  \A r \in S, y \in T :
           [f EXCEPT ![s][x] = u][r][y] = IF r = s /\ y = x THEN u ELSE f[r][y]
  OBVIOUS

LEMMA OrderTypeStep ==
  ASSUME TypeOK, NEW t \in Tx, OrderHandler(t) PROVE OrderTypeOK'
<1>1. PICK op \in OrderOp, answer \in {"ok", "fail", "dead"} : OrderAct(t, op, answer)
  BY OrderHandlerEffect
<1>2. orderCall' \in [Tx -> [OrderOp -> OrderCallState]]
  BY <1>1, TableUpdate DEF OrderAct
<1>3. orders' \in [Tx -> OrderStatus]
  BY <1>1 DEF OrderAct
<1>. QED BY <1>2, <1>3

LEMMA AmountIsInt ==
  ASSUME TypeOK, NEW t \in Tx
  PROVE  req[t].amount \in Int /\ -req[t].amount \in Int
<1>1. req[t].amount \in Amount
  OBVIOUS
<1>2. req[t].amount \in Int
  BY <1>1
<1>. QED BY <1>2

\* What a transaction of the payment service may do to the accounts: nothing,
\* or adjust the row of its checkout by the amount.
Adjusts(t, db, dl) ==
  /\ req[t].account \in Account
  /\ balance' = Adds(balance, t, db)
  /\ lockedBalance' = Adds(lockedBalance, t, dl)

Transacts(t, op, result) ==
  /\ payCall[t][op] = "sent"
  /\ payCall' = [payCall EXCEPT ![t][op] = "returned"]
  /\ payResult' = [payResult EXCEPT ![t][op] = result]
  /\ result = "error" => UNCHANGED <<balance, lockedBalance>>
  /\ result = "nil" =>
       \/ /\ op = "prepare"
          /\ Available(t) >= req[t].amount
          /\ Adjusts(t, 0, req[t].amount)
       \/ op = "commit" /\ Adjusts(t, -req[t].amount, -req[t].amount)
       \/ op = "rollback" /\ Adjusts(t, 0, -req[t].amount)
  /\ UNCHANGED <<req, capturedErr>>

LEMMA TransactionEffect ==
  ASSUME NEW t \in Tx,
         PrepareTransaction(t) \/ CommitTransaction(t) \/ RollbackTransaction(t)
  PROVE  \E op \in PayOp, result \in {"nil", "error"} : Transacts(t, op, result)
<1>. USE DEF Transaction, Adjusts, Transacts
<1>1. CASE PrepareTransaction(t) BY <1>1 DEF PrepareTransaction
<1>2. CASE CommitTransaction(t) BY <1>2 DEF CommitTransaction
<1>3. CASE RollbackTransaction(t) BY <1>3 DEF RollbackTransaction
<1>. QED BY <1>1, <1>2, <1>3

LEMMA TransactionTypeStep ==
  ASSUME TypeOK, NEW t \in Tx,
         PrepareTransaction(t) \/ CommitTransaction(t) \/ RollbackTransaction(t)
  PROVE  PayTypeOK'
<1>1. PICK op \in PayOp, result \in {"nil", "error"} : Transacts(t, op, result)
  BY TransactionEffect
<1>2. payCall' \in [Tx -> [PayOp -> PayCallState]]
  BY <1>1, TableUpdate DEF Transacts
<1>3. payResult' \in [Tx -> [PayOp -> {"none", "nil", "error"}]]
  BY <1>1, TableUpdate DEF Transacts
<1>4. \/ UNCHANGED <<balance, lockedBalance>>
      \/ \E db \in Int, dl \in Int : Adjusts(t, db, dl)
  BY <1>1, AmountIsInt DEF Transacts
<1>5. balance' \in [Account -> Int] /\ lockedBalance' \in [Account -> Int]
  BY <1>4 DEF Adjusts, Adds
<1>. QED BY <1>1, <1>2, <1>3, <1>5 DEF Transacts

LEMMA PayTypeStep ==
  ASSUME TypeInv, NEW t \in Tx, PayHandler(t) PROVE PayTypeOK'
<1>. USE DEF TypeInv, ReturnedHasResult
<1>1. ASSUME NEW op \in PayOp, AssignErr(t, op) PROVE PayTypeOK'
  <2>1. payCall' \in [Tx -> [PayOp -> PayCallState]]
    BY <1>1, TableUpdate DEF AssignErr
  <2>2. payResult[t][op] \in {"nil", "error"}
    BY <1>1 DEF AssignErr
  <2>. QED BY <1>1, <2>1, <2>2 DEF AssignErr
<1>2. ASSUME NEW op \in PayOp, Respond(t, op) PROVE PayTypeOK'
  <2>1. payCall' \in [Tx -> [PayOp -> PayCallState]]
    BY <1>2, TableUpdate DEF Respond
  <2>. QED BY <1>2, <2>1 DEF Respond
<1>. QED BY <1>1, <1>2, TransactionTypeStep DEF PayHandler

LEMMA PaymentFaultTypeStep ==
  ASSUME TypeOK, PaymentFault PROVE TypeOK'
<1>1. CASE PaymentCrash
  BY <1>1 DEF PaymentFault, PaymentCrash
<1>2. ASSUME NEW t \in Tx, NEW op \in PayOp, LoseRequest(t, op) PROVE TypeOK'
  BY <1>2 DEF PaymentFault, LoseRequest
<1>. QED BY <1>1, <1>2 DEF PaymentFault

\* The whole system keeps the types.
LEMMA TypeStep == TypeInv /\ [Next]_vars => TypeOK'
<1>. SUFFICES ASSUME TypeInv, [Next]_vars PROVE TypeOK'
  OBVIOUS
<1>. USE DEF TypeInv
<1>1. ASSUME NEW t \in Tx, Coordinator(t) PROVE TypeOK'
  BY <1>1, CoordinatorTypeStep
<1>2. ASSUME NEW t \in Tx, OrderService(t) PROVE TypeOK'
  BY <1>2, OrderTypeStep DEF OrderService
<1>3. ASSUME NEW t \in Tx, PaymentService(t) PROVE TypeOK'
  BY <1>3, PayTypeStep DEF PaymentService
<1>4. CASE PaymentFault
  BY <1>4, PaymentFaultTypeStep
<1>5. CASE CoordinatorCrash
  BY <1>5 DEF CoordinatorCrash
<1>6. CASE UNCHANGED vars
  BY <1>6
<1>. QED BY <1>1, <1>2, <1>3, <1>4, <1>5, <1>6 DEF Next, Finished

\* What a step of the payment service does to its calls and results.
PayAct(t, op, state) ==
  /\ payCall[t][op] \in InService
  /\ payCall' = [payCall EXCEPT ![t][op] = state]
  /\ \/ /\ state # "returned" /\ payCall[t][op] # "sent"
        /\ state = "ok" /\ ~SharedErr => payResult[t][op] = "nil"
        /\ payResult' = payResult
     \/ /\ state = "returned" /\ payCall[t][op] = "sent"
        /\ \E result \in {"nil", "error"} :
             payResult' = [payResult EXCEPT ![t][op] = result]

LEMMA PayHandlerEffect ==
  ASSUME NEW t \in Tx, PayHandler(t)
  PROVE  \E op \in PayOp, state \in {"returned", "assigned", "ok", "fail"} :
           PayAct(t, op, state)
<1>1. ASSUME NEW op \in PayOp, AssignErr(t, op) PROVE PayAct(t, op, "assigned")
  BY <1>1 DEF AssignErr, PayAct
<1>2. ASSUME NEW op \in PayOp, Respond(t, op)
      PROVE  PayAct(t, op, "ok") \/ PayAct(t, op, "fail")
  BY <1>2 DEF Respond, SeenErr, PayAct
<1>3. ASSUME NEW op \in PayOp, NEW result \in {"nil", "error"}, Transacts(t, op, result)
      PROVE  PayAct(t, op, "returned")
  BY <1>3 DEF Transacts, PayAct
<1>. QED BY <1>1, <1>2, <1>3, TransactionEffect DEF PayHandler

\* A step of the coordinator sends at most one call to the payment service.
LEMMA CoordinatorPayEffect ==
  ASSUME NEW t \in Tx, Coordinator(t)
  PROVE  /\ payResult' = payResult
         /\ \/ payCall' = payCall
            \/ \E op \in {"prepare", "commit"} :
                 /\ payCall[t][op] = "idle"
                 /\ payCall' = [payCall EXCEPT ![t][op] = "sent"]
  BY DEF Coordinator, StartCheckout, OrderPrepared, OrderNotPrepared,
     PaymentPrepared, PaymentNotPrepared, OrderCommitEnds, PaymentCommitEnds,
     OrderRollbackEnds, PayRequest

\* And one to the order service: it asks it to commit when payment is prepared.
LEMMA CoordinatorOrderEffect ==
  ASSUME NEW t \in Tx, Coordinator(t)
  PROVE  \/ orderCall' = orderCall
         \/ \E op \in OrderOp :
              /\ orderCall' = [orderCall EXCEPT ![t][op] = "sent"]
              /\ op = "commit" => payCall[t]["prepare"] = "ok"
  BY DEF Coordinator, StartCheckout, OrderPrepared, OrderNotPrepared,
     PaymentPrepared, PaymentNotPrepared, OrderCommitEnds, PaymentCommitEnds,
     OrderRollbackEnds, OrderRequest

\* Only a transaction makes a call "returned", and it leaves a result.
LEMMA ResultStep == TypeInv /\ [Next]_vars => ReturnedHasResult'
<1>. SUFFICES ASSUME TypeInv, [Next]_vars,
                     NEW s \in Tx, NEW o \in PayOp, payCall'[s][o] = "returned"
              PROVE  payResult'[s][o] # "none"
  BY DEF ReturnedHasResult
<1>. USE DEF TypeInv, ReturnedHasResult
<1>1. ASSUME NEW t \in Tx, Coordinator(t) PROVE payResult'[s][o] # "none"
  <2>1. ASSUME NEW op \in PayOp, payCall' = [payCall EXCEPT ![t][op] = "sent"]
        PROVE  payCall[s][o] = "returned"
    <3>1. payCall'[s][o] = IF s = t /\ o = op THEN "sent" ELSE payCall[s][o]
      BY <2>1, TableLookup
    <3>. QED BY <3>1
  <2>. QED BY <2>1, <1>1, CoordinatorPayEffect
<1>2. ASSUME NEW t \in Tx, PayHandler(t) PROVE payResult'[s][o] # "none"
  <2>1. PICK op \in PayOp, state \in {"returned", "assigned", "ok", "fail"} :
          PayAct(t, op, state)
    BY <1>2, PayHandlerEffect
  <2>2. payCall'[s][o] = IF s = t /\ o = op THEN state ELSE payCall[s][o]
    BY <2>1, TableLookup DEF PayAct
  <2>3. CASE payResult' = payResult /\ state # "returned"
    BY <2>2, <2>3
  <2>4. ASSUME NEW result \in {"nil", "error"},
               payResult' = [payResult EXCEPT ![t][op] = result]
        PROVE  payResult'[s][o] # "none"
    <3>1. payResult'[s][o] = IF s = t /\ o = op THEN result ELSE payResult[s][o]
      BY <2>4, TableLookup
    <3>. QED BY <2>2, <3>1
  <2>. QED BY <2>1, <2>3, <2>4 DEF PayAct
<1>3. CASE PaymentFault
  <2>1. CASE PaymentCrash
    BY <2>1 DEF PaymentCrash
  <2>2. ASSUME NEW t \in Tx, NEW op \in PayOp, LoseRequest(t, op)
        PROVE  payResult'[s][o] # "none"
    <3>1. payCall'[s][o] = IF s = t /\ o = op THEN "dead" ELSE payCall[s][o]
      BY <2>2, TableLookup DEF LoseRequest
    <3>. QED BY <2>2, <3>1 DEF LoseRequest
  <2>. QED BY <1>3, <2>1, <2>2 DEF PaymentFault
<1>4. CASE UNCHANGED payVars
  BY <1>4
<1>. QED BY <1>1, <1>2, <1>3, <1>4
         DEF Next, Finished, OrderService, PaymentService, CoordinatorCrash

\* Every value a variable of the demo takes is of its type.
THEOREM TypeCorrect == Spec => []TypeOK
<1>1. Init => TypeInv
  BY InitTypeOK DEF TypeInv, ReturnedHasResult, Init, PayInit
<1>2. TypeInv /\ [Next]_vars => TypeInv'
  BY TypeStep, ResultStep DEF TypeInv
<1>3. TypeInv => TypeOK
  BY DEF TypeInv
<1>. QED BY <1>1, <1>2, <1>3, PTL DEF Spec

-----------------------------------------------------------------------------
LEMMA InitIInv == Init => IInv
  BY InitTypeOK DEF IInv, TypeInv, ReturnedHasResult, Init, OrderInit, PayInit,
     TxInv, CommitSent, RollbackSent, OneDecision, DecidedAfterPrepare, SentAtPC,
     EffectsWereSent, RepliesAreLast, Charged, FundsCovered,
     CallInv, OrderCallsMatch, PayCallsMatch, AnswersWereSeen

\* A step of the coordinator: every case says what it sends, and to whom.
LEMMA CoordinatorTxStep ==
  ASSUME TypeOK, \A t \in Tx : TxInv(t),
         NEW t \in Tx, Coordinator(t), NEW s \in Tx
  PROVE  TxInv(s)'
<1>. USE DEF TxInv, CommitSent, RollbackSent, OneDecision, DecidedAfterPrepare,
             SentAtPC, EffectsWereSent, RepliesAreLast, Charged, Goto, Says
<1>1. CASE StartCheckout(t)
  <2>1. \A op \in OrderOp : orderCall'[s][op] =
          IF s = t /\ op = "prepare" THEN "sent" ELSE orderCall[s][op]
    BY <1>1, TableLookup DEF StartCheckout, OrderRequest
  <2>. QED BY <1>1, <2>1 DEF StartCheckout
<1>2. CASE OrderPrepared(t)
  <2>1. \A op \in PayOp : payCall'[s][op] =
          IF s = t /\ op = "prepare" THEN "sent" ELSE payCall[s][op]
    BY <1>2, TableLookup DEF OrderPrepared, PayRequest
  <2>. QED BY <1>2, <2>1 DEF OrderPrepared
<1>3. CASE OrderNotPrepared(t)
  BY <1>3 DEF OrderNotPrepared
<1>4. CASE PaymentPrepared(t)
  <2>1. \A op \in OrderOp : orderCall'[s][op] =
          IF s = t /\ op = "commit" THEN "sent" ELSE orderCall[s][op]
    BY <1>4, TableLookup DEF PaymentPrepared, OrderRequest
  <2>. QED BY <1>4, <2>1 DEF PaymentPrepared
<1>5. CASE PaymentNotPrepared(t)
  <2>1. \A op \in OrderOp : orderCall'[s][op] =
          IF s = t /\ op = "rollback" THEN "sent" ELSE orderCall[s][op]
    BY <1>5, TableLookup DEF PaymentNotPrepared, OrderRequest
  <2>. QED BY <1>5, <2>1 DEF PaymentNotPrepared
<1>6. CASE OrderCommitEnds(t)
  <2>1. \A op \in PayOp : payCall'[s][op] =
          IF s = t /\ op = "commit" THEN "sent" ELSE payCall[s][op]
    BY <1>6, TableLookup DEF OrderCommitEnds, PayRequest
  <2>. QED BY <1>6, <2>1 DEF OrderCommitEnds
<1>7. CASE PaymentCommitEnds(t)
  BY <1>7 DEF PaymentCommitEnds
<1>8. CASE OrderRollbackEnds(t)
  BY <1>8 DEF OrderRollbackEnds
<1>. QED BY <1>1, <1>2, <1>3, <1>4, <1>5, <1>6, <1>7, <1>8 DEF Coordinator

\* A handler of the order service, called late or not, writes what the
\* coordinator has decided.
LEMMA OrderTxStep ==
  ASSUME TypeOK, \A t \in Tx : TxInv(t),
         NEW t \in Tx, OrderService(t), NEW s \in Tx
  PROVE  TxInv(s)'
<1>. USE DEF TxInv, CommitSent, RollbackSent, OneDecision, DecidedAfterPrepare,
             SentAtPC, EffectsWereSent, RepliesAreLast, Charged
<1>1. PICK op \in OrderOp, answer \in {"ok", "fail", "dead"} : OrderAct(t, op, answer)
  BY OrderHandlerEffect DEF OrderService
<1>2. \A o \in OrderOp : orderCall'[s][o] =
        IF s = t /\ o = op THEN answer ELSE orderCall[s][o]
  BY <1>1, TableLookup DEF OrderAct
<1>3. s = t /\ op = "prepare" => ~CommitSent(s) /\ ~RollbackSent(s)
  BY <1>1 DEF OrderAct
<1>4. UNCHANGED <<payVars, coordinatorVars>>
  BY DEF OrderService
<1>. QED BY <1>1, <1>2, <1>3, <1>4 DEF OrderAct

LEMMA PaymentTxStep ==
  ASSUME TypeOK, \A t \in Tx : TxInv(t),
         NEW t \in Tx, PaymentService(t), NEW s \in Tx
  PROVE  TxInv(s)'
<1>. USE DEF TxInv, CommitSent, RollbackSent, OneDecision, DecidedAfterPrepare,
             SentAtPC, EffectsWereSent, RepliesAreLast, Charged
<1>1. PICK op \in PayOp, state \in {"returned", "assigned", "ok", "fail"} :
        PayAct(t, op, state)
  BY PayHandlerEffect DEF PaymentService
<1>2. \A o \in PayOp : payCall'[s][o] =
        IF s = t /\ o = op THEN state ELSE payCall[s][o]
  BY <1>1, TableLookup DEF PayAct
<1>3. payResult'[s]["commit"] # payResult[s]["commit"] => s = t /\ op = "commit"
  <2>1. ASSUME NEW result \in {"nil", "error"},
               payResult' = [payResult EXCEPT ![t][op] = result]
        PROVE  payResult'[s]["commit"] =
                 IF s = t /\ "commit" = op THEN result ELSE payResult[s]["commit"]
    BY <2>1, TableLookup
  <2>. QED BY <1>1, <2>1 DEF PayAct
<1>4. UNCHANGED <<orderVars, coordinatorVars>>
  BY DEF PaymentService
<1>. QED BY <1>1, <1>2, <1>3, <1>4 DEF PayAct

LEMMA PaymentFaultTxStep ==
  ASSUME TypeOK, \A t \in Tx : TxInv(t), PaymentFault, NEW s \in Tx
  PROVE  TxInv(s)'
<1>. USE DEF TxInv, CommitSent, RollbackSent, OneDecision, DecidedAfterPrepare,
             SentAtPC, EffectsWereSent, RepliesAreLast, Charged
<1>1. CASE PaymentCrash
  BY <1>1 DEF PaymentFault, PaymentCrash
<1>2. ASSUME NEW t \in Tx, NEW op \in PayOp, LoseRequest(t, op) PROVE TxInv(s)'
  <2>1. \A o \in PayOp : payCall'[s][o] =
          IF s = t /\ o = op THEN "dead" ELSE payCall[s][o]
    BY <1>2, TableLookup DEF LoseRequest
  <2>. QED BY <1>2, <2>1 DEF PaymentFault, LoseRequest
<1>. QED BY <1>1, <1>2 DEF PaymentFault

LEMMA TxStep ==
  ASSUME IInv, [Next]_vars, NEW s \in Tx PROVE TxInv(s)'
<1>. USE DEF IInv, TypeInv
<1>1. ASSUME NEW t \in Tx, Coordinator(t) PROVE TxInv(s)'
  BY <1>1, CoordinatorTxStep
<1>2. ASSUME NEW t \in Tx, OrderService(t) PROVE TxInv(s)'
  BY <1>2, OrderTxStep
<1>3. ASSUME NEW t \in Tx, PaymentService(t) PROVE TxInv(s)'
  BY <1>3, PaymentTxStep
<1>4. CASE PaymentFault
  BY <1>4, PaymentFaultTxStep
<1>5. CASE CoordinatorCrash
  BY <1>5 DEF CoordinatorCrash, TxInv, CommitSent, RollbackSent, OneDecision,
     DecidedAfterPrepare, SentAtPC, EffectsWereSent, RepliesAreLast, Charged
<1>6. CASE UNCHANGED vars
  BY <1>6 DEF TxInv, CommitSent, RollbackSent, OneDecision,
     DecidedAfterPrepare, SentAtPC, EffectsWereSent, RepliesAreLast, Charged
<1>. QED BY <1>1, <1>2, <1>3, <1>4, <1>5, <1>6 DEF Next, Finished

\* Prepare adds to the locked part only what is available, and commit takes the
\* same amount from both columns: reserved or not, the difference stays.
LEMMA TransactionKeepsFundsCovered ==
  ASSUME TypeOK, FundsCovered, \A t \in Tx : TxInv(t), NEW t \in Tx,
         PrepareTransaction(t) \/ CommitTransaction(t) \/ RollbackTransaction(t)
  PROVE  FundsCovered'
<1>1. PICK op \in PayOp, result \in {"nil", "error"} : Transacts(t, op, result)
  BY TransactionEffect
<1>2. op # "rollback"
  BY <1>1 DEF Transacts, TxInv, EffectsWereSent
<1>. DEFINE a == req[t].account
            n == req[t].amount
<1>3. n \in Int /\ -n \in Int
  BY AmountIsInt
<1>4. CASE result = "error"
  BY <1>1, <1>4 DEF Transacts, FundsCovered
<1>5. CASE result = "nil" /\ op = "prepare"
  <2>1. /\ balance' = [balance EXCEPT ![a] = balance[a] + 0]
        /\ lockedBalance' = [lockedBalance EXCEPT ![a] = lockedBalance[a] + n]
        /\ balance[a] - lockedBalance[a] >= n
        /\ a \in Account
    BY <1>1, <1>5 DEF Transacts, Adjusts, Adds, Available
  <2>2. \A b \in Account : balance'[b] = balance[b]
    BY <2>1
  <2>. QED BY <2>1, <2>2, <1>3 DEF FundsCovered
<1>6. CASE result = "nil" /\ op = "commit"
  <2>1. /\ balance' = [balance EXCEPT ![a] = balance[a] + -n]
        /\ lockedBalance' = [lockedBalance EXCEPT ![a] = lockedBalance[a] + -n]
        /\ a \in Account
    BY <1>1, <1>6 DEF Transacts, Adjusts, Adds
  <2>. QED BY <2>1, <1>3 DEF FundsCovered
<1>. QED BY <1>2, <1>4, <1>5, <1>6

LEMMA FundsStep == IInv /\ [Next]_vars => FundsCovered'
<1>. SUFFICES ASSUME IInv, [Next]_vars PROVE FundsCovered'
  OBVIOUS
<1>. USE DEF IInv, TypeInv
<1>1. CASE UNCHANGED <<balance, lockedBalance>>
  BY <1>1 DEF FundsCovered
<1>2. ASSUME NEW t \in Tx,
             PrepareTransaction(t) \/ CommitTransaction(t) \/ RollbackTransaction(t)
      PROVE  FundsCovered'
  BY <1>2, TransactionKeepsFundsCovered
<1>3. ASSUME NEW t \in Tx, Coordinator(t) PROVE UNCHANGED <<balance, lockedBalance>>
  BY <1>3 DEF Coordinator, StartCheckout, OrderPrepared, OrderNotPrepared,
     PaymentPrepared, PaymentNotPrepared, OrderCommitEnds, PaymentCommitEnds,
     OrderRollbackEnds
<1>4. ASSUME NEW t \in Tx, NEW op \in PayOp,
             AssignErr(t, op) \/ Respond(t, op) \/ LoseRequest(t, op)
      PROVE  UNCHANGED <<balance, lockedBalance>>
  BY <1>4 DEF AssignErr, Respond, LoseRequest
<1>. QED BY <1>1, <1>2, <1>3, <1>4 DEF Next, Finished, OrderService, PaymentService,
         PayHandler, PaymentFault, PaymentCrash, CoordinatorCrash

-----------------------------------------------------------------------------
\* What was sent is carried out once, so that an answer stays true.
LEMMA CoordinatorCallStep ==
  ASSUME TypeOK, \A t \in Tx : TxInv(t) /\ CallInv(t),
         NEW t \in Tx, Coordinator(t), NEW s \in Tx
  PROVE  CallInv(s)'
<1>. USE DEF CallInv, OrderCallsMatch, PayCallsMatch, AnswersWereSeen, Answered, Goto, Says
<1>. TxInv(s) /\ CallInv(s)
  OBVIOUS
<1>1. CASE StartCheckout(t)
  <2>1. \A op \in OrderOp : orderCall'[s][op] =
          IF s = t /\ op = "prepare" THEN "sent" ELSE orderCall[s][op]
    BY <1>1, TableLookup DEF StartCheckout, OrderRequest
  <2>. QED BY <1>1, <2>1 DEF StartCheckout, OrderRequest
<1>2. CASE OrderPrepared(t)
  <2>1. \A op \in PayOp : payCall'[s][op] =
          IF s = t /\ op = "prepare" THEN "sent" ELSE payCall[s][op]
    BY <1>2, TableLookup DEF OrderPrepared, PayRequest
  <2>. QED BY <1>2, <2>1 DEF OrderPrepared, PayRequest
<1>3. CASE OrderNotPrepared(t)
  BY <1>3 DEF OrderNotPrepared
<1>4. CASE PaymentPrepared(t)
  <2>1. \A op \in OrderOp : orderCall'[s][op] =
          IF s = t /\ op = "commit" THEN "sent" ELSE orderCall[s][op]
    BY <1>4, TableLookup DEF PaymentPrepared, OrderRequest
  <2>2. s = t => orders[s] = "PREPARE_PENDING"
    BY <1>4 DEF PaymentPrepared, TxInv, SentAtPC, EffectsWereSent
  <2>3. reply[s] = "successful" => s # t
    BY <1>4 DEF PaymentPrepared, TxInv, RepliesAreLast
  <2>. QED BY <1>4, <2>1, <2>2, <2>3 DEF PaymentPrepared
<1>5. CASE PaymentNotPrepared(t)
  <2>1. \A op \in OrderOp : orderCall'[s][op] =
          IF s = t /\ op = "rollback" THEN "sent" ELSE orderCall[s][op]
    BY <1>5, TableLookup DEF PaymentNotPrepared, OrderRequest
  <2>2. s = t => orders[s] = "PREPARE_PENDING"
    BY <1>5 DEF PaymentNotPrepared, TxInv, SentAtPC, EffectsWereSent
  <2>. QED BY <1>5, <2>1, <2>2 DEF PaymentNotPrepared
<1>6. CASE OrderCommitEnds(t)
  <2>1. \A op \in PayOp : payCall'[s][op] =
          IF s = t /\ op = "commit" THEN "sent" ELSE payCall[s][op]
    BY <1>6, TableLookup DEF OrderCommitEnds, PayRequest
  <2>2. reply[s] = "successful" => s # t
    BY <1>6 DEF OrderCommitEnds, TxInv, RepliesAreLast
  <2>. QED BY <1>6, <2>1, <2>2 DEF OrderCommitEnds, PayRequest
<1>7. CASE PaymentCommitEnds(t)
  BY <1>7 DEF PaymentCommitEnds
<1>8. CASE OrderRollbackEnds(t)
  BY <1>8 DEF OrderRollbackEnds
<1>. QED BY <1>1, <1>2, <1>3, <1>4, <1>5, <1>6, <1>7, <1>8 DEF Coordinator

LEMMA OrderCallStep ==
  ASSUME TypeOK, \A t \in Tx : TxInv(t) /\ CallInv(t),
         NEW t \in Tx, OrderService(t), NEW s \in Tx
  PROVE  CallInv(s)'
<1>. USE DEF CallInv, OrderCallsMatch, PayCallsMatch, AnswersWereSeen, Answered
<1>. TxInv(s) /\ CallInv(s)
  OBVIOUS
<1>1. PICK op \in OrderOp, answer \in {"ok", "fail", "dead"} : OrderAct(t, op, answer)
  BY OrderHandlerEffect DEF OrderService
<1>2. \A o \in OrderOp : orderCall'[s][o] =
        IF s = t /\ o = op THEN answer ELSE orderCall[s][o]
  BY <1>1, TableLookup DEF OrderAct
<1>3. UNCHANGED <<payVars, coordinatorVars>>
  BY DEF OrderService
<1>4. PayCallsMatch(s)' /\ AnswersWereSeen(s)'
  BY <1>1, <1>2, <1>3 DEF OrderAct
<1>5. OrderCallsMatch(s)'
  <2>1. CASE s # t
    BY <1>1, <1>2, <2>1 DEF OrderAct
  <2>2. CASE s = t
    BY <1>1, <1>2, <2>2 DEF OrderAct, TxInv, OneDecision, DecidedAfterPrepare,
       CommitSent, RollbackSent
  <2>. QED BY <2>1, <2>2
<1>. QED BY <1>4, <1>5

LEMMA PaymentCallStep ==
  ASSUME TypeOK, \A t \in Tx : CallInv(t),
         NEW t \in Tx, PaymentService(t), NEW s \in Tx
  PROVE  CallInv(s)'
<1>. USE DEF CallInv, OrderCallsMatch, PayCallsMatch, AnswersWereSeen, Answered
<1>. CallInv(s)
  OBVIOUS
<1>1. PICK op \in PayOp, state \in {"returned", "assigned", "ok", "fail"} :
        PayAct(t, op, state)
  BY PayHandlerEffect DEF PaymentService
<1>2. \A o \in PayOp : payCall'[s][o] =
        IF s = t /\ o = op THEN state ELSE payCall[s][o]
  BY <1>1, TableLookup DEF PayAct
<1>3. UNCHANGED <<orderVars, coordinatorVars>>
  BY DEF PaymentService
<1>4. OrderCallsMatch(s)' /\ AnswersWereSeen(s)'
  BY <1>1, <1>2, <1>3 DEF PayAct
<1>5. PayCallsMatch(s)'
  <2>1. CASE payResult' = payResult /\ payCall[t][op] # "sent"
    BY <1>1, <1>2, <2>1 DEF PayAct
  <2>2. ASSUME NEW result \in {"nil", "error"}, state = "returned",
               payResult' = [payResult EXCEPT ![t][op] = result]
        PROVE  PayCallsMatch(s)'
    <3>1. \A o \in PayOp : payResult'[s][o] =
            IF s = t /\ o = op THEN result ELSE payResult[s][o]
      BY <2>2, TableLookup
    <3>. QED BY <1>2, <2>2, <3>1
  <2>. QED BY <1>1, <2>1, <2>2 DEF PayAct
<1>. QED BY <1>4, <1>5

LEMMA PaymentFaultCallStep ==
  ASSUME TypeOK, \A t \in Tx : CallInv(t), PaymentFault, NEW s \in Tx
  PROVE  CallInv(s)'
<1>. USE DEF CallInv, OrderCallsMatch, PayCallsMatch, AnswersWereSeen, Answered
<1>1. CASE PaymentCrash
  BY <1>1 DEF PaymentFault, PaymentCrash
<1>2. ASSUME NEW t \in Tx, NEW op \in PayOp, LoseRequest(t, op) PROVE CallInv(s)'
  <2>1. \A o \in PayOp : payCall'[s][o] =
          IF s = t /\ o = op THEN "dead" ELSE payCall[s][o]
    BY <1>2, TableLookup DEF LoseRequest
  <2>. QED BY <1>2, <2>1 DEF PaymentFault, LoseRequest
<1>. QED BY <1>1, <1>2 DEF PaymentFault

LEMMA CallStep ==
  ASSUME IInv, [Next]_vars, NEW s \in Tx PROVE CallInv(s)'
<1>. USE DEF IInv, TypeInv
<1>1. ASSUME NEW t \in Tx, Coordinator(t) PROVE CallInv(s)'
  BY <1>1, CoordinatorCallStep
<1>2. ASSUME NEW t \in Tx, OrderService(t) PROVE CallInv(s)'
  BY <1>2, OrderCallStep
<1>3. ASSUME NEW t \in Tx, PaymentService(t) PROVE CallInv(s)'
  BY <1>3, PaymentCallStep
<1>4. CASE PaymentFault
  BY <1>4, PaymentFaultCallStep
<1>5. CASE CoordinatorCrash
  BY <1>5 DEF CoordinatorCrash, CallInv, OrderCallsMatch, PayCallsMatch,
     AnswersWereSeen, Answered
<1>6. CASE UNCHANGED vars
  BY <1>6 DEF CallInv, OrderCallsMatch, PayCallsMatch, AnswersWereSeen, Answered
<1>. QED BY <1>1, <1>2, <1>3, <1>4, <1>5, <1>6 DEF Next, Finished

LEMMA IInvStep == IInv /\ [Next]_vars => IInv'
  BY TypeStep, ResultStep, TxStep, CallStep, FundsStep DEF IInv, TypeInv

LEMMA Invariance == Spec => []IInv
  BY InitIInv, IInvStep, PTL DEF Spec

-----------------------------------------------------------------------------
\* No checkout is cancelled by the order service and charged by the payment
\* service: both effects were asked for, and only one of them can have been.
THEOREM AgreementHolds == Spec => []Agreement
<1>1. IInv => Agreement
  BY DEF IInv, TxInv, OneDecision, EffectsWereSent, CommitSent, RollbackSent,
     Agreement
<1>. QED BY <1>1, Invariance, PTL

\* A client told "checkout failed and rolled back" is never charged and its
\* order never confirmed, however late a lost call arrives.
THEOREM RolledBackHolds == Spec => []RolledBackIsNotCommitted
<1>1. IInv => RolledBackIsNotCommitted
  BY DEF IInv, TxInv, EffectsWereSent, RepliesAreLast, RolledBackIsNotCommitted
<1>. QED BY <1>1, Invariance, PTL

\* The locked part of every account is covered by its balance.
THEOREM FundsCoveredHolds == Spec => []FundsCovered
<1>1. IInv => FundsCovered
  BY DEF IInv
<1>. QED BY <1>1, Invariance, PTL

\* After "checkout successful" a commit has been carried out, or its service has
\* failed to and answered with an error status: every other way for it to fail makes
\* err1 or err2.  Of the prepares nothing is said.
THEOREM SuccessIsEarnedHolds == Spec => []SuccessIsEarned
<1>1. IInv => SuccessIsEarned
  BY DEF IInv, TypeInv, CallInv, OrderCallsMatch, PayCallsMatch, AnswersWereSeen, Answered,
     SuccessIsEarned, Charged
<1>. QED BY <1>1, Invariance, PTL

\* CONFIRMED and CANCELLED are final: the only handler still to run for the
\* checkout, if any, is the one that wrote the status.
THEOREM OrderIsFinalHolds == Spec => OrderIsFinal
<1>. DEFINE Final == \A t \in Tx : orders[t] \in {"CONFIRMED", "CANCELLED"}
                                   => orders'[t] = orders[t]
<1>1. IInv /\ [Next]_vars => [Final]_vars
  <2>. SUFFICES ASSUME IInv, [Next]_vars, NEW s \in Tx,
                       orders[s] \in {"CONFIRMED", "CANCELLED"}
                PROVE  orders'[s] = orders[s]
    OBVIOUS
  <2>1. CASE UNCHANGED orders
    BY <2>1
  <2>2. ASSUME NEW t \in Tx, OrderHandler(t) PROVE orders'[s] = orders[s]
    <3>1. PICK op \in OrderOp, answer \in {"ok", "fail", "dead"} :
            OrderAct(t, op, answer)
      BY <2>2, OrderHandlerEffect DEF IInv, TypeInv
    <3>2. TxInv(s) /\ TypeOK
      BY DEF IInv, TypeInv
    <3>. QED BY <3>1, <3>2 DEF OrderAct, TxInv, OneDecision, DecidedAfterPrepare,
             EffectsWereSent, CommitSent, RollbackSent
  <2>3. ASSUME NEW t \in Tx, Coordinator(t) PROVE UNCHANGED orders
    BY <2>3 DEF Coordinator, StartCheckout, OrderPrepared, OrderNotPrepared,
       PaymentPrepared, PaymentNotPrepared, OrderCommitEnds, PaymentCommitEnds,
       OrderRollbackEnds
  <2>. QED BY <2>1, <2>2, <2>3 DEF Next, Finished, OrderService, PaymentService,
           PaymentFault, CoordinatorCrash
<1>. QED BY <1>1, Invariance, PTL DEF Spec, OrderIsFinal

-----------------------------------------------------------------------------
(***************************************************************************)
(* The refinement of AtomicCheckout, when each handler tests its own       *)
(* result.  The coordinator's knowledge is then true: an order is asked to *)
(* commit only when the funds are reserved.                                *)
(***************************************************************************)
VotesAreTrue(t) ==
  /\ payCall[t]["prepare"] = "ok" => Reserved(t)
  /\ CommitSent(t) => Reserved(t)

AtomicInv == IInv /\ \A t \in Tx : VotesAreTrue(t)

LEMMA InitAtomicInv == Init => AtomicInv
  BY InitIInv DEF AtomicInv, VotesAreTrue, CommitSent, Init, OrderInit, PayInit

\* A vote that has been cast is not taken back, and the coordinator does not
\* take for a yes what was none.
LEMMA VotesStep ==
  ASSUME ~SharedErr, AtomicInv, [Next]_vars, NEW s \in Tx PROVE VotesAreTrue(s)'
<1>. USE DEF VotesAreTrue, CommitSent, Reserved
<1>. TypeOK /\ TxInv(s) /\ CallInv(s) /\ VotesAreTrue(s)
  BY DEF AtomicInv, IInv, TypeInv
<1>1. ASSUME NEW t \in Tx, Coordinator(t) PROVE VotesAreTrue(s)'
  <2>1. payResult' = payResult
    BY <1>1, CoordinatorPayEffect
  <2>2. payCall'[s]["prepare"] = "ok" => payCall[s]["prepare"] = "ok"
    <3>1. ASSUME NEW op \in {"prepare", "commit"}, payCall' = [payCall EXCEPT ![t][op] = "sent"]
          PROVE  payCall'[s]["prepare"] =
                   IF s = t /\ "prepare" = op THEN "sent" ELSE payCall[s]["prepare"]
      BY <3>1, TableLookup
    <3>. QED BY <1>1, <3>1, CoordinatorPayEffect
  <2>3. CommitSent(s)' => CommitSent(s) \/ payCall[s]["prepare"] = "ok"
    <3>1. ASSUME NEW op \in OrderOp, orderCall' = [orderCall EXCEPT ![t][op] = "sent"]
          PROVE  orderCall'[s]["commit"] =
                   IF s = t /\ "commit" = op THEN "sent" ELSE orderCall[s]["commit"]
      BY <3>1, TableLookup
    <3>. QED BY <1>1, <3>1, CoordinatorOrderEffect
  <2>. QED BY <2>1, <2>2, <2>3
<1>2. ASSUME NEW t \in Tx, OrderService(t) PROVE VotesAreTrue(s)'
  <2>1. PICK op \in OrderOp, answer \in {"ok", "fail", "dead"} : OrderAct(t, op, answer)
    BY <1>2, OrderHandlerEffect DEF OrderService
  <2>2. \A o \in OrderOp : orderCall'[s][o] =
          IF s = t /\ o = op THEN answer ELSE orderCall[s][o]
    BY <2>1, TableLookup DEF OrderAct
  <2>. QED BY <1>2, <2>1, <2>2 DEF OrderAct, OrderService
<1>3. ASSUME NEW t \in Tx, PaymentService(t) PROVE VotesAreTrue(s)'
  <2>1. PICK op \in PayOp, state \in {"returned", "assigned", "ok", "fail"} :
          PayAct(t, op, state)
    BY <1>3, PayHandlerEffect DEF PaymentService
  <2>2. \A o \in PayOp : payCall'[s][o] =
          IF s = t /\ o = op THEN state ELSE payCall[s][o]
    BY <2>1, TableLookup DEF PayAct
  <2>3. orderCall' = orderCall
    BY <1>3 DEF PaymentService
  <2>4. CASE /\ payResult' = payResult
             /\ state = "ok" => payResult[t][op] = "nil"
    BY <2>2, <2>3, <2>4
  <2>5. ASSUME NEW result \in {"nil", "error"}, state = "returned",
               payCall[t][op] = "sent",
               payResult' = [payResult EXCEPT ![t][op] = result]
        PROVE  VotesAreTrue(s)'
    <3>1. payResult'[s]["prepare"] =
            IF s = t /\ "prepare" = op THEN result ELSE payResult[s]["prepare"]
      BY <2>5, TableLookup
    <3>2. s = t /\ op = "prepare" => payResult[s]["prepare"] = "none"
      BY <2>5 DEF CallInv, PayCallsMatch
    <3>. QED BY <2>2, <2>3, <2>5, <3>1, <3>2
  <2>. QED BY <2>1, <2>4, <2>5 DEF PayAct
<1>4. CASE PaymentFault
  <2>1. CASE PaymentCrash
    BY <1>4, <2>1 DEF PaymentFault, PaymentCrash
  <2>2. ASSUME NEW t \in Tx, NEW op \in PayOp, LoseRequest(t, op) PROVE VotesAreTrue(s)'
    <3>1. payCall'[s]["prepare"] =
            IF s = t /\ "prepare" = op THEN "dead" ELSE payCall[s]["prepare"]
      BY <2>2, TableLookup DEF LoseRequest
    <3>. QED BY <1>4, <2>2, <3>1 DEF PaymentFault, LoseRequest
  <2>. QED BY <1>4, <2>1, <2>2 DEF PaymentFault
<1>5. CASE CoordinatorCrash
  BY <1>5 DEF CoordinatorCrash
<1>6. CASE UNCHANGED vars
  BY <1>6
<1>. QED BY <1>1, <1>2, <1>3, <1>4, <1>5, <1>6 DEF Next, Finished

LEMMA VotesInvariance == ~SharedErr => (Spec => []AtomicInv)
<1>. SUFFICES ASSUME ~SharedErr PROVE Spec => []AtomicInv
  OBVIOUS
<1>1. AtomicInv /\ [Next]_vars => AtomicInv'
  BY IInvStep, VotesStep DEF AtomicInv
<1>. QED BY <1>1, InitAtomicInv, PTL DEF Spec

Both == {"order", "payment"}

\* A table that differs from another in one entry.
LEMMA TableChange ==
  ASSUME NEW S, NEW T, NEW U, NEW f \in [S -> [T -> U]], NEW g \in [S -> [T -> U]],
         NEW s \in S, NEW x \in T,
         \A r \in S, y \in T : r # s \/ y # x => g[r][y] = f[r][y]
  PROVE  g = [f EXCEPT ![s][x] = g[s][x]]
<1>1. \A r \in S : f[r] \in [T -> U] /\ g[r] \in [T -> U]
  OBVIOUS
<1>2. \A r \in S \ {s} : g[r] = f[r]
  BY <1>1
<1>3. g[s] = [f[s] EXCEPT ![x] = g[s][x]]
  BY <1>1
<1>. QED BY <1>2, <1>3

\* The mapping, participant by participant.
LEMMA MappedState ==
  \A t \in Tx : /\ atomicState[t]["order"] = OrderState[orders[t]]
               /\ atomicState[t]["payment"] = PaymentState(t)
  BY DEF atomicState

LEMMA MappedType == TypeOK => atomicState \in [Tx -> [Both -> Atomic!ParticipantState]]
<1>. SUFFICES ASSUME TypeOK, NEW t \in Tx
              PROVE  /\ OrderState[orders[t]] \in Atomic!ParticipantState
                     /\ PaymentState(t) \in Atomic!ParticipantState
  BY DEF atomicState, Both
<1>1. OrderState[orders[t]] \in Atomic!ParticipantState
  BY DEF OrderState, Atomic!ParticipantState
<1>2. PaymentState(t) \in Atomic!ParticipantState
  <2>1. payResult[t]["prepare"] \in {"none", "nil", "error"}
    OBVIOUS
  <2>. QED BY <2>1 DEF PaymentState, Reserved, Atomic!ParticipantState
<1>. QED BY <1>1, <1>2

LEMMA MappedTypeNext == (TypeOK => atomicState \in [Tx -> [Both -> Atomic!ParticipantState]])'
  BY MappedType, PTL

\* A status that is written is a move of the order service,
LEMMA OrderMoves ==
  ASSUME TypeOK, TypeOK', NEW t \in Tx,
         \A s \in Tx \ {t} : orders'[s] = orders[s], payResult' = payResult
  PROVE  Atomic!Moves(t, "order", OrderState[orders'[t]])
<1>1. atomicState \in [Tx -> [Both -> Atomic!ParticipantState]]
  BY MappedType
<1>2. atomicState' \in [Tx -> [Both -> Atomic!ParticipantState]]
  BY MappedTypeNext
<1>3. \A s \in Tx : PaymentState(s)' = PaymentState(s)
  BY DEF PaymentState, Charged, Reserved
<1>4. \A s \in Tx, p \in Both : s # t \/ p # "order" => atomicState'[s][p] = atomicState[s][p]
  BY <1>3 DEF atomicState, Both
<1>5. atomicState' = [atomicState EXCEPT ![t]["order"] = atomicState'[t]["order"]]
  <2>. "order" \in Both
    BY DEF Both
  <2>. QED BY <1>1, <1>2, <1>4, TableChange
<1>6. atomicState'[t]["order"] = OrderState[orders'[t]]
  BY DEF atomicState
<1>. QED BY <1>5, <1>6 DEF Atomic!Moves

\* and a transaction's result one of the payment service.
LEMMA PaymentMoves ==
  ASSUME NEW t \in Tx, orders' = orders,
         \A s \in Tx \ {t} : payResult'[s] = payResult[s],
         NEW to, PaymentState(t)' = to
  PROVE  Atomic!Moves(t, "payment", to)
<1>1. \A s \in Tx \ {t} : PaymentState(s)' = PaymentState(s)
  BY DEF PaymentState, Charged, Reserved
<1>. QED BY <1>1 DEF atomicState, Atomic!Moves

\* A transaction is a vote, a part of the commit, or nothing the other service
\* could tell.
LEMMA TransactionIsAtomic ==
  ASSUME ~SharedErr, AtomicInv, AtomicInv', NEW t \in Tx, orders' = orders,
         NEW op \in PayOp, NEW result \in {"nil", "error"}, Transacts(t, op, result)
  PROVE  [Atomic!Next]_atomicState
<1>. USE DEF Charged, Reserved
<1>. TypeOK /\ TxInv(t) /\ CallInv(t) /\ VotesAreTrue(t)
  BY DEF AtomicInv, IInv, TypeInv
<1>1. \A s \in Tx, o \in PayOp : payResult'[s][o] =
        IF s = t /\ o = op THEN result ELSE payResult[s][o]
  BY TableLookup DEF Transacts
<1>2. ASSUME NEW to, PaymentState(t)' = to PROVE Atomic!Moves(t, "payment", to)
  <2>1. \A s \in Tx \ {t} : payResult'[s] = payResult[s]
    BY DEF Transacts
  <2>. QED BY <1>2, <2>1, PaymentMoves
<1>3. payResult[t][op] = "none"
  BY DEF Transacts, CallInv, PayCallsMatch
<1>4. CASE op = "prepare"
  <2>1. ~CommitSent(t) /\ ~Charged(t) /\ orders[t] # "CONFIRMED"
    BY <1>3, <1>4 DEF VotesAreTrue, TxInv, EffectsWereSent, CallInv, PayCallsMatch
  <2>2. PaymentState(t) = "working"
    BY <1>3, <1>4, <2>1 DEF PaymentState
  <2>3. PaymentState(t)' = IF result = "nil" THEN "prepared" ELSE "aborted"
    BY <1>1, <1>4, <2>1 DEF PaymentState
  <2>4. OrderState[orders[t]] # "committed"
    BY <2>1 DEF OrderState
  <2>. QED BY <1>2, <2>2, <2>3, <2>4, MappedState
           DEF Atomic!Next, Atomic!VoteYes, Atomic!Abort
<1>5. CASE op = "commit"
  <2>1. CommitSent(t) /\ ~Charged(t) /\ Reserved(t)
    BY <1>3, <1>5 DEF Transacts, TxInv, EffectsWereSent, VotesAreTrue
  <2>2. PaymentState(t) = "prepared"
    BY <2>1 DEF PaymentState
  <2>3. PaymentState(t)' = IF result = "nil" THEN "committed" ELSE "prepared"
    BY <1>1, <1>5, <2>1 DEF PaymentState
  <2>4. OrderState[orders[t]] \in {"prepared", "committed"}
    BY <2>1 DEF OrderState, TxInv, OneDecision, DecidedAfterPrepare, EffectsWereSent,
       CallInv, OrderCallsMatch
  <2>5. CASE result = "nil"
    BY <1>2, <2>2, <2>3, <2>4, <2>5, MappedState DEF Atomic!Next, Atomic!Commit
  <2>6. CASE result = "error"
    <3>1. \A s \in Tx : PaymentState(s)' = PaymentState(s)
      BY <1>1, <1>5, <2>2, <2>3, <2>6 DEF PaymentState
    <3>. QED BY <3>1 DEF atomicState
  <2>. QED BY <2>5, <2>6
<1>6. op # "rollback"
  BY DEF Transacts, TxInv, EffectsWereSent
<1>. QED BY <1>4, <1>5, <1>6

\* A handler of the order service that changes its row votes, commits or gives up.
LEMMA OrderIsAtomic ==
  ASSUME ~SharedErr, AtomicInv, AtomicInv', NEW t \in Tx, OrderService(t)
  PROVE  [Atomic!Next]_atomicState
<1>. TypeOK /\ TypeOK' /\ TxInv(t) /\ CallInv(t) /\ VotesAreTrue(t)
  BY DEF AtomicInv, IInv, TypeInv
<1>1. PICK op \in OrderOp, answer \in {"ok", "fail", "dead"} : OrderAct(t, op, answer)
  BY OrderHandlerEffect DEF OrderService
<1>2. payResult' = payResult
  BY DEF OrderService
<1>3. CASE orders' = orders
  <2>1. \A s \in Tx : PaymentState(s)' = PaymentState(s)
    BY <1>2 DEF PaymentState, Charged, Reserved
  <2>. QED BY <1>3, <2>1 DEF atomicState
<1>4. CASE orders' # orders
  <2>1. \A s \in Tx \ {t} : orders'[s] = orders[s]
    BY <1>1 DEF OrderAct
  <2>2. Atomic!Moves(t, "order", OrderState[orders'[t]])
    BY <1>2, <2>1, OrderMoves
  <2>3. PaymentState(t) \in Atomic!ParticipantState
    BY MappedState, MappedType DEF Both
  <2>4. CASE op = "prepare"
    <3>1. orders[t] = "none" /\ orders'[t] = "PREPARE_PENDING"
      BY <1>1, <1>4, <2>4 DEF OrderAct, CallInv, OrderCallsMatch
    <3>. QED BY <2>2, <3>1, MappedState DEF OrderState, Atomic!Next, Atomic!VoteYes
  <2>5. CASE op = "commit"
    <3>1. orders[t] = "PREPARE_PENDING" /\ orders'[t] = "CONFIRMED" /\ CommitSent(t)
      BY <1>1, <1>4, <2>5 DEF OrderAct, CallInv, OrderCallsMatch, CommitSent
    <3>2. PaymentState(t) \in {"prepared", "committed"}
      BY <3>1 DEF VotesAreTrue, PaymentState, Reserved
    <3>. QED BY <2>2, <3>1, <3>2, MappedState DEF OrderState, Atomic!Next, Atomic!Commit
  <2>6. CASE op = "rollback"
    <3>1. orders[t] = "PREPARE_PENDING" /\ orders'[t] = "CANCELLED" /\ RollbackSent(t)
      BY <1>1, <1>4, <2>6 DEF OrderAct, CallInv, OrderCallsMatch, RollbackSent
    <3>2. PaymentState(t) # "committed"
      <4>1. ~Charged(t) /\ payResult[t]["prepare"] \in {"none", "nil", "error"}
        BY <3>1 DEF TxInv, OneDecision, EffectsWereSent
      <4>. QED BY <4>1 DEF PaymentState, Reserved
    <3>3. atomicState[t]["order"] = "prepared" /\ Atomic!Moves(t, "order", "aborted")
      BY <2>2, <3>1, MappedState DEF OrderState
    <3>4. Atomic!Abort(t, "order")
      BY <3>2, <3>3, MappedState DEF Atomic!Abort
    <3>. QED BY <3>4 DEF Atomic!Next
  <2>. QED BY <2>4, <2>5, <2>6
<1>. QED BY <1>3, <1>4

\* Any other step changes neither database as the atomic checkout sees it.
LEMMA StepIsAtomic ==
  ASSUME ~SharedErr, AtomicInv, AtomicInv', [Next]_vars
  PROVE  [Atomic!Next]_atomicState
<1>1. CASE UNCHANGED <<orders, payResult>>
  <2>1. \A s \in Tx : PaymentState(s)' = PaymentState(s)
    BY <1>1 DEF PaymentState, Charged, Reserved
  <2>. QED BY <1>1, <2>1 DEF atomicState
<1>2. ASSUME NEW t \in Tx, OrderService(t) PROVE [Atomic!Next]_atomicState
  BY <1>2, OrderIsAtomic
<1>3. ASSUME NEW t \in Tx, PaymentService(t) PROVE [Atomic!Next]_atomicState
  <2>1. CASE PrepareTransaction(t) \/ CommitTransaction(t) \/ RollbackTransaction(t)
    BY <1>3, <2>1, TransactionEffect, TransactionIsAtomic DEF PaymentService
  <2>2. ASSUME NEW op \in PayOp, AssignErr(t, op) \/ Respond(t, op)
        PROVE  UNCHANGED <<orders, payResult>>
    BY <1>3, <2>2 DEF PaymentService, AssignErr, Respond
  <2>. QED BY <1>1, <1>3, <2>1, <2>2 DEF PaymentService, PayHandler
<1>4. ASSUME NEW t \in Tx, Coordinator(t) PROVE UNCHANGED <<orders, payResult>>
  BY <1>4 DEF Coordinator, StartCheckout, OrderPrepared, OrderNotPrepared,
     PaymentPrepared, PaymentNotPrepared, OrderCommitEnds, PaymentCommitEnds,
     OrderRollbackEnds
<1>5. PaymentFault => UNCHANGED <<orders, payResult>>
  BY DEF PaymentFault, PaymentCrash, LoseRequest
<1>. QED BY <1>1, <1>2, <1>3, <1>4, <1>5 DEF Next, Finished, CoordinatorCrash

\* With a result that stays its handler's own, two-phase commit implements the
\* atomic checkout, for any number of checkouts and under every fault.
THEOREM CheckoutIsAtomic == ~SharedErr => (Spec => AtomicSpec)
<1>. SUFFICES ASSUME ~SharedErr PROVE Spec => AtomicSpec
  OBVIOUS
<1>1. Init => Atomic!Init
  BY DEF Init, OrderInit, PayInit, Atomic!Init, atomicState, OrderState, PaymentState,
     Charged, Reserved
<1>2. AtomicInv /\ AtomicInv' /\ [Next]_vars => [Atomic!Next]_atomicState
  BY StepIsAtomic
<1>3. Spec => []AtomicInv
  BY VotesInvariance
<1>. QED BY <1>1, <1>2, <1>3, PTL DEF Spec, AtomicSpec, Atomic!Spec

\* The finding of the race, from its other side: nothing but the race lets a
\* checkout be committed whose prepare the database has refused.
THEOREM RefusedHolds == ~SharedErr => (Spec => []RefusedIsNotCommitted)
<1>. SUFFICES ASSUME ~SharedErr PROVE Spec => []RefusedIsNotCommitted
  OBVIOUS
<1>1. AtomicInv => RefusedIsNotCommitted
  BY DEF AtomicInv, VotesAreTrue, IInv, TxInv, EffectsWereSent, RefusedIsNotCommitted,
     CommitSent, Reserved, Charged
<1>. QED BY <1>1, VotesInvariance, PTL
-----------------------------------------------------------------------------
(***************************************************************************)
(* The payment service with callers that use all its endpoints.  A sum of  *)
(* amounts is the size of a set of units, to which a checkout adds its own *)
(* when its payment is prepared, and takes them away when it is resolved.  *)
(***************************************************************************)
HasSum(ts) == IsFiniteSet(Units(ts, Plus)) /\ IsFiniteSet(Units(ts, Minus))

LEMMA NoUnits == HasSum({}) /\ Sum({}) = 0
<1>1. Units({}, Plus) = {} /\ Units({}, Minus) = {}
  BY DEF Units
<1>. QED BY <1>1, FS_EmptySet DEF HasSum, Sum

\* The units of one more checkout.
LEMMA UnitsGrow ==
  ASSUME NEW n \in [Tx -> Int], NEW ts \in SUBSET Tx, NEW t \in Tx \ ts,
         IsFiniteSet(Units(ts, n))
  PROVE  /\ IsFiniteSet(Units(ts \cup {t}, n))
         /\ Cardinality(Units(ts, n)) \in Nat
         /\ Cardinality(Units(ts \cup {t}, n))
              = Cardinality(Units(ts, n)) + IF n[t] > 0 THEN n[t] ELSE 0
<1> DEFINE more == {t} \X (1..n[t])
           m == IF n[t] > 0 THEN n[t] ELSE 0
<1>1. n[t] \in Int /\ m \in Nat
  OBVIOUS
<1>2. IsFiniteSet(more) /\ Cardinality(more) = m
  <2>1. IsFiniteSet(1..n[t]) /\ Cardinality(1..n[t]) = m
    BY <1>1, FS_Interval
  <2>2. IsFiniteSet({t}) /\ Cardinality({t}) = 1
    BY FS_Singleton
  <2> HIDE DEF m
  <2>3. IsFiniteSet({t} \X (1..n[t])) /\ Cardinality({t} \X (1..n[t])) = 1 * m
    BY <2>1, <2>2, FS_Product
  <2>4. 1 * m = m
    BY <1>1
  <2>. QED BY <2>3, <2>4
<1>3. Units(ts \cup {t}, n) = Units(ts, n) \cup more
  BY DEF Units
<1>4. Units(ts, n) \cap more = {}
  BY DEF Units
<1> HIDE DEF more
<1>5. Cardinality(Units(ts, n)) \in Nat /\ Cardinality({}) = 0
  BY FS_CardinalityType, FS_EmptySet
<1>6. /\ IsFiniteSet(Units(ts, n) \cup more)
      /\ Cardinality(Units(ts, n) \cup more) = Cardinality(Units(ts, n)) + m - 0
  BY <1>2, <1>4, <1>5, FS_Union
<1>7. Cardinality(Units(ts, n)) + m - 0 = Cardinality(Units(ts, n)) + m
  BY <1>1, <1>5
<1>. QED BY <1>3, <1>5, <1>6, <1>7

LEMMA SumGrows ==
  ASSUME PayTypeOK, NEW ts \in SUBSET Tx, NEW t \in Tx \ ts, HasSum(ts)
  PROVE  HasSum(ts \cup {t}) /\ Sum(ts \cup {t}) = Sum(ts) + req[t].amount
<1>1. /\ Plus \in [Tx -> Int] /\ Minus \in [Tx -> Int]
      /\ Plus[t] = req[t].amount /\ Minus[t] = -req[t].amount /\ req[t].amount \in Int
  <2>1. \A u \in Tx : req[u].amount \in Int
    <3>1. \A u \in Tx : req[u] \in Request
      OBVIOUS
    <3>. QED BY <3>1
  <2>. QED BY <2>1 DEF Plus, Minus
<1>2. /\ IsFiniteSet(Units(ts \cup {t}, Plus))
      /\ Cardinality(Units(ts, Plus)) \in Nat
      /\ Cardinality(Units(ts \cup {t}, Plus))
           = Cardinality(Units(ts, Plus)) + IF Plus[t] > 0 THEN Plus[t] ELSE 0
  BY <1>1, UnitsGrow DEF HasSum
<1>3. /\ IsFiniteSet(Units(ts \cup {t}, Minus))
      /\ Cardinality(Units(ts, Minus)) \in Nat
      /\ Cardinality(Units(ts \cup {t}, Minus))
           = Cardinality(Units(ts, Minus)) + IF Minus[t] > 0 THEN Minus[t] ELSE 0
  BY <1>1, UnitsGrow DEF HasSum
<1>4. Sum(ts \cup {t}) = Sum(ts) + req[t].amount
  BY <1>1, <1>2, <1>3 DEF Sum
<1>. QED BY <1>2, <1>3, <1>4 DEF HasSum

LEMMA SumShrinks ==
  ASSUME PayTypeOK, NEW ts \in SUBSET Tx, NEW t \in ts, HasSum(ts)
  PROVE  HasSum(ts \ {t}) /\ Sum(ts \ {t}) = Sum(ts) - req[t].amount
<1> DEFINE rest == ts \ {t}
<1>1. rest \in SUBSET Tx /\ t \in Tx \ rest /\ rest \cup {t} = ts
  OBVIOUS
<1>2. Units(rest, Plus) \in SUBSET Units(ts, Plus) /\ Units(rest, Minus) \in SUBSET Units(ts, Minus)
  BY DEF Units
<1>3. HasSum(rest)
  BY <1>2, FS_Subset DEF HasSum
<1>4. Sum(ts) = Sum(rest) + req[t].amount
  <2>1. Sum(rest \cup {t}) = Sum(rest) + req[t].amount
    BY <1>1, <1>3, SumGrows
  <2>. QED BY <1>1, <2>1
<1>5. Sum(rest) \in Int
  BY <1>3, FS_CardinalityType DEF HasSum, Sum
<1>6. req[t].amount \in Int
  <2>1. req[t] \in Request
    OBVIOUS
  <2>. QED BY <2>1
<1> HIDE DEF rest
<1>7. Sum(rest) = Sum(ts) - req[t].amount
  BY <1>4, <1>5, <1>6
<1>. QED BY <1>3, <1>7 DEF rest

\* What the calls of a caller tell of its transactions, when answers are true.
CallerInv(t) ==
  /\ \A op \in PayOp : payCall[t][op] \in {"idle", "sent"} => payResult[t][op] = "none"
  /\ \A op \in PayOp : payCall[t][op] \in {"returned", "assigned"} => payResult[t][op] # "none"
  /\ payCall[t]["prepare"] = "ok" => payResult[t]["prepare"] = "nil"
  /\ \A op \in PayOp \ {"prepare"} : payCall[t][op] # "idle" => payCall[t]["prepare"] = "ok"
  /\ payCall[t]["commit"] = "idle" \/ payCall[t]["rollback"] = "idle"

HeldInv == \A a \in Account : HasSum(OpenOf(a)) /\ lockedBalance[a] = Sum(OpenOf(a))

PaymentInv == PayTypeOK /\ (\A t \in Tx : CallerInv(t)) /\ HeldInv

\* A step that neither opens nor closes a reservation.
LEMMA HeldUntouched ==
  ASSUME HeldInv, UNCHANGED <<req, lockedBalance>>,
         \A t \in Tx, op \in PayOp : payResult'[t][op] = "nil" <=> payResult[t][op] = "nil"
  PROVE  HeldInv'
<1>1. \A a \in Account : OpenOf(a)' = OpenOf(a)
  BY DEF OpenOf, Reserved, Charged, Released
<1>2. Plus' = Plus /\ Minus' = Minus
  BY DEF Plus, Minus
<1>. QED BY <1>1, <1>2 DEF HeldInv, HasSum, Sum

\* What a transaction that returns nil does to the reservations and the sums.
LEMMA HeldMoves ==
  ASSUME PayTypeOK, HeldInv, UNCHANGED req, NEW t \in Tx, req[t].account \in Account,
         \A u \in Tx \ {t}, op \in PayOp : payResult'[u][op] = payResult[u][op],
         NEW d, lockedBalance' = [lockedBalance EXCEPT ![req[t].account] = @ + d],
         \/ /\ t \notin OpenOf(req[t].account) /\ t \in OpenOf(req[t].account)'
            /\ d = req[t].amount
         \/ /\ t \in OpenOf(req[t].account) /\ t \notin OpenOf(req[t].account)'
            /\ d = -req[t].amount
  PROVE  HeldInv'
<1>1. Plus' = Plus /\ Minus' = Minus
  BY DEF Plus, Minus
<1>2. ASSUME NEW a \in Account
      PROVE  OpenOf(a)' \ {t} = OpenOf(a) \ {t} /\ OpenOf(a) \in SUBSET Tx /\ OpenOf(a)' \in SUBSET Tx
  BY DEF OpenOf, Reserved, Charged, Released
<1>3. ASSUME NEW a \in Account, a # req[t].account
      PROVE  (HasSum(OpenOf(a)) /\ lockedBalance[a] = Sum(OpenOf(a)))'
  <2>1. \A u \in Tx : u \in OpenOf(a)' <=> u \in OpenOf(a)
    BY <1>3 DEF OpenOf, Reserved, Charged, Released
  <2>2. OpenOf(a)' = OpenOf(a)
    BY <1>2, <2>1
  <2>3. lockedBalance'[a] = lockedBalance[a]
    BY <1>3
  <2>. QED BY <1>1, <2>2, <2>3 DEF HeldInv, HasSum, Sum
<1>4. ASSUME NEW a \in Account, a = req[t].account
      PROVE  (HasSum(OpenOf(a)) /\ lockedBalance[a] = Sum(OpenOf(a)))'
  <2>1. /\ HasSum(OpenOf(a)) /\ lockedBalance[a] = Sum(OpenOf(a)) /\ OpenOf(a) \in SUBSET Tx
        /\ lockedBalance'[a] = lockedBalance[a] + d
    <3>1. lockedBalance \in [Account -> Int]
      OBVIOUS
    <3>2. lockedBalance'[a] = lockedBalance[a] + d
      BY <1>4, <3>1
    <3>. QED BY <1>2, <3>2 DEF HeldInv
  <2>2. CASE t \notin OpenOf(a) /\ t \in OpenOf(a)' /\ d = req[t].amount
    <3>1. OpenOf(a)' = OpenOf(a) \cup {t}
      BY <1>2, <2>2
    <3>2. HasSum(OpenOf(a) \cup {t}) /\ Sum(OpenOf(a) \cup {t}) = Sum(OpenOf(a)) + req[t].amount
      BY <2>1, <2>2, SumGrows
    <3>. QED BY <1>1, <2>1, <2>2, <3>1, <3>2 DEF HasSum, Sum
  <2>3. CASE t \in OpenOf(a) /\ t \notin OpenOf(a)' /\ d = -req[t].amount
    <3>1. OpenOf(a)' = OpenOf(a) \ {t}
      BY <1>2, <2>3
    <3>2. HasSum(OpenOf(a) \ {t}) /\ Sum(OpenOf(a) \ {t}) = Sum(OpenOf(a)) - req[t].amount
      BY <2>1, <2>3, SumShrinks
    <3>3. lockedBalance'[a] = Sum(OpenOf(a)) - req[t].amount
      <4>1. lockedBalance[a] \in Int /\ req[t] \in Request
        OBVIOUS
      <4>2. req[t].amount \in Int
        BY <4>1
      <4>. QED BY <2>1, <2>3, <4>1, <4>2
    <3>. QED BY <1>1, <2>3, <3>1, <3>2, <3>3 DEF HasSum, Sum
  <2>. QED BY <1>4, <2>2, <2>3
<1>. QED BY <1>3, <1>4 DEF HeldInv

\* A call of checkout t that moves, and no other.
LEMMA CallMoves ==
  ASSUME PayTypeOK, NEW t \in Tx, NEW op \in PayOp, NEW to \in PayCallState,
         payCall' = [payCall EXCEPT ![t][op] = to]
  PROVE  /\ payCall' \in [Tx -> [PayOp -> PayCallState]]
         /\ \A u \in Tx, o \in PayOp :
              payCall'[u][o] = IF u = t /\ o = op THEN to ELSE payCall[u][o]
<1>1. payCall \in [Tx -> [PayOp -> PayCallState]]
  OBVIOUS
<1> HIDE DEF PayTypeOK, PayOp, PayCallState
<1>. QED BY <1>1

LEMMA ResultMoves ==
  ASSUME PayTypeOK, NEW t \in Tx, NEW op \in PayOp, NEW to \in {"none", "nil", "error"},
         payResult' = [payResult EXCEPT ![t][op] = to]
  PROVE  /\ payResult' \in [Tx -> [PayOp -> {"none", "nil", "error"}]]
         /\ \A u \in Tx, o \in PayOp :
              payResult'[u][o] = IF u = t /\ o = op THEN to ELSE payResult[u][o]
<1>1. payResult \in [Tx -> [PayOp -> {"none", "nil", "error"}]]
  OBVIOUS
<1> HIDE DEF PayTypeOK, PayOp
<1>. QED BY <1>1

\* A transaction that has ended with the result of its kind.
LEMMA TransactionKeepsHeld ==
  ASSUME PaymentInv, NEW t \in Tx, NEW op \in PayOp, NEW ok, NEW db, NEW dl,
         Transaction(t, op, ok, db, dl), db \in Int,
         dl = IF op = "prepare" THEN req[t].amount ELSE -req[t].amount
  PROVE  PaymentInv'
<1>1. PayTypeOK /\ HeldInv /\ CallerInv(t) /\ req' = req /\ capturedErr' = capturedErr
  BY DEF PaymentInv, Transaction
<1>2. payCall[t][op] = "sent" /\ payResult[t][op] = "none"
  BY <1>1 DEF Transaction, CallerInv
<1>3. /\ payCall' \in [Tx -> [PayOp -> PayCallState]]
      /\ \A u \in Tx, o \in PayOp :
           payCall'[u][o] = IF u = t /\ o = op THEN "returned" ELSE payCall[u][o]
  <2>1. payCall' = [payCall EXCEPT ![t][op] = "returned"] /\ "returned" \in PayCallState
    BY DEF Transaction
  <2> HIDE DEF PayTypeOK, PayOp, PayCallState
  <2>. QED BY <1>1, <2>1, CallMoves
<1>4. PICK to \in {"nil", "error"} : payResult' = [payResult EXCEPT ![t][op] = to]
  BY DEF Transaction
<1>5. /\ payResult' \in [Tx -> [PayOp -> {"none", "nil", "error"}]]
      /\ \A u \in Tx, o \in PayOp :
           payResult'[u][o] = IF u = t /\ o = op THEN to ELSE payResult[u][o]
  <2>1. /\ to \in {"none", "nil", "error"}
        /\ payResult \in [Tx -> [PayOp -> {"none", "nil", "error"}]]
    BY <1>1
  <2> HIDE DEF PayTypeOK, PayOp
  <2>. QED BY <1>4, <2>1
<1>6. \A u \in Tx : CallerInv(u)'
  <2>1. ASSUME NEW u \in Tx PROVE CallerInv(u)'
    <3>1. CallerInv(u)
      BY DEF PaymentInv
    <3>. QED BY <1>2, <1>3, <1>5, <3>1 DEF CallerInv
  <2>. QED BY <2>1
<1>7. CASE to = "nil"
  <2>1. /\ req[t].account \in Account
        /\ balance' = Adds(balance, t, db) /\ lockedBalance' = Adds(lockedBalance, t, dl)
    <3>1. payResult'[t][op] # "error"
      BY <1>5, <1>7
    <3>2. payResult' # [payResult EXCEPT ![t][op] = "error"]
      BY <1>1, <3>1, ResultMoves
    <3>. QED BY <3>2 DEF Transaction
  <2>2. dl \in Int
    <3>1. req[t] \in Request
      BY <1>1
    <3>2. req[t].amount \in Int
      BY <3>1
    <3>. QED BY <3>2
  <2>3. balance' \in [Account -> Int] /\ lockedBalance' \in [Account -> Int]
    BY <1>1, <2>1, <2>2 DEF Adds
  <2>4. CASE op = "prepare"
    <3>1. payResult[t]["prepare"] = "none" /\ payResult'[t]["prepare"] = "nil"
      BY <1>2, <1>5, <1>7, <2>4
    <3>2. payResult'[t]["commit"] = "none" /\ payResult'[t]["rollback"] = "none"
      BY <1>1, <1>2, <1>5, <2>4 DEF CallerInv
    <3>3. t \notin OpenOf(req[t].account) /\ t \in OpenOf(req[t].account)'
      BY <1>1, <3>1, <3>2 DEF OpenOf, Reserved, Charged, Released
    <3>4. HeldInv'
      BY <1>1, <1>5, <2>1, <2>4, <3>3, HeldMoves DEF Adds
    <3>. QED BY <1>1, <1>3, <1>5, <1>6, <2>3, <3>4 DEF PaymentInv
  <2>5. CASE op # "prepare"
    <3>1. payResult[t]["prepare"] = "nil"
      BY <1>1, <1>2, <2>5 DEF CallerInv
    <3>2. payResult[t]["commit"] = "none" /\ payResult[t]["rollback"] = "none"
      BY <1>1, <1>2, <2>5 DEF CallerInv
    <3>3. payResult'[t]["commit"] = "nil" \/ payResult'[t]["rollback"] = "nil"
      BY <1>5, <1>7, <2>5
    <3>4. t \in OpenOf(req[t].account) /\ t \notin OpenOf(req[t].account)'
      BY <1>1, <3>1, <3>2, <3>3 DEF OpenOf, Reserved, Charged, Released
    <3>5. HeldInv'
      BY <1>1, <1>5, <2>1, <2>5, <3>4, HeldMoves DEF Adds
    <3>. QED BY <1>1, <1>3, <1>5, <1>6, <2>3, <3>5 DEF PaymentInv
  <2>. QED BY <2>4, <2>5
<1>8. CASE to = "error"
  <2>1. UNCHANGED <<balance, lockedBalance>>
    <3>1. payResult'[t][op] # "nil"
      BY <1>5, <1>8
    <3>2. payResult' # [payResult EXCEPT ![t][op] = "nil"]
      BY <1>1, <3>1, ResultMoves
    <3>. QED BY <3>2 DEF Transaction
  <2>2. HeldInv'
    BY <1>1, <1>2, <1>5, <1>8, <2>1, HeldUntouched
  <2>. QED BY <1>1, <1>3, <1>5, <1>6, <2>1, <2>2 DEF PaymentInv
<1>. QED BY <1>7, <1>8

\* A call that moves outside the database.
LEMMA CallKeepsHeld ==
  ASSUME PaymentInv, NEW t \in Tx, NEW op \in PayOp, NEW to \in PayCallState \ {"idle"},
         payCall' = [payCall EXCEPT ![t][op] = to],
         capturedErr' \in {"nil", "error"}, UNCHANGED <<req, balance, lockedBalance, payResult>>,
         payResult[t][op] # "none" \/ to \in {"sent", "dead"},
         to = "sent" => payCall[t][op] = "idle",
         to = "ok" => payResult[t][op] = "nil",
         op # "prepare" => payCall[t]["prepare"] = "ok",
         op = "prepare" => payCall[t]["prepare"] # "ok",
         op # "prepare" => \A o \in PayOp \ {"prepare", op} : payCall[t][o] = "idle"
  PROVE  PaymentInv'
<1>1. PayTypeOK /\ HeldInv /\ CallerInv(t)
  BY DEF PaymentInv
<1>2. /\ payCall' \in [Tx -> [PayOp -> PayCallState]]
      /\ \A u \in Tx, o \in PayOp :
           payCall'[u][o] = IF u = t /\ o = op THEN to ELSE payCall[u][o]
  <2> HIDE DEF PayTypeOK, PayOp, PayCallState
  <2>. QED BY <1>1, CallMoves
<1>3. ASSUME NEW u \in Tx PROVE CallerInv(u)'
  <2>1. CallerInv(u)
    BY DEF PaymentInv
  <2>2. CASE u # t
    BY <1>2, <2>1, <2>2 DEF CallerInv
  <2>3. CASE u = t
    BY <1>1, <1>2, <2>3 DEF CallerInv
  <2>. QED BY <2>2, <2>3
<1>4. HeldInv'
  BY <1>1, HeldUntouched
<1>. QED BY <1>1, <1>2, <1>3, <1>4 DEF PaymentInv

LEMMA CrashKeepsHeld ==
  ASSUME PaymentInv, PaymentCrash
  PROVE  PaymentInv'
<1>1. PayTypeOK /\ HeldInv
  BY DEF PaymentInv
<1>2. /\ payCall' \in [Tx -> [PayOp -> PayCallState]]
      /\ \A u \in Tx, o \in PayOp :
           payCall'[u][o] = IF payCall[u][o] \in InService THEN "dead" ELSE payCall[u][o]
  BY <1>1 DEF PaymentCrash
<1>3. capturedErr' = "nil" /\ UNCHANGED <<req, balance, lockedBalance, payResult>>
  BY DEF PaymentCrash
<1>4. ASSUME NEW u \in Tx PROVE CallerInv(u)'
  <2>1. CallerInv(u)
    BY DEF PaymentInv
  <2>. QED BY <1>2, <1>3, <2>1 DEF CallerInv
<1>5. HeldInv'
  BY <1>1, <1>3, HeldUntouched
<1>. QED BY <1>1, <1>2, <1>3, <1>4, <1>5 DEF PaymentInv

LEMMA PaymentInit == PayInit => PaymentInv
<1> SUFFICES ASSUME PayInit PROVE PaymentInv
  OBVIOUS
<1>1. PayTypeOK
  BY DEF PayInit
<1>2. \A t \in Tx : CallerInv(t)
  BY DEF PayInit, CallerInv
<1>3. \A a \in Account : OpenOf(a) = {} /\ lockedBalance[a] = 0
  BY DEF PayInit, OpenOf, Reserved
<1>. QED BY <1>1, <1>2, <1>3, NoUnits DEF PaymentInv, HeldInv

\* While every handler tests its own result.
LEMMA PaymentNext == ~SharedErr /\ PaymentInv /\ [PayNext]_payVars => PaymentInv'
<1> SUFFICES ASSUME ~SharedErr, PaymentInv, [PayNext]_payVars PROVE PaymentInv'
  OBVIOUS
<1>1. PayTypeOK /\ HeldInv /\ \A t \in Tx : CallerInv(t)
  BY DEF PaymentInv
<1>2. ASSUME NEW t \in Tx, NEW op \in PayOp, ClientRequest(t, op) PROVE PaymentInv'
  <2>1. /\ payCall' = [payCall EXCEPT ![t][op] = "sent"] /\ payCall[t][op] = "idle"
        /\ UNCHANGED <<req, balance, lockedBalance, capturedErr, payResult>>
        /\ op # "prepare" => /\ payCall[t]["prepare"] = "ok"
                             /\ \A o \in PayOp \ {"prepare"} : payCall[t][o] = "idle"
        /\ "sent" \in PayCallState \ {"idle"} /\ capturedErr \in {"nil", "error"}
    BY <1>1, <1>2 DEF ClientRequest, PayRequest
  <2>. QED BY <2>1, CallKeepsHeld
<1>3. ASSUME NEW t \in Tx, NEW op \in PayOp,
             LoseRequest(t, op) \/ AssignErr(t, op) \/ Respond(t, op)
      PROVE  PaymentInv'
  <2>1. PICK to \in {"dead", "assigned", "ok", "fail"} :
          /\ payCall' = [payCall EXCEPT ![t][op] = to]
          /\ payCall[t][op] \in InService
          /\ to # "dead" => payCall[t][op] \in {"returned", "assigned"}
          /\ to = "ok" => payResult[t][op] = "nil"
    BY <1>3 DEF LoseRequest, AssignErr, Respond, SeenErr
  <2>2. CallerInv(t)
    BY <1>1
  <2>3. capturedErr' \in {"nil", "error"} /\ UNCHANGED <<req, balance, lockedBalance, payResult>>
    BY <1>1, <1>3, <2>2 DEF LoseRequest, AssignErr, Respond, CallerInv
  <2>4. /\ op # "prepare" => /\ payCall[t]["prepare"] = "ok"
                             /\ \A o \in PayOp \ {"prepare", op} : payCall[t][o] = "idle"
        /\ op = "prepare" => payCall[t]["prepare"] # "ok"
        /\ payResult[t][op] # "none" \/ to = "dead"
    BY <2>1, <2>2 DEF CallerInv
  <2>. QED BY <2>1, <2>3, <2>4, CallKeepsHeld
<1>4. ASSUME NEW t \in Tx,
             PrepareTransaction(t) \/ CommitTransaction(t) \/ RollbackTransaction(t)
      PROVE  PaymentInv'
  <2>1. 0 \in Int /\ -req[t].amount \in Int
    <3>1. req[t] \in Request
      BY <1>1
    <3>2. req[t].amount \in Int
      BY <3>1
    <3>. QED BY <3>2
  <2>2. CASE PrepareTransaction(t)
    BY <2>1, <2>2, TransactionKeepsHeld DEF PrepareTransaction
  <2>3. CASE CommitTransaction(t)
    BY <2>1, <2>3, TransactionKeepsHeld DEF CommitTransaction
  <2>4. CASE RollbackTransaction(t)
    BY <2>1, <2>4, TransactionKeepsHeld DEF RollbackTransaction
  <2>. QED BY <1>4, <2>2, <2>3, <2>4
<1>5. CASE UNCHANGED payVars
  <2>1. HeldInv'
    BY <1>1, <1>5, HeldUntouched
  <2>2. \A t \in Tx : CallerInv(t)'
    BY <1>1, <1>5 DEF CallerInv
  <2>. QED BY <1>1, <1>5, <2>1, <2>2 DEF PaymentInv
<1>. QED BY <1>2, <1>3, <1>4, <1>5, CrashKeepsHeld DEF PayNext, PayHandler, Done

\* While every handler tests its own result, the locked part of an account is the
\* sum of its open reservations, for any number of callers of all endpoints.
THEOREM LockedIsHeldHolds == ~SharedErr => (PaymentSpec => []LockedIsHeld)
<1> SUFFICES ASSUME ~SharedErr PROVE PaymentSpec => []LockedIsHeld
  OBVIOUS
<1>1. PaymentInv => LockedIsHeld
  BY DEF PaymentInv, HeldInv, LockedIsHeld
<1>2. PaymentInv /\ [PayNext]_payVars => PaymentInv'
  BY PaymentNext
<1>. QED BY <1>1, <1>2, PaymentInit, PTL DEF PaymentSpec
=============================================================================
