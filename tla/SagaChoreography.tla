------------------------- MODULE SagaChoreography -------------------------
(***************************************************************************)
(* The choreographed saga: an order service and a payment service that     *)
(* react to each other's events.  Each service has one goroutine that      *)
(* consumes the other's topic; the order service serves POST /orders too.  *)
(*                                                                         *)
(* A topic is a log.  (The broker creates topics with one partition.)      *)
(* ReadMessage commits the offset before it returns, so an event is        *)
(* committed before it is handled.  A reader whose connection breaks joins *)
(* its group again and goes back to the offset that it is told then, and   *)
(* may meanwhile return an event of its buffer, which it is given again.   *)
(* No outcome of a publication stops anybody: an event may be written      *)
(* never, once or, by a retry, twice.                                      *)
(***************************************************************************)
EXTENDS CheckoutBase, Sequences

CONSTANTS
  Balance0,   \* the seeded balance of each account
  Exposures,  \* the sets of faults that an execution may be exposed to
  MaxReturns  \* bound: how often a reader goes back in its topic

ASSUME Balance0Assumption == Balance0 \in [Account -> Nat]
ASSUME ExposuresAssumption == Exposures \subseteq SUBSET Faults
ASSUME MaxReturnsAssumption == MaxReturns \in Nat

VARIABLES
  faults,         \* the faults this execution is exposed to
  req,            \* req[t], the body of POST /orders
  post,           \* post[t], how far its handler got
  orders,         \* orders[t], the status of the order
  orderEvents,    \* topic order_events, the orders created
  orderReader,    \* the payment service's place in it
  payer,          \* the payment consumer: idle, or the event in its hands
  balance,        \* the accounts
  payments,       \* payments[t], how often t has been paid
  paymentEvents,  \* topic payment_events
  paymentReader,  \* the order service's place in it
  updater         \* the order consumer: idle, or the event in its hands

given       == <<faults, req>>
orderVars   == <<post, orders, updater>>
paymentVars == <<payer, balance, payments>>
topics      == <<orderEvents, paymentEvents>>
readers     == <<orderReader, paymentReader>>
vars        == <<given, orderVars, paymentVars, topics, readers>>

Status       == {"SUCCESS", "FAILED"}
PaymentEvent == [order : Tx, status : Status]

\* How many events of its topic a reader has been given, how many are committed,
\* and how often it has gone back.
Reader  == [next : Nat, offset : Nat, returns : Nat]
Idle    == [doing |-> "nothing"]
Payer   == {Idle} \cup [doing : {"paying"}, order : Tx]
                  \cup [doing : {"telling"}, order : Tx, status : Status]
Updater == {Idle} \cup [doing : {"updating"}, order : Tx, status : Status]

TypeOK ==
  /\ faults \subseteq Faults
  /\ req \in [Tx -> Request]
  /\ post \in [Tx -> {"idle", "created", "done", "failed", "dead"}]
  /\ orders \in [Tx -> {"none", "PENDING", "CONFIRMED", "CANCELLED"}]
  /\ orderEvents \in Seq(Tx) /\ orderReader \in Reader
  /\ payer \in Payer
  /\ balance \in [Account -> Int]
  /\ payments \in [Tx -> Nat]
  /\ paymentEvents \in Seq(PaymentEvent) /\ paymentReader \in Reader
  /\ updater \in Updater

AtStart == [next |-> 0, offset |-> 0, returns |-> 0]

OrderInit ==
  /\ post = [t \in Tx |-> "idle"]
  /\ orders = [t \in Tx |-> "none"]
  /\ orderEvents = <<>> /\ paymentReader = AtStart
  /\ updater = Idle

PaymentInit ==
  /\ balance = Balance0
  /\ payments = [t \in Tx |-> 0]
  /\ paymentEvents = <<>> /\ orderReader = AtStart
  /\ payer = Idle

Init ==
  /\ faults \in Exposures
  /\ req \in [Tx -> Request]
  /\ OrderInit
  /\ PaymentInit

\* What a topic may look like after WriteMessages: its error is only logged.
Written(topic, event) ==
  {Append(topic, event)}
    \cup (IF "lost" \in faults THEN {topic} ELSE {})
    \cup (IF "dup" \in faults THEN {topic \o <<event, event>>} ELSE {})

Unread(reader, topic) == reader.next < Len(topic)

\* A reader that joins its group goes on at the committed offset.
Rejoined(r) ==
  [next |-> r.offset, offset |-> r.offset,
   returns |-> IF r.offset < r.next THEN r.returns + 1 ELSE r.returns]

\* Where ReadMessage may leave the reader: past the event or, if the reader has
\* joined again meanwhile, where the offset was then.
Moves(r) ==
  LET passed == [r EXCEPT !.next = @ + 1] IN
  {m \in {passed} \cup (IF "lost" \in faults THEN {Rejoined(passed)} ELSE {}) :
     m.returns <= MaxReturns}

-----------------------------------------------------------------------------
(***************************************************************************)
(* The order service: POST /orders.                                        *)
(***************************************************************************)
\* An insert whose answer is lost may have happened all the same.
CreateOrder(t) ==
  /\ post[t] = "idle"
  /\ \/ /\ post' = [post EXCEPT ![t] = "created"]
        /\ orders' = [orders EXCEPT ![t] = "PENDING"]
     \/ /\ faults \cap {"db", "lost"} # {}
        /\ post' = [post EXCEPT ![t] = "failed"]
        /\ UNCHANGED orders
     \/ /\ "lost" \in faults
        /\ post' = [post EXCEPT ![t] = "failed"]
        /\ orders' = [orders EXCEPT ![t] = "PENDING"]
  /\ UNCHANGED <<given, updater, paymentVars, topics, readers>>

PublishOrder(t) ==
  /\ post[t] = "created"
  /\ post' = [post EXCEPT ![t] = "done"]
  /\ orderEvents' \in Written(orderEvents, t)
  /\ UNCHANGED <<given, orders, updater, paymentVars, paymentEvents, readers>>

(***************************************************************************)
(* The payment service's consumer.                                         *)
(***************************************************************************)
\* Slip to rule out: the offset is not committed.
ReadOrderUncommitted ==
  /\ payer = Idle /\ Unread(orderReader, orderEvents)
  /\ payer' = [doing |-> "paying", order |-> orderEvents[orderReader.next + 1]]
  /\ orderReader' = [orderReader EXCEPT !.next = @ + 1]
  /\ UNCHANGED <<given, orderVars, balance, payments, topics, paymentReader>>

\* ReadMessage returns the event once its offset is committed.  A commit that
\* reports an error, whether it happened or not, takes the event with it: the
\* loop logs the error and asks for the next one.
ReadOrder ==
  /\ payer = Idle /\ Unread(orderReader, orderEvents)
  /\ \E moved \in Moves(orderReader) :
       LET kept == [moved EXCEPT !.offset = orderReader.next + 1] IN
       \/ /\ orderReader' = kept
          /\ payer' = [doing |-> "paying", order |-> orderEvents[orderReader.next + 1]]
       \/ "lost" \in faults /\ orderReader' \in {kept, moved} /\ UNCHANGED payer
  /\ UNCHANGED <<given, orderVars, balance, payments, topics, paymentReader>>

Covered(t) == req[t].account \in Account /\ balance[req[t].account] >= req[t].amount

\* Slip to rule out: the result of the transaction is dropped.
PayUnchecked ==
  /\ payer.doing = "paying"
  /\ LET t == payer.order IN
     /\ payer' = [doing |-> "telling", order |-> t, status |-> "SUCCESS"]
     /\ IF Covered(t)
          THEN /\ balance' = [balance EXCEPT ![req[t].account] = @ - req[t].amount]
               /\ payments' = [payments EXCEPT ![t] = @ + 1]
          ELSE UNCHANGED <<balance, payments>>
  /\ UNCHANGED <<given, orderVars, topics, readers>>

\* Slip to rule out: a transaction that returned an error is tried again.
PayAgain ==
  /\ payer.doing = "paying"
  /\ LET t == payer.order IN
     \/ /\ Covered(t)
        /\ balance' = [balance EXCEPT ![req[t].account] = @ - req[t].amount]
        /\ payments' = [payments EXCEPT ![t] = @ + 1]
        /\ \/ payer' = [doing |-> "telling", order |-> t, status |-> "SUCCESS"]
           \/ "lost" \in faults /\ UNCHANGED payer
     \/ /\ ~Covered(t)
        /\ payer' = [doing |-> "telling", order |-> t, status |-> "FAILED"]
        /\ UNCHANGED <<balance, payments>>
  /\ UNCHANGED <<given, orderVars, topics, readers>>

\* db.Transaction under the row lock; its result is this goroutine's own.  If
\* the connection breaks at the COMMIT, the result is an error and the account
\* may have been debited.
Pay ==
  /\ payer.doing = "paying"
  /\ \E status \in Status :
       LET t == payer.order IN
       /\ \/ /\ Covered(t) /\ (status = "SUCCESS" \/ "lost" \in faults)
             /\ balance' = [balance EXCEPT ![req[t].account] = @ - req[t].amount]
             /\ payments' = [payments EXCEPT ![t] = @ + 1]
          \/ /\ status = "FAILED" /\ (~Covered(t) \/ faults \cap {"db", "lost"} # {})
             /\ UNCHANGED <<balance, payments>>
       /\ payer' = [doing |-> "telling", order |-> t, status |-> status]
  /\ UNCHANGED <<given, orderVars, topics, readers>>

PublishPayment ==
  /\ payer.doing = "telling"
  /\ paymentEvents' \in
       Written(paymentEvents, [order |-> payer.order, status |-> payer.status])
  /\ payer' = Idle
  /\ UNCHANGED <<given, orderVars, balance, payments, orderEvents, readers>>

(***************************************************************************)
(* The order service's consumer.                                           *)
(***************************************************************************)
ReadPayment ==
  /\ updater = Idle /\ Unread(paymentReader, paymentEvents)
  /\ \E moved \in Moves(paymentReader) :
       LET kept  == [moved EXCEPT !.offset = paymentReader.next + 1]
           event == paymentEvents[paymentReader.next + 1]
       IN \/ /\ paymentReader' = kept
             /\ updater' = [doing |-> "updating", order |-> event.order,
                            status |-> event.status]
          \/ "lost" \in faults /\ paymentReader' \in {kept, moved} /\ UNCHANGED updater
  /\ UNCHANGED <<given, post, orders, paymentVars, topics, orderReader>>

\* Slips to rule out: a failure is not acted upon, or a status is misspelt.
UpdateOrderOnSuccess ==
  /\ updater.doing = "updating"
  /\ orders' = [orders EXCEPT ![updater.order] =
                  IF updater.status = "SUCCESS" THEN "CONFIRMED" ELSE @]
  /\ updater' = Idle
  /\ UNCHANGED <<given, post, paymentVars, topics, readers>>

UpdateOrderMisspelt ==
  /\ updater.doing = "updating"
  /\ orders' = [orders EXCEPT ![updater.order] = updater.status]
  /\ updater' = Idle
  /\ UNCHANGED <<given, post, paymentVars, topics, readers>>

\* The order is loaded and saved with its new status, whatever it was.  An
\* order that cannot be loaded or saved keeps the old one; nobody is told.
UpdateOrder ==
  /\ updater.doing = "updating"
  /\ \/ orders' = [orders EXCEPT ![updater.order] =
                     IF updater.status = "SUCCESS" THEN "CONFIRMED" ELSE "CANCELLED"]
     \/ faults \cap {"db", "lost"} # {} /\ UNCHANGED orders
  /\ updater' = Idle
  /\ UNCHANGED <<given, post, paymentVars, topics, readers>>

-----------------------------------------------------------------------------
\* A reader joins its group again between two events.
RejoinOrder ==
  /\ "lost" \in faults /\ orderReader.next # orderReader.offset
  /\ orderReader' = Rejoined(orderReader) /\ orderReader'.returns <= MaxReturns
  /\ UNCHANGED <<given, orderVars, paymentVars, topics, paymentReader>>

RejoinPayment ==
  /\ "lost" \in faults /\ paymentReader.next # paymentReader.offset
  /\ paymentReader' = Rejoined(paymentReader) /\ paymentReader'.returns <= MaxReturns
  /\ UNCHANGED <<given, orderVars, paymentVars, topics, orderReader>>

\* A process dies in the middle of something and starts again; its consumer
\* goes on after the last offset committed.
OrderCrash ==
  /\ "crash" \in faults
  /\ updater # Idle \/ \E t \in Tx : post[t] = "created"
  /\ updater' = Idle
  /\ post' = [t \in Tx |-> IF post[t] = "created" THEN "dead" ELSE post[t]]
  /\ paymentReader' = Rejoined(paymentReader) /\ paymentReader'.returns <= MaxReturns
  /\ UNCHANGED <<given, orders, paymentVars, topics, orderReader>>

PaymentCrash ==
  /\ "crash" \in faults
  /\ payer # Idle
  /\ payer' = Idle
  /\ orderReader' = Rejoined(orderReader) /\ orderReader'.returns <= MaxReturns
  /\ UNCHANGED <<given, orderVars, balance, payments, topics, paymentReader>>

PaymentConsumer == ReadOrder \/ Pay \/ PublishPayment
OrderConsumer   == ReadPayment \/ UpdateOrder

\* Every order is posted and no event is left to handle.
Quiet ==
  /\ \A t \in Tx : post[t] \in {"done", "failed", "dead"}
  /\ ~Unread(orderReader, orderEvents) /\ ~Unread(paymentReader, paymentEvents)
  /\ payer = Idle /\ updater = Idle
  /\ UNCHANGED vars

Next ==
  \/ \E t \in Tx : CreateOrder(t) \/ PublishOrder(t)
  \/ PaymentConsumer
  \/ OrderConsumer
  \/ OrderCrash \/ PaymentCrash
  \/ RejoinOrder \/ RejoinPayment
  \/ Quiet

Spec == Init /\ [][Next]_vars

\* A handler that has begun finishes, and the consumers' loops go on; whether
\* an order is posted or a process dies is nobody's obligation.
FairSpec ==
  /\ Spec
  /\ \A t \in Tx : WF_vars(PublishOrder(t))
  /\ WF_vars(PaymentConsumer)
  /\ WF_vars(OrderConsumer)

-----------------------------------------------------------------------------
Paid(t) == payments[t] > 0

\* An order is confirmed only when its payment went through, however events are
\* lost, doubled, delivered again or outlived by a crash: only a payment speaks of
\* a success.
ConfirmedIsPaid == \A t \in Tx : orders[t] = "CONFIRMED" => Paid(t)

\* Nobody keeps a record of the orders that have been paid.  That an order is
\* paid once rests on the producer, which must not write it twice, and on the
\* consumer's place in the topic: each time it goes back, the order may be paid
\* once more.  A crash alone, wherever it comes, does not take it back.
PaidOnce ==
  "dup" \notin faults =>
    \A t \in Tx : /\ payments[t] <= 1 + orderReader.returns
                  /\ "lost" \notin faults => payments[t] <= 1

\* On them rests, too, that a cancelled order has taken no money and that no later
\* event, which overwrites any outcome, cancels an order that was paid; and on the
\* database, whose answer to a COMMIT must not be lost.
CancelledIsUnpaid ==
  {"dup", "lost"} \cap faults = {} =>
    \A t \in Tx : orders[t] = "CANCELLED" => ~Paid(t)

\* A saga is carried through while nothing is lost: an order leaves PENDING, and
\* money that was taken gets its order confirmed.
OrderSettles ==
  \A t \in Tx :
    /\ faults \subseteq {"dup"} /\ orders[t] = "PENDING"
         ~> orders[t] \in {"CONFIRMED", "CANCELLED"}
    /\ faults = {} /\ Paid(t) ~> orders[t] = "CONFIRMED"
=============================================================================
