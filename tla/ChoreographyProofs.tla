------------------------ MODULE ChoreographyProofs ------------------------
(***************************************************************************)
(* What holds of the choreographed saga for any number of orders, accounts *)
(* and amounts, for topics of any length and for every set of faults.      *)
(*                                                                         *)
(* The argument follows the one word that speaks for an order: written by  *)
(* the handler of POST /orders, it is in the topic, then with the payment  *)
(* consumer, which turns it into a verdict; the verdict is in the other    *)
(* topic, then with the order consumer, then in the orders table.  A word  *)
(* that was written once is ahead of its reader or in its hands, or is     *)
(* past; a payment is made as it passes, and it passes again only if the   *)
(* reader goes back.                                                       *)
(***************************************************************************)
EXTENDS SagaChoreography, TLAPS

Holds(topic, event) == \E i \in 1..Len(topic) : topic[i] = event

Distinct(topic) ==
  \A i, j \in 1..Len(topic) : topic[i] = topic[j] => i = j

\* The word is ahead of the payment service's reader.
Ahead(t) ==
  \E i \in 1..Len(orderEvents) : i > orderReader.next /\ orderEvents[i] = t

Paying(t) == payer.doing = "paying" /\ payer.order = t

\* The payments that are still to be made, if nothing goes back.
Due(t) == (IF Ahead(t) THEN 1 ELSE 0) + (IF Paying(t) THEN 1 ELSE 0)

Unpublished(t) == post[t] \in {"idle", "created"}

\* The payment consumer has not handled the order yet.
Unhandled(t) == Unpublished(t) \/ Ahead(t) \/ Paying(t)

\* The verdict of the payment consumer, wherever it has got to.
Telling(t, status)  ==
  payer.doing = "telling" /\ payer.order = t /\ payer.status = status
Told(t, status)     == Holds(paymentEvents, [order |-> t, status |-> status])
Updating(t, status) ==
  updater.doing = "updating" /\ updater.order = t /\ updater.status = status
Settled(t, status)  ==
  orders[t] = IF status = "SUCCESS" THEN "CONFIRMED" ELSE "CANCELLED"

Verdict(t, status) ==
  Telling(t, status) \/ Told(t, status) \/ Updating(t, status) \/ Settled(t, status)

\* Only a payment speaks of a success.
SuccessIsPaid == \A t \in Tx : Verdict(t, "SUCCESS") => payments[t] > 0

\* An order's word is written once, and what has been paid for it and what it
\* still owes are accounted for by the returns of the reader.
WordIsSingle ==
  /\ Distinct(orderEvents)
  /\ \A t \in Tx : Unpublished(t) => ~Holds(orderEvents, t) /\ ~Paying(t) /\ payments[t] = 0
  /\ \A t \in Tx : payments[t] + Due(t) <= 1 + orderReader.returns

\* Where no connection breaks, the reader is where its group is.
ReaderIsCommitted == orderReader.offset = orderReader.next /\ orderReader.returns = 0

\* What has not been handled has no verdict, and nobody has paid for what failed.
VerdictIsFinal ==
  /\ \A t \in Tx : Unhandled(t) => ~Verdict(t, "FAILED")
  /\ \A t \in Tx : Verdict(t, "FAILED") => payments[t] = 0

IInv ==
  /\ TypeOK
  /\ SuccessIsPaid
  /\ "dup" \notin faults => WordIsSingle
  /\ "lost" \notin faults => ReaderIsCommitted
  /\ {"dup", "lost"} \cap faults = {} => VerdictIsFinal

-----------------------------------------------------------------------------
(***************************************************************************)
(* Topics.                                                                 *)
(***************************************************************************)
\* A publication adds nothing but the event, which it adds once at most while
\* the producer doubles nothing.
LEMMA WrittenHolds ==
  ASSUME NEW S, NEW topic \in Seq(S), NEW event \in S, NEW new,
         new \in Written(topic, event)
  PROVE  /\ new \in Seq(S)
         /\ \A e : Holds(new, e) => Holds(topic, e) \/ e = event
         /\ \A i \in 1..Len(new) :
              (i \in 1..Len(topic) /\ new[i] = topic[i]) \/ new[i] = event
         /\ "dup" \notin faults /\ Distinct(topic) /\ ~Holds(topic, event)
              => Distinct(new)
<1>1. CASE new = topic
  BY <1>1
<1>2. CASE new = Append(topic, event)
  <2>1. /\ new \in Seq(S) /\ Len(new) = Len(topic) + 1 /\ Len(topic) \in Nat
        /\ \A i \in 1..Len(topic) : new[i] = topic[i]
        /\ new[Len(topic) + 1] = event
    BY <1>2
  <2>2. \A i \in 1..Len(new) : i \in 1..Len(topic) \/ i = Len(topic) + 1
    BY <2>1
  <2>. QED BY <2>1, <2>2 DEF Holds, Distinct
<1>3. CASE "dup" \in faults /\ new = topic \o <<event, event>>
  <2>1. <<event, event>> \in Seq(S)
    OBVIOUS
  <2>2. /\ new \in Seq(S) /\ Len(new) = Len(topic) + 2 /\ Len(topic) \in Nat
        /\ \A i \in 1..Len(new) :
             new[i] = IF i <= Len(topic) THEN topic[i]
                                         ELSE <<event, event>>[i - Len(topic)]
    BY <1>3, <2>1
  <2>3. \A i \in 1..Len(new) : (i \in 1..Len(topic) /\ new[i] = topic[i]) \/ new[i] = event
    BY <2>2
  <2>. QED BY <1>3, <2>2, <2>3 DEF Holds
<1>. QED BY <1>1, <1>2, <1>3 DEF Written

\* A reader that joins again keeps its offset, and goes back or has lost nothing.
LEMMA RejoinedReader ==
  ASSUME NEW r \in Reader
  PROVE  /\ Rejoined(r) \in Reader
         /\ Rejoined(r).offset = r.offset
         /\ Rejoined(r).next = r.offset
         /\ Rejoined(r).returns >= r.returns
         /\ Rejoined(r).next < r.next => Rejoined(r).returns = r.returns + 1
         /\ r.offset = r.next =>
              Rejoined(r).next = r.next /\ Rejoined(r).returns = r.returns
<1>1. r.next \in Nat /\ r.offset \in Nat /\ r.returns \in Nat
  BY DEF Reader
<1>2. CASE r.offset < r.next
  BY <1>1, <1>2 DEF Rejoined, Reader
<1>3. CASE ~(r.offset < r.next)
  BY <1>1, <1>3 DEF Rejoined, Reader
<1>. QED BY <1>2, <1>3

\* A reader that is given an event is past it, or goes back.
LEMMA MovesReader ==
  ASSUME NEW r \in Reader, NEW m \in Moves(r),
         NEW new \in {m, [m EXCEPT !.offset = r.next + 1]}
  PROVE  /\ new \in Reader
         /\ new.returns >= r.returns
         /\ new.next <= r.next => new.returns = r.returns + 1
         /\ "lost" \notin faults =>
              new.next = r.next + 1 /\ new.returns = r.returns
<1>. DEFINE p == [r EXCEPT !.next = r.next + 1]
<1>1. r.next \in Nat /\ r.offset \in Nat /\ r.returns \in Nat
  BY DEF Reader
<1>2. p \in Reader /\ p.next = r.next + 1 /\ p.returns = r.returns
  BY <1>1 DEF Reader
<1>3. m = p \/ ("lost" \in faults /\ m = Rejoined(p))
  BY DEF Moves
<1>. HIDE DEF p
<1>4. /\ m \in Reader
      /\ m.returns >= r.returns
      /\ m.next <= r.next => m.returns = r.returns + 1
      /\ "lost" \notin faults => m.next = r.next + 1 /\ m.returns = r.returns
  <2>1. CASE m = p
    BY <1>1, <1>2, <2>1
  <2>2. CASE "lost" \in faults /\ m = Rejoined(p)
    <3>1. /\ m \in Reader /\ m.returns >= p.returns
          /\ m.next < p.next => m.returns = p.returns + 1
      BY <1>2, <2>2, RejoinedReader
    <3>2. m.next \in Nat
      BY <3>1 DEF Reader
    <3>. QED BY <1>1, <1>2, <2>2, <3>1, <3>2
  <2>. QED BY <1>3, <2>1, <2>2
<1>5. CASE new = m
  BY <1>4, <1>5
<1>6. CASE new = [m EXCEPT !.offset = r.next + 1]
  <2>1. new \in Reader /\ new.next = m.next /\ new.returns = m.returns
    BY <1>1, <1>4, <1>6 DEF Reader
  <2>. QED BY <1>4, <2>1
<1>. QED BY <1>5, <1>6

-----------------------------------------------------------------------------
USE AccountAssumption, AmountAssumption, FaultsAssumption, Balance0Assumption,
    MaxReturnsAssumption
USE DEF given, orderVars, paymentVars, topics, readers, vars, TypeOK, Status, Idle,
        Payer, Updater, Paying, Unpublished, Unhandled, Telling, Told, Updating,
        Settled, Verdict, SuccessIsPaid, WordIsSingle, ReaderIsCommitted, VerdictIsFinal

LEMMA InitIInv == Init => IInv
<1>. SUFFICES ASSUME Init PROVE IInv
  OBVIOUS
<1>1. /\ orderEvents = <<>> /\ paymentEvents = <<>>
      /\ \A e : ~Holds(orderEvents, e) /\ ~Holds(paymentEvents, e)
      /\ \A t : ~Ahead(t)
      /\ Distinct(orderEvents)
  BY DEF Init, OrderInit, PaymentInit, Holds, Distinct, Ahead
<1>2. TypeOK
  BY <1>1, ExposuresAssumption DEF Init, OrderInit, PaymentInit, Request, AtStart, Reader
<1>3. payer = Idle /\ updater = Idle /\ \A t \in Tx : payments[t] = 0 /\ orders[t] = "none"
  BY DEF Init, OrderInit, PaymentInit
<1>4. orderReader = [next |-> 0, offset |-> 0, returns |-> 0]
  BY DEF Init, PaymentInit, AtStart
<1>5. WordIsSingle
  <2>1. ASSUME NEW t \in Tx PROVE Due(t) = 0
    <3>1. ~Paying(t)
      BY <1>3
    <3>2. ~Ahead(t)
      BY <1>1
    <3>. HIDE DEF Paying
    <3>. QED BY <3>1, <3>2 DEF Due
  <2>. QED BY <1>1, <1>3, <1>4, <2>1
<1>. QED BY <1>1, <1>2, <1>3, <1>4, <1>5 DEF IInv

\* A step that leaves the words of the orders where they are, but for a reader
\* that may join again and a consumer that may forget what it has in hand.
LEMMA WordsUntouched ==
  ASSUME IInv, TypeOK', UNCHANGED <<faults, orderEvents, payments>>,
         \A u \in Tx : Unpublished(u)' => Unpublished(u),
         \A u \in Tx : Paying(u)' => Paying(u),
         \A u \in Tx, s \in Status : Verdict(u, s)' => Verdict(u, s),
         orderReader' \in {orderReader, Rejoined(orderReader)}
  PROVE  IInv'
<1>1. /\ orderReader.next \in Nat /\ orderReader.returns \in Nat
      /\ orderReader'.next \in Nat /\ orderReader'.returns \in Nat
  <2>1. orderReader \in Reader /\ orderReader' \in Reader
    BY DEF IInv
  <2>. QED BY <2>1 DEF Reader
<1>2. /\ orderReader'.returns >= orderReader.returns
      /\ orderReader'.next < orderReader.next =>
           orderReader'.returns = orderReader.returns + 1
      /\ orderReader'.offset = orderReader.offset
      /\ orderReader.offset = orderReader.next =>
           /\ orderReader'.next = orderReader.next
           /\ orderReader'.returns = orderReader.returns
  <2>1. orderReader \in Reader
    BY DEF IInv
  <2>2. CASE orderReader' = orderReader
    BY <1>1, <2>2
  <2>3. CASE orderReader' = Rejoined(orderReader)
    BY <2>1, <2>3, RejoinedReader
  <2>. QED BY <2>2, <2>3
<1>3. "lost" \notin faults => ReaderIsCommitted' /\ orderReader'.next = orderReader.next
  BY <1>2 DEF IInv
<1>4. SuccessIsPaid'
  BY DEF IInv
<1>5. ASSUME NEW u \in Tx, Ahead(u)', ~Ahead(u)
      PROVE  orderReader'.returns = orderReader.returns + 1
  <2>1. orderReader'.next < orderReader.next
    <3>1. PICK i \in 1..Len(orderEvents) : i > orderReader'.next /\ orderEvents[i] = u
      BY <1>5 DEF Ahead
    <3>2. ~(i > orderReader.next)
      BY <1>5, <3>1 DEF Ahead
    <3>. QED BY <1>1, <1>2, <3>1, <3>2
  <2>. QED BY <1>2, <2>1
<1>6. ASSUME "dup" \notin faults PROVE WordIsSingle'
  <2>1. ASSUME NEW u \in Tx PROVE payments[u] + Due(u)' <= 1 + orderReader'.returns
    <3>1. payments[u] + Due(u) <= 1 + orderReader.returns /\ payments[u] \in Nat
      BY <1>6 DEF IInv
    <3>2. /\ Due(u)' <= Due(u) + (orderReader'.returns - orderReader.returns)
          /\ Due(u)' \in Int /\ Due(u) \in Int
      BY <1>1, <1>2, <1>5 DEF Due
    <3>. QED BY <1>1, <1>2, <3>1, <3>2
  <2>2. \A u \in Tx : Holds(orderEvents, u)' = Holds(orderEvents, u)
    BY DEF Holds
  <2>3. Distinct(orderEvents)' = Distinct(orderEvents)
    BY DEF Distinct
  <2>. QED BY <1>6, <2>1, <2>2, <2>3 DEF IInv
<1>7. ASSUME {"dup", "lost"} \cap faults = {} PROVE VerdictIsFinal'
  <2>1. \A u \in Tx : Unhandled(u)' => Unhandled(u)
    BY <1>3, <1>7 DEF Ahead
  <2>2. VerdictIsFinal
    BY <1>7 DEF IInv
  <2>3. \A u \in Tx : Verdict(u, "FAILED")' => Verdict(u, "FAILED")
    OBVIOUS
  <2>. QED BY <2>1, <2>2, <2>3
<1>. QED BY <1>3, <1>4, <1>6, <1>7 DEF IInv

LEMMA CreateOrderKeepsInv ==
  ASSUME IInv, NEW t \in Tx, CreateOrder(t)
  PROVE  IInv'
<1>1. TypeOK'
  BY DEF IInv, CreateOrder
<1>2. \A u \in Tx : Paying(u)' = Paying(u)
  BY DEF CreateOrder
<1>3. \A u \in Tx, s \in Status : Verdict(u, s)' => Verdict(u, s)
  BY DEF IInv, CreateOrder
<1>4. \A u \in Tx : Unpublished(u)' => Unpublished(u)
  BY DEF IInv, CreateOrder
<1>. QED BY <1>1, <1>2, <1>3, <1>4, WordsUntouched DEF CreateOrder

LEMMA PublishOrderKeepsInv ==
  ASSUME IInv, NEW t \in Tx, PublishOrder(t)
  PROVE  IInv'
<1>1. /\ orderEvents' \in Seq(Tx)
      /\ \A e : Holds(orderEvents', e) => Holds(orderEvents, e) \/ e = t
      /\ "dup" \notin faults /\ Distinct(orderEvents) /\ ~Holds(orderEvents, t)
           => Distinct(orderEvents')
      /\ \A i \in 1..Len(orderEvents') :
           \/ i \in 1..Len(orderEvents) /\ orderEvents'[i] = orderEvents[i]
           \/ orderEvents'[i] = t
  BY WrittenHolds DEF PublishOrder, IInv
<1>2. TypeOK'
  BY <1>1 DEF IInv, PublishOrder
<1>3. /\ post[t] = "created" /\ post' = [post EXCEPT ![t] = "done"]
      /\ UNCHANGED <<faults, orders, updater, payer, payments, paymentEvents, orderReader>>
  BY DEF PublishOrder
<1>4. \A u \in Tx : /\ Paying(u)' = Paying(u)
                    /\ Ahead(u)' => Ahead(u) \/ u = t
                    /\ Unpublished(u)' => Unpublished(u) /\ u # t
                    /\ Unhandled(u)' => Unhandled(u)
  BY <1>1, <1>3 DEF IInv, Ahead
<1>5. \A u \in Tx, s \in Status : Verdict(u, s)' = Verdict(u, s)
  BY <1>3
<1>6. SuccessIsPaid' /\ ("lost" \notin faults => ReaderIsCommitted')
  BY <1>3, <1>5 DEF IInv
<1>7. {"dup", "lost"} \cap faults = {} => VerdictIsFinal'
  BY <1>3, <1>4, <1>5 DEF IInv
<1>8. ASSUME "dup" \notin faults PROVE WordIsSingle'
  <2>1. ASSUME NEW u \in Tx PROVE payments[u] + Due(u)' <= 1 + orderReader.returns
    <3>1. payments[u] + Due(u) <= 1 + orderReader.returns /\ payments[u] \in Nat
          /\ orderReader.returns \in Nat
      BY <1>8 DEF IInv, Reader
    <3>2. CASE u = t
      <4>1. payments[u] = 0 /\ ~Paying(u)
        BY <1>3, <1>8, <3>2 DEF IInv
      <4>2. Due(u)' <= 1 /\ Due(u)' \in Int
        BY <1>4, <4>1 DEF Due
      <4>. QED BY <3>1, <4>1, <4>2
    <3>3. CASE u # t
      <4>1. Due(u)' <= Due(u) /\ Due(u)' \in Int /\ Due(u) \in Int
        BY <1>4, <3>3 DEF Due
      <4>. QED BY <3>1, <4>1
    <3>. QED BY <3>2, <3>3
  <2>2. Distinct(orderEvents')
    BY <1>1, <1>3, <1>8 DEF IInv
  <2>3. \A u \in Tx : Unpublished(u)' =>
          ~Holds(orderEvents', u) /\ ~Paying(u)' /\ payments[u] = 0
    BY <1>1, <1>4, <1>8 DEF IInv
  <2>4. Distinct(orderEvents)' <=> Distinct(orderEvents')
    BY DEF Distinct
  <2>5. \A u \in Tx : Holds(orderEvents, u)' <=> Holds(orderEvents', u)
    BY DEF Holds
  <2>. QED BY <1>3, <2>1, <2>2, <2>3, <2>4, <2>5
<1>. QED BY <1>2, <1>3, <1>6, <1>7, <1>8 DEF IInv

\* The event that a reader with unread events is at.
LEMMA UnreadEvent ==
  ASSUME NEW S, NEW topic \in Seq(S), NEW r \in Reader, Unread(r, topic)
  PROVE  /\ r.next + 1 \in 1..Len(topic) /\ topic[r.next + 1] \in S
         /\ Holds(topic, topic[r.next + 1])
<1>1. r.next \in Nat /\ Len(topic) \in Nat /\ r.next < Len(topic)
  BY DEF Reader, Unread
<1>2. r.next + 1 \in 1..Len(topic)
  BY <1>1
<1>. QED BY <1>2 DEF Holds

LEMMA ReadOrderKeepsInv ==
  ASSUME IInv, ReadOrder
  PROVE  IInv'
<1>. DEFINE n == orderReader.next + 1
            r == orderReader
<1>1. /\ n \in 1..Len(orderEvents) /\ orderEvents[n] \in Tx
      /\ Holds(orderEvents, orderEvents[n])
      /\ r \in Reader /\ r.next \in Nat /\ r.returns \in Nat
  <2>1. r \in Reader /\ orderEvents \in Seq(Tx) /\ Unread(r, orderEvents)
    BY DEF IInv, ReadOrder
  <2>. QED BY <2>1, UnreadEvent DEF Reader
<1>event. PICK t \in Tx : t = orderEvents[n] /\ Holds(orderEvents, t)
  BY <1>1
<1>2. PICK m \in Moves(orderReader) :
        LET kept == [m EXCEPT !.offset = orderReader.next + 1] IN
        \/ /\ orderReader' = kept
           /\ payer' = [doing |-> "paying", order |-> orderEvents[orderReader.next + 1]]
        \/ "lost" \in faults /\ orderReader' \in {kept, m} /\ UNCHANGED payer
  BY DEF ReadOrder
<1>3. /\ orderReader' \in {m, [m EXCEPT !.offset = r.next + 1]}
      /\ "lost" \notin faults => orderReader' = [m EXCEPT !.offset = r.next + 1]
      /\ payer' \in {[doing |-> "paying", order |-> t], Idle}
      /\ "lost" \notin faults => payer' = [doing |-> "paying", order |-> t]
  BY <1>event, <1>2 DEF ReadOrder
<1>4. /\ payer = Idle
      /\ UNCHANGED <<given, orderVars, balance, payments, topics, paymentReader>>
  BY DEF ReadOrder
<1>5. /\ r' \in Reader /\ r'.returns \in Nat /\ r'.next \in Nat
      /\ r'.returns >= r.returns
      /\ r'.next <= r.next => r'.returns = r.returns + 1
      /\ "lost" \notin faults => r'.next = n /\ r'.returns = r.returns
  <2>1. /\ r' \in Reader
        /\ r'.returns >= r.returns
        /\ r'.next <= r.next => r'.returns = r.returns + 1
        /\ "lost" \notin faults => r'.next = n /\ r'.returns = r.returns
    <3>. HIDE DEF n
    <3>1. orderReader \in Reader
      BY <1>1
    <3>2. n = orderReader.next + 1
      BY DEF n
    <3>3. \A new \in {m, [m EXCEPT !.offset = orderReader.next + 1]} :
            /\ new \in Reader
            /\ new.returns >= orderReader.returns
            /\ new.next <= orderReader.next => new.returns = orderReader.returns + 1
            /\ "lost" \notin faults =>
                 new.next = orderReader.next + 1 /\ new.returns = orderReader.returns
      BY <3>1, MovesReader
    <3>. QED BY <1>3, <3>2, <3>3
  <2>. QED BY <2>1 DEF Reader
<1>6. "lost" \notin faults => ReaderIsCommitted'
  <2>1. ASSUME "lost" \notin faults PROVE r'.offset = n
    <3>1. m \in Reader
      BY <1>1, MovesReader
    <3>. QED BY <1>3, <2>1, <3>1 DEF Reader
  <2>. QED BY <1>5, <2>1 DEF IInv
<1>. HIDE DEF n
<1>7. TypeOK'
  BY <1>1, <1>3, <1>4, <1>5 DEF IInv
<1>8. \A u \in Tx : Paying(u)' => u = t
  BY <1>3
<1>9. \A u \in Tx, s \in Status : Verdict(u, s)' => Verdict(u, s)
  BY <1>3, <1>4
<1>10. SuccessIsPaid'
  BY <1>4, <1>9 DEF IInv
<1>11. Ahead(t)
  BY <1>event, <1>1 DEF Ahead, n
<1>12. ASSUME NEW u \in Tx, Ahead(u)', ~Ahead(u) PROVE r'.returns = r.returns + 1
  <2>1. PICK i \in 1..Len(orderEvents) : i > r'.next /\ orderEvents[i] = u
    BY <1>4, <1>12 DEF Ahead
  <2>2. ~(i > r.next)
    BY <1>12, <2>1 DEF Ahead
  <2>. QED BY <1>1, <1>5, <2>1, <2>2
<1>13. ASSUME "dup" \notin faults, Ahead(t)' PROVE r'.returns = r.returns + 1
  <2>1. PICK i \in 1..Len(orderEvents) : i > r'.next /\ orderEvents[i] = t
    BY <1>4, <1>13 DEF Ahead
  <2>2. i = n
    BY <1>event, <1>1, <1>13, <2>1 DEF IInv, Distinct
  <2>. QED BY <1>1, <1>5, <2>1, <2>2 DEF n
<1>14. ASSUME "dup" \notin faults PROVE WordIsSingle'
  <2>1. ASSUME NEW u \in Tx PROVE payments[u] + Due(u)' <= 1 + r'.returns
    <3>1. payments[u] + Due(u) <= 1 + r.returns /\ payments[u] \in Nat
      BY <1>14 DEF IInv
    <3>2. Due(u)' <= Due(u) + (r'.returns - r.returns) /\ Due(u)' \in Int /\ Due(u) \in Int
      <4>1. ~Paying(u)
        BY <1>4
      <4>2. CASE u = t
        BY <1>1, <1>5, <1>11, <1>13, <1>14, <4>1, <4>2 DEF Due
      <4>3. CASE u # t
        BY <1>1, <1>5, <1>8, <1>12, <4>1, <4>3 DEF Due
      <4>. QED BY <4>2, <4>3
    <3>. QED BY <1>1, <1>5, <3>1, <3>2
  <2>2. ASSUME NEW u \in Tx, Unpublished(u)'
        PROVE ~Holds(orderEvents, u)' /\ ~Paying(u)' /\ payments'[u] = 0
    <3>1. ~Holds(orderEvents, u) /\ payments[u] = 0
      BY <1>4, <1>14, <2>2 DEF IInv
    <3>2. Holds(orderEvents, u)' = Holds(orderEvents, u)
      BY <1>4 DEF Holds
    <3>. QED BY <1>event, <1>4, <1>8, <3>1, <3>2
  <2>3. Distinct(orderEvents)'
    BY <1>4, <1>14 DEF IInv, Distinct
  <2>. QED BY <1>4, <2>1, <2>2, <2>3
<1>15. ASSUME {"dup", "lost"} \cap faults = {} PROVE VerdictIsFinal'
  <2>1. \A u \in Tx : Ahead(u)' => Ahead(u)
    BY <1>1, <1>5, <1>12, <1>15
  <2>2. \A u \in Tx : Unhandled(u)' => Unhandled(u)
    BY <1>4, <1>8, <1>11, <2>1
  <2>. QED BY <1>4, <1>9, <1>15, <2>2 DEF IInv
<1>. QED BY <1>4, <1>6, <1>7, <1>10, <1>14, <1>15 DEF IInv

LEMMA PayKeepsInv ==
  ASSUME IInv, Pay
  PROVE  IInv'
<1>1. PICK t \in Tx : t = payer.order /\ Paying(t)
  BY DEF Pay, IInv
<1>2. UNCHANGED <<given, orderVars, topics, readers>>
  BY DEF Pay
<1>3. PICK status \in Status :
        /\ \/ /\ Covered(t) /\ (status = "SUCCESS" \/ "lost" \in faults)
              /\ balance' = [balance EXCEPT ![req[t].account] = @ - req[t].amount]
              /\ payments' = [payments EXCEPT ![t] = @ + 1]
           \/ /\ status = "FAILED" /\ UNCHANGED <<balance, payments>>
        /\ payer' = [doing |-> "telling", order |-> t, status |-> status]
  BY <1>1 DEF Pay
<1>4. \/ /\ payments' = [payments EXCEPT ![t] = @ + 1]
         /\ "lost" \notin faults => status = "SUCCESS"
      \/ /\ payments' = payments
         /\ status = "FAILED"
  BY <1>3
<1>5. balance' \in [Account -> Int]
  <2>1. req[t].amount \in Int
    <3>1. req[t].amount \in Amount
      BY <1>1 DEF IInv, Request
    <3>. QED BY <3>1
  <2>. QED BY <1>3, <2>1 DEF IInv
<1>6. payments' \in [Tx -> Nat]
  <2>1. payments \in [Tx -> Nat] /\ payments[t] + 1 \in Nat
    BY <1>1 DEF IInv
  <2>. QED BY <1>4, <2>1
<1>7. TypeOK'
  BY <1>1, <1>2, <1>3, <1>5, <1>6 DEF IInv
<1>8. /\ \A u \in Tx : payments'[u] >= payments[u] /\ (u # t => payments'[u] = payments[u])
      /\ payments'[t] <= payments[t] + 1
      /\ status = "SUCCESS" => payments'[t] = payments[t] + 1
  BY <1>1, <1>4 DEF IInv
<1>9. \A u \in Tx, s \in Status : Verdict(u, s)' => Verdict(u, s) \/ (u = t /\ s = status)
  BY <1>2, <1>3
<1>10. SuccessIsPaid'
  <2>1. ASSUME NEW u \in Tx, Verdict(u, "SUCCESS") PROVE payments'[u] > 0
    <3>1. payments[u] > 0 /\ payments[u] \in Nat /\ payments'[u] \in Nat
      BY <1>6, <2>1 DEF IInv
    <3>. QED BY <1>8, <3>1
  <2>2. ASSUME status = "SUCCESS" PROVE payments'[t] > 0
    <3>1. payments[t] \in Nat
      BY DEF IInv
    <3>. QED BY <1>8, <2>2, <3>1
  <2>3. ASSUME NEW u \in Tx, Verdict(u, "SUCCESS")' PROVE payments'[u] > 0
    BY <1>9, <2>1, <2>2, <2>3
  <2>. QED BY <2>3
<1>11. \A u \in Tx : ~Paying(u)' /\ Ahead(u)' = Ahead(u)
                     /\ (Unhandled(u)' => Unhandled(u))
  BY <1>2, <1>3 DEF Ahead
<1>12. ASSUME "dup" \notin faults PROVE WordIsSingle'
  <2>1. ASSUME NEW u \in Tx PROVE payments'[u] + Due(u)' <= 1 + orderReader.returns
    <3>1. payments[u] + Due(u) <= 1 + orderReader.returns /\ payments[u] \in Nat
          /\ payments'[u] \in Nat /\ orderReader.returns \in Nat
      BY <1>6, <1>12 DEF IInv, Reader
    <3>2. CASE u = t
      <4>1. Due(u)' = Due(u) - 1 /\ Due(u) \in Int
        BY <1>1, <1>11, <3>2 DEF Due
      <4>. QED BY <1>8, <3>1, <3>2, <4>1
    <3>3. CASE u # t
      <4>1. Due(u)' <= Due(u) /\ Due(u)' \in Int /\ Due(u) \in Int
        BY <1>11, <3>3 DEF Due
      <4>. QED BY <1>8, <3>1, <3>3, <4>1
    <3>. QED BY <3>2, <3>3
  <2>2. \A u \in Tx : Unpublished(u) => u # t
    BY <1>1, <1>12 DEF IInv
  <2>3. \A u \in Tx : Holds(orderEvents, u)' = Holds(orderEvents, u)
    BY <1>2 DEF Holds
  <2>4. Distinct(orderEvents)' = Distinct(orderEvents)
    BY <1>2 DEF Distinct
  <2>. QED BY <1>2, <1>8, <1>11, <1>12, <2>1, <2>2, <2>3, <2>4 DEF IInv
<1>13. ASSUME {"dup", "lost"} \cap faults = {} PROVE VerdictIsFinal'
  <2>1. payments[t] = 0 /\ ~Ahead(t) /\ ~Unpublished(t)
    <3>1. payments[t] + Due(t) <= 1 /\ payments[t] \in Nat
      BY <1>13 DEF IInv
    <3>2. Due(t) = IF Ahead(t) THEN 2 ELSE 1
      BY <1>1 DEF Due
    <3>3. ~Unpublished(t)
      BY <1>1, <1>13 DEF IInv
    <3>. QED BY <3>1, <3>2, <3>3
  <2>2. ~Unhandled(t)'
    BY <1>2, <1>11, <2>1
  <2>3. ~Verdict(t, "FAILED")
    BY <1>1, <1>13 DEF IInv
  <2>4. ASSUME NEW u \in Tx, Verdict(u, "FAILED")' PROVE payments'[u] = 0
    <3>1. CASE u = t
      <4>1. status = "FAILED"
        BY <1>9, <2>3, <2>4, <3>1
      <4>. QED BY <1>4, <1>13, <2>1, <3>1, <4>1
    <3>2. CASE u # t
      BY <1>8, <1>9, <1>13, <2>4, <3>2 DEF IInv
    <3>. QED BY <3>1, <3>2
  <2>5. ASSUME NEW u \in Tx, Unhandled(u)' PROVE ~Verdict(u, "FAILED")'
    <3>1. u # t /\ Unhandled(u)
      BY <1>11, <2>2, <2>5
    <3>2. ~Verdict(u, "FAILED")
      BY <1>13, <3>1 DEF IInv
    <3>. QED BY <1>9, <3>1, <3>2
  <2>. QED BY <2>4, <2>5
<1>14. "lost" \notin faults => ReaderIsCommitted'
  BY <1>2 DEF IInv
<1>. QED BY <1>2, <1>7, <1>10, <1>12, <1>13, <1>14 DEF IInv

LEMMA PublishPaymentKeepsInv ==
  ASSUME IInv, PublishPayment
  PROVE  IInv'
<1>. DEFINE event == [order |-> payer.order, status |-> payer.status]
<1>1. event \in PaymentEvent /\ Telling(event.order, event.status)
  BY DEF PublishPayment, IInv, PaymentEvent
<1>2. /\ paymentEvents' \in Written(paymentEvents, event)
      /\ payer' = Idle
      /\ UNCHANGED <<given, orderVars, balance, payments, orderEvents, readers>>
  BY DEF PublishPayment
<1>. HIDE DEF event
<1>3. /\ paymentEvents' \in Seq(PaymentEvent)
      /\ \A e : Holds(paymentEvents', e) => Holds(paymentEvents, e) \/ e = event
  BY <1>1, <1>2, WrittenHolds DEF IInv
<1>4. TypeOK'
  BY <1>2, <1>3 DEF IInv
<1>5. \A u \in Tx, s \in Status : Verdict(u, s)' => Verdict(u, s)
  <2>. SUFFICES ASSUME NEW u \in Tx, NEW s \in Status, Told(u, s)'
                PROVE  Verdict(u, s)
    BY <1>2
  <2>1. CASE Told(u, s)
    BY <2>1
  <2>2. CASE [order |-> u, status |-> s] = event
    <3>1. event.order = u /\ event.status = s
      BY <2>2
    <3>. QED BY <1>1, <3>1
  <2>. QED BY <1>3, <2>1, <2>2
<1>6. \A u \in Tx : ~Paying(u)' /\ Unpublished(u)' = Unpublished(u)
  BY <1>2
<1>. QED BY <1>2, <1>4, <1>5, <1>6, WordsUntouched

LEMMA OrderConsumerKeepsInv ==
  ASSUME IInv, OrderConsumer
  PROVE  IInv'
<1>1. UNCHANGED <<given, post, paymentVars, topics, orderReader>>
  BY DEF OrderConsumer, ReadPayment, UpdateOrder
<1>2. TypeOK' /\ \A u \in Tx, s \in Status : Verdict(u, s)' => Verdict(u, s)
  <2>1. CASE ReadPayment
    <3>. DEFINE event == paymentEvents[paymentReader.next + 1]
    <3>1. event \in PaymentEvent /\ Holds(paymentEvents, event)
      BY <2>1, UnreadEvent DEF ReadPayment, IInv
    <3>2. PICK m \in Moves(paymentReader) :
            LET kept == [m EXCEPT !.offset = paymentReader.next + 1] IN
            \/ /\ paymentReader' = kept
               /\ updater' = [doing |-> "updating", order |-> event.order,
                              status |-> event.status]
            \/ "lost" \in faults /\ paymentReader' \in {kept, m} /\ UNCHANGED updater
      BY <2>1 DEF ReadPayment
    <3>3. /\ updater = Idle /\ UNCHANGED orders
          /\ updater' \in {[doing |-> "updating", order |-> event.order,
                            status |-> event.status], Idle}
          /\ paymentReader' \in {m, [m EXCEPT !.offset = paymentReader.next + 1]}
      BY <2>1, <3>2 DEF ReadPayment
    <3>4. paymentReader' \in Reader
      BY <3>3, MovesReader DEF IInv
    <3>. HIDE DEF event
    <3>5. TypeOK'
      BY <1>1, <3>1, <3>3, <3>4 DEF IInv, PaymentEvent
    <3>6. event = [order |-> event.order, status |-> event.status]
      BY <3>1 DEF PaymentEvent
    <3>7. ASSUME NEW u \in Tx, NEW s \in Status, Verdict(u, s)' PROVE Verdict(u, s)
      <4>1. CASE Updating(u, s)'
        <5>1. event.order = u /\ event.status = s
          BY <3>3, <4>1
        <5>. QED BY <3>1, <3>6, <5>1
      <4>2. CASE ~Updating(u, s)'
        BY <1>1, <3>3, <3>7, <4>2
      <4>. QED BY <4>1, <4>2
    <3>. QED BY <3>5, <3>7
  <2>2. CASE UpdateOrder
    <3>1. /\ updater.doing = "updating" /\ updater.order \in Tx /\ updater.status \in Status
      BY <2>2 DEF UpdateOrder, IInv
    <3>. QED BY <1>1, <2>2, <3>1 DEF UpdateOrder, IInv
  <2>. QED BY <2>1, <2>2 DEF OrderConsumer
<1>3. \A u \in Tx : Paying(u)' = Paying(u) /\ Unpublished(u)' = Unpublished(u)
  BY <1>1
<1>. QED BY <1>1, <1>2, <1>3, WordsUntouched

LEMMA ReturnKeepsInv ==
  ASSUME IInv, OrderCrash \/ PaymentCrash \/ RejoinOrder \/ RejoinPayment
  PROVE  IInv'
<1>1. UNCHANGED <<given, orders, balance, payments, topics>>
  BY DEF OrderCrash, PaymentCrash, RejoinOrder, RejoinPayment
<1>2. /\ orderReader' \in {orderReader, Rejoined(orderReader)}
      /\ paymentReader' \in {paymentReader, Rejoined(paymentReader)}
  BY DEF OrderCrash, PaymentCrash, RejoinOrder, RejoinPayment
<1>3. payer' \in {payer, Idle} /\ updater' \in {updater, Idle}
  BY DEF OrderCrash, PaymentCrash, RejoinOrder, RejoinPayment
<1>4. /\ post' \in [Tx -> {"idle", "created", "done", "failed", "dead"}]
      /\ \A u \in Tx : Unpublished(u)' => Unpublished(u)
  BY DEF OrderCrash, PaymentCrash, RejoinOrder, RejoinPayment, IInv
<1>5. orderReader' \in Reader /\ paymentReader' \in Reader
  BY <1>2, RejoinedReader DEF IInv
<1>6. TypeOK'
  BY <1>1, <1>3, <1>4, <1>5 DEF IInv
<1>7. \A u \in Tx, s \in Status : Verdict(u, s)' => Verdict(u, s)
  BY <1>1, <1>3
<1>8. \A u \in Tx : Paying(u)' => Paying(u)
  BY <1>3
<1>. QED BY <1>1, <1>2, <1>4, <1>6, <1>7, <1>8, WordsUntouched

LEMMA IInvStep == IInv /\ [Next]_vars => IInv'
<1>. SUFFICES ASSUME IInv, [Next]_vars PROVE IInv'
  OBVIOUS
<1>1. ASSUME NEW t \in Tx, CreateOrder(t) PROVE IInv'
  BY <1>1, CreateOrderKeepsInv
<1>2. ASSUME NEW t \in Tx, PublishOrder(t) PROVE IInv'
  BY <1>2, PublishOrderKeepsInv
<1>3. CASE PaymentConsumer
  BY <1>3, ReadOrderKeepsInv, PayKeepsInv, PublishPaymentKeepsInv DEF PaymentConsumer
<1>4. CASE OrderConsumer
  BY <1>4, OrderConsumerKeepsInv
<1>5. CASE OrderCrash \/ PaymentCrash \/ RejoinOrder \/ RejoinPayment
  BY <1>5, ReturnKeepsInv
<1>6. CASE UNCHANGED vars
  <2>1. UNCHANGED <<given, post, orders, updater, payer, balance, payments, orderEvents,
                    paymentEvents, orderReader, paymentReader>>
    BY <1>6
  <2>2. TypeOK'
    BY <2>1 DEF IInv
  <2>. QED BY <2>1, <2>2, WordsUntouched
<1>. QED BY <1>1, <1>2, <1>3, <1>4, <1>5, <1>6 DEF Next, Quiet

LEMMA Invariance == Spec => []IInv
  BY InitIInv, IInvStep, PTL DEF Spec

-----------------------------------------------------------------------------
\* Every value a variable of the saga takes is of its type.
THEOREM TypeCorrect == Spec => []TypeOK
<1>1. IInv => TypeOK
  BY DEF IInv
<1>. QED BY <1>1, Invariance, PTL

\* No order is confirmed without a payment, whatever is lost, doubled, delivered
\* again or dies.
THEOREM ConfirmedIsPaidHolds == Spec => []ConfirmedIsPaid
<1>1. IInv => ConfirmedIsPaid
  BY DEF IInv, ConfirmedIsPaid, Paid
<1>. QED BY <1>1, Invariance, PTL

\* While the producer doubles nothing, an order is paid once, and once more at most
\* for each time that the payment service's reader goes back; without broken
\* connections it never does, and once is all, through any crash.
THEOREM PaidOnceHolds == Spec => []PaidOnce
<1>1. ASSUME IInv, "dup" \notin faults, NEW t \in Tx
      PROVE  /\ payments[t] <= 1 + orderReader.returns
             /\ "lost" \notin faults => payments[t] <= 1
  <2>1. payments[t] + Due(t) <= 1 + orderReader.returns
    BY <1>1 DEF IInv
  <2>2. payments[t] \in Nat /\ orderReader.returns \in Nat
    BY <1>1 DEF IInv, Reader
  <2>3. Due(t) \in Nat
    BY DEF Due
  <2>4. "lost" \notin faults => orderReader.returns = 0
    BY <1>1 DEF IInv
  <2>. QED BY <2>1, <2>2, <2>3, <2>4
<1>2. IInv => PaidOnce
  BY <1>1 DEF PaidOnce
<1>. QED BY <1>2, Invariance, PTL

\* While nothing is doubled and no connection breaks, an order that is cancelled has
\* taken no money, even though a later verdict overwrites an earlier one.
THEOREM CancelledIsUnpaidHolds == Spec => []CancelledIsUnpaid
<1>1. ASSUME IInv, {"dup", "lost"} \cap faults = {}, NEW t \in Tx, orders[t] = "CANCELLED"
      PROVE  ~Paid(t)
  <2>1. Verdict(t, "FAILED")
    BY <1>1
  <2>2. payments[t] = 0
    BY <1>1, <2>1 DEF IInv
  <2>. QED BY <2>2 DEF Paid
<1>2. IInv => CancelledIsUnpaid
  BY <1>1 DEF CancelledIsUnpaid
<1>. QED BY <1>2, Invariance, PTL
=============================================================================
