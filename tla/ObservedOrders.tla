--------------------------- MODULE ObservedOrders ---------------------------
(***************************************************************************)
(* The observability demo: POST /orders of the order service, which asks   *)
(* the product service for the product with a client that waits five       *)
(* seconds at most, numbers and stores the order in memory, and counts it; *)
(* the middleware of both services counts every request it has handled.    *)
(* The order service may be told to shut down, which gives its handlers    *)
(* ten seconds, or be killed, and starts again with nothing.               *)
(*                                                                         *)
(* Time passes in ticks, and only while every handler waits for a client   *)
(* or the product service: what it does itself takes no time beside the    *)
(* two timeouts.  An answer fits into the server's buffer, so it leaves    *)
(* when the middleware is done.  The endpoints that only read are left out.*)
(***************************************************************************)
EXTENDS Integers, FiniteSets

CONSTANTS
  Req,          \* requests, each one posted once
  Product,      \* ids of the product catalogue
  ProductID,    \* ids that requests ask for
  Malformed,    \* a body that does not pass the binding
  Timeout,      \* of the HTTP client (5 s), in ticks
  Grace,        \* of the shutdown (10 s), in ticks
  Faults,       \* of "lost": connections break, clients go; "crash"
  MaxStarts     \* bound: how often the order service is started

ASSUME ReqAssumption == IsFiniteSet(Req)
ASSUME TimeAssumption == {Timeout, Grace} \subseteq Nat \ {0} /\ Timeout < Grace
ASSUME BodyAssumption == Product \subseteq ProductID /\ Malformed \notin ProductID
ASSUME BoundAssumption == MaxStarts \in Nat

VARIABLES
  body,      \* body[r], the product that request r asks for
  process,   \* the order service: up, draining or down
  drained,   \* ticks since it was told to shut down
  starts,    \* how often it was started
  pc,        \* pc[r], where the handler of request r is
  age,       \* age[r], ticks since it asked the product service
  call,      \* call[r], that call, as the product service sees it
  status,    \* status[r], of the answer
  number,    \* number[r], the one in the ID of the order of r
  life,      \* life[r], the start of the order service that r belongs to
  orders,    \* orders[n], the request whose order is stored under number n
  orderSeq,
  created,   \* orders_created_total
  requests,  \* requests[s], order_http_requests_total of status s
  lookups,   \* lookups[s], the same of the product service
  productKilled

clocks      == <<drained, age>>
storeVars   == <<orders, orderSeq, created>>
productVars == <<call, lookups, productKilled>>
orderVars   == <<process, starts, pc, status, number, life, requests>>
vars == <<body, clocks, orderVars, storeVars, productVars>>

Status == {200, 201, 400, 404, 500}
\* A handler with the whole body of its request.
Handling == {"fetching", "fetched", "stored", "done", "counted"}
Place    == Handling \cup {"idle", "binding", "answered", "unread", "dropped", "killed"}

TypeOK ==
  /\ body \in [Req -> ProductID \cup {Malformed}]
  /\ process \in {"up", "draining", "down"} /\ drained \in 0..Grace /\ starts \in 0..MaxStarts
  /\ pc \in [Req -> Place] /\ age \in [Req -> 0..Timeout]
  /\ call \in [Req -> {"none", "sent", "found", "missing", "ok", "error", "dead"}]
  /\ status \in [Req -> Status \cup {0}] /\ number \in [Req -> 0..Cardinality(Req)]
  /\ life \in [Req -> 0..MaxStarts]
  /\ orders \in [1..Cardinality(DOMAIN orders) -> Req] /\ orderSeq \in Nat /\ created \in Nat
  /\ requests \in [Status -> Nat] /\ lookups \in [Status -> Nat]
  /\ productKilled \in BOOLEAN

Zero == [s \in Status |-> 0]

Init ==
  /\ body \in [Req -> ProductID \cup {Malformed}]
  /\ process = "down" /\ drained = 0 /\ starts = 0
  /\ pc = [r \in Req |-> "idle"]
  /\ age = [r \in Req |-> 0] /\ number = age /\ life = age /\ status = age
  /\ call = [r \in Req |-> "none"]
  /\ orders = <<>> /\ orderSeq = 0 /\ created = 0
  /\ requests = Zero /\ lookups = Zero
  /\ productKilled = FALSE

Goes(r, from, to) ==
  /\ pc[r] = from
  /\ pc' = [pc EXCEPT ![r] = to]

\* The handler is done; its answer is for the middleware to count and to send.
Ends(r, from, s) ==
  /\ Goes(r, from, "done")
  /\ status' = [status EXCEPT ![r] = s]

-----------------------------------------------------------------------------
(***************************************************************************)
(* The order service's handler.                                            *)
(***************************************************************************)
\* The handler begins, and waits for the body as long as the client likes.
Post(r) ==
  /\ process = "up"
  /\ Goes(r, "idle", "binding")
  /\ life' = [life EXCEPT ![r] = starts]
  /\ UNCHANGED <<body, clocks, process, starts, status, number, requests, storeVars,
                 productVars>>

\* ShouldBindJSON, and the call of the product service.
Bind(r) ==
  /\ \/ /\ body[r] = Malformed
        /\ Ends(r, "binding", 400)
        /\ UNCHANGED call
     \/ /\ body[r] # Malformed
        /\ Goes(r, "binding", "fetching")
        /\ call' = [call EXCEPT ![r] = "sent"]
        /\ UNCHANGED status
  /\ UNCHANGED <<body, clocks, process, starts, number, life, requests, storeVars,
                 lookups, productKilled>>

Fetched(r) ==
  /\ Goes(r, "fetching", "fetched")
  /\ call[r] = "ok"
  /\ UNCHANGED <<body, clocks, process, starts, status, number, life, requests,
                 storeVars, productVars>>

\* Slip to rule out: a client without a timeout.
OverdueNever(r) == FALSE

Overdue(r) == pc[r] = "fetching" /\ age[r] = Timeout

\* Another status than 200, a call that died, or the timeout.
NotFetched(r) ==
  /\ call[r] \in {"error", "dead"} \/ Overdue(r)
  /\ Ends(r, "fetching", 500)
  /\ UNCHANGED <<body, clocks, process, starts, number, life, requests, storeVars,
                 productVars>>

\* A connection that breaks, or a client that goes: the context of its request
\* is cancelled, and the call with it.
Cancelled(r) ==
  /\ "lost" \in Faults
  /\ Ends(r, "fetching", 500)
  /\ UNCHANGED <<body, clocks, process, starts, number, life, requests, storeVars,
                 productVars>>

Numbered(r, n) ==
  /\ Goes(r, "fetched", "stored")
  /\ number' = [number EXCEPT ![r] = n]
  /\ orders' = [m \in DOMAIN orders \cup {n} |-> IF m = n THEN r ELSE orders[m]]
  /\ UNCHANGED <<body, clocks, process, starts, status, life, requests, created, productVars>>

\* Slip to rule out: the number is taken without the lock, and another handler
\* takes it too.
StoreUnlocked(r) ==
  /\ Numbered(r, orderSeq + 1)
  /\ \/ orderSeq' = orderSeq + 1
     \/ UNCHANGED orderSeq /\ \E q \in Req \ {r} : pc[q] = "fetched"

\* The section under ordersMu.
Store(r) ==
  /\ Numbered(r, orderSeq + 1)
  /\ orderSeq' = orderSeq + 1

CountOrder(r) ==
  /\ Ends(r, "stored", 201)
  /\ created' = created + 1
  /\ UNCHANGED <<body, clocks, process, starts, number, life, requests, orders, orderSeq,
                 productVars>>

\* GinMetricsMiddleware, after the handler.
CountRequest(r) ==
  /\ Goes(r, "done", "counted")
  /\ requests' = [requests EXCEPT ![status[r]] = @ + 1]
  /\ UNCHANGED <<body, clocks, process, starts, status, number, life, storeVars, productVars>>

Answer(r) ==
  /\ Goes(r, "counted", "answered")
  /\ UNCHANGED <<body, clocks, process, starts, status, number, life, requests, storeVars,
                 productVars>>

Handler(r) ==
  \/ Fetched(r) \/ NotFetched(r) \/ Store(r) \/ CountOrder(r) \/ CountRequest(r)
  \/ Answer(r)

(***************************************************************************)
(* The product service: its handler, its middleware, and its end.          *)
(***************************************************************************)
Calls(r, from, to) ==
  /\ call[r] = from
  /\ call' = [call EXCEPT ![r] = to]
  /\ UNCHANGED <<body, clocks, orderVars, storeVars>>

LookUp(r) ==
  /\ Calls(r, "sent", IF body[r] \in Product THEN "found" ELSE "missing")
  /\ UNCHANGED <<lookups, productKilled>>

CountLookup(r) ==
  /\ \/ Calls(r, "found", "ok") /\ lookups' = [lookups EXCEPT ![200] = @ + 1]
     \/ Calls(r, "missing", "error") /\ lookups' = [lookups EXCEPT ![404] = @ + 1]
  /\ UNCHANGED productKilled

KillProduct ==
  /\ "crash" \in Faults /\ ~productKilled
  /\ productKilled' = TRUE
  /\ call' = [r \in Req |-> IF call[r] \in {"sent", "found", "missing"} THEN "dead"
                                                                      ELSE call[r]]
  /\ lookups' = Zero
  /\ UNCHANGED <<body, clocks, orderVars, storeVars>>

ProductService == KillProduct \/ \E r \in Req : LookUp(r) \/ CountLookup(r)

-----------------------------------------------------------------------------
(***************************************************************************)
(* The order service's process.                                            *)
(***************************************************************************)
\* A new process: nothing is stored or counted.
Boot ==
  /\ process = "down" /\ starts < MaxStarts
  /\ process' = "up" /\ starts' = starts + 1
  /\ orders' = <<>> /\ orderSeq' = 0 /\ created' = 0
  /\ requests' = Zero
  /\ UNCHANGED <<body, clocks, pc, status, number, life, productVars>>

\* SIGINT or SIGTERM: Shutdown accepts nothing more and waits.
Signal ==
  /\ process = "up"
  /\ process' = "draining" /\ drained' = 0
  /\ UNCHANGED <<body, age, starts, pc, status, number, life, requests, storeVars, productVars>>

\* Of the process, nothing stays but what it has answered.
Down(handled, unread) ==
  /\ process' = "down"
  /\ pc' = [r \in Req |-> CASE pc[r] \in Handling  -> handled
                            [] pc[r] = "binding"   -> unread
                            [] OTHER               -> pc[r]]
  /\ UNCHANGED <<body, clocks, starts, status, number, life, requests, storeVars, productVars>>

\* Slip to rule out: a shutdown without a deadline.
ExpiredNever == FALSE

Expired == process = "draining" /\ drained = Grace

\* No handler is left, or the time is up.
Exit ==
  /\ process = "draining"
  /\ Expired \/ \A r \in Req : pc[r] \notin Handling \cup {"binding"}
  /\ Down("dropped", "unread")

Kill ==
  /\ "crash" \in Faults /\ process # "down"
  /\ Down("killed", "killed")

\* Time passes up to the next deadline, if somebody waits for it.
Tick ==
  /\ \A r \in Req : pc[r] \notin Handling \ {"fetching"} /\ ~Overdue(r)
  /\ ~Expired
  /\ process = "draining" \/ \E r \in Req : pc[r] = "fetching"
  /\ drained' = IF process = "draining" THEN drained + 1 ELSE drained
  /\ age' = [r \in Req |-> IF pc[r] = "fetching" /\ age[r] < Timeout THEN age[r] + 1
                                                                     ELSE age[r]]
  /\ UNCHANGED <<body, orderVars, storeVars, productVars>>

Next ==
  \/ \E r \in Req : Post(r) \/ Bind(r) \/ Cancelled(r) \/ Handler(r)
  \/ ProductService
  \/ Boot \/ Signal \/ Exit \/ Kill
  \/ Tick

Spec == Init /\ [][Next]_vars

(***************************************************************************)
(* A handler that can go on does, time passes, and main exits.  No client  *)
(* has to send its body, and the product service need not answer.          *)
(***************************************************************************)
FairSpec ==
  /\ Spec
  /\ \A r \in Req : WF_vars(Handler(r))
  /\ WF_vars(Tick) /\ WF_vars(Exit)

-----------------------------------------------------------------------------
At(places) == {r \in Req : life[r] = starts /\ pc[r] \in places}
Numbers(places) == {r \in At(places) : status[r] = 201}

\* While the process lives, every order has a number of its own and stays under
\* it, and the counters tell of the orders stored what their handlers have still
\* to count: a client that has its answer is in all of them.  The product
\* service has counted a success for each order, and more for those it answered
\* too late.
OrdersAddUp ==
  process # "down" =>
    /\ DOMAIN orders = 1..orderSeq
    /\ \A r \in At({"stored"}) \cup Numbers({"done", "counted", "answered"}) :
         orders[number[r]] = r
    /\ orderSeq = created + Cardinality(At({"stored"}))
    /\ created = requests[201] + Cardinality(Numbers({"done"}))
    /\ ~productKilled => orderSeq <= lookups[200]

\* A request whose body has been read while the service is up is answered in the
\* end, although the product service hangs and also if a shutdown has begun
\* since, unless the process is killed: the client gives up before the shutdown.
AcceptedIsAnswered ==
  \A r \in Req :
    process = "up" /\ pc[r] \in Handling ~> pc[r] \in {"answered", "killed"}
=============================================================================
