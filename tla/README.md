# Verification of demo-logging

The repository is a collection of demonstration programs: distributed
transactions in three styles beside a monolithic one, a Kafka message-queue
playground with a dashboard, an observability stack, and demos of SQL
optimisation, Docker and Kubernetes.  This directory models the parts that
carry state and concurrency, checks them with TLC on small instances, and proves
with TLAPS, for every instance, each safety property that the runs check, the
refinement that two-phase commit is for, and one of the findings.

Paths are relative to `src/`; `MT` stands for `microservice-transaction`.

## Inventory

### Two-phase commit (`MT/microservice-2pc`)  - modelled

| part | state | operations |
|---|---|---|
| order service | a table row per checkout with a status | `POST /prepare`, `/commit`, `/rollback`, one statement each |
| payment service | rows with `balance` and `locked_balance`; **main's `err`** | the same three endpoints, each a transaction under `SELECT ... FOR UPDATE`, then an assignment to `err`, then a test of it |
| coordinator | per request: `orderPrepared`, `paymentPrepared`, `err1`, `err2`; nothing durable | `POST /checkout`: two prepares, then two commits or a rollback |

The coordinator calls the services over HTTP, one call at a time, with no
timeout and no retry; several checkouts run at once.  Hard here: a broken
connection hides what the callee did or will still do; statements fail one at a
time; processes die between two steps; requests race for the funds of an
account; and the handlers of the payment service (`payment-service/main.go:51`,
`:85`, `:114`) assign and test one `err` captured from `main` (line 27), which is
a data race.  Correct means: one outcome per checkout, funds that are locked
stay covered, columns equal to what finished transactions made them, answers
that are true, reservations that end.

### Orchestrated saga (`MT/microservice-saga-orchestration`)  - modelled

The orchestrator creates an order, asks for the payment, and confirms or cancels
the order; the services keep orders and balances, and the payment service has
the same captured `err` (line 26, assigned at 48).  Hard here: the compensation
is triggered by *any* failure of the payment call, also by one that hides a
payment that went through, and the outcomes of the confirm and cancel calls are
dropped.  Correct means: no overdraft, an outcome that is final, no confirmed
order without a payment, no cancelled order with one, an end for everyone.

### Choreographed saga (`MT/microservice-saga-choreography`)  - modelled

Two services react to each other's Kafka topics.  State: orders, balances, two
topics, the places of two readers in them and the offsets of their groups, and
the event each consumer has in its hands.  Hard here: `ReadMessage` commits the
offset before the message is handled, so a crash loses what it interrupts; a
reader that joins its group again goes back to an offset read before its last
event; nothing records which orders were paid or settled; a COMMIT whose answer
is lost is published as a failure; an event that cannot be published is logged
and forgotten, and one that a producer writes again comes twice.  Correct means:
no order confirmed without its payment, none paid twice or paid and cancelled, a
final outcome.

### Monolithic transfer (`MT/monlithic-transaction`)  - modelled

`AccountService.Transfer` moves money between two rows, locked in the order
from, to, read into copies, checked there and saved as whole rows;
`SeedAccounts` fills an empty table at the start of the process.  Hard here:
interleaved transfers on shared rows, two that lock in opposite orders, errors
between the statements, restarts.  Correct means: the table changes by whole
transfers and nothing else, no balance falls below zero, every transfer ends.

### Message queue (`message-queue`)  - modelled but for the delay, a counter, the shown assignments and the dashboard page

| part | state | operations |
|---|---|---|
| `worker.go` | map of workers under `wm.mu` (RWMutex); per worker, under `w.mu`: flag, cancel function, counters; partition assignments | start, stop, stop all, state; one goroutine per running worker, which reads from the consumer group |
| `app.go` | counters, HTTP server | boot with retries, wait for a signal, graceful shutdown |
| `api.go` | none of its own | dashboard, state, produce, toggle, delay, two simulations, log stream |
| `hub.go` | queue of 200, a set of clients with queues of 50 | log, register, unregister, broadcast |
| `kafka.go` | none | topic creation, partition queries |

Hard here: starts, stops and polls of several requests interleave with
goroutines that take half a second to notice that they have been cancelled;
`StopAll` keeps `wm.mu` while it calls a function that wants it; partitions
change hands while a worker is busy with one of their events, or goes on reading
what it has fetched of them; offsets are committed on a timer, also after the
partition has changed hands; everything logs into bounded queues that a slow browser
fills; a thousand goroutines count themselves in and out of a pool.  Correct
means: one reader per worker, a flag that tells the truth, counters that lose
nothing, requests that return, a stop that takes effect, a shutdown that ends; no
event passed over, none processed twice without a reason, order within a
partition, a group offset that does not go back; one history for all browsers, and nobody who waits for one of them.

### Observability demo (`observability `)  - modelled but for traces and logs

The order service keeps orders in memory (`orders`, `orderSeq` under `ordersMu`)
and asks the product service, whose catalogue is fixed, with a client that waits
five seconds.  A middleware shared by both counts requests by status.  Hard here:
handlers interleave between numbering, storing and counting; the product service
hangs, answers too late or dies; a shutdown allows ten seconds.  Correct means: a
number for each order and an order for each number, counters that agree with the
orders, an answer for every request accepted.

### Others - not modelled

`optimize-query` (a seeder that runs once, and cases that measure SQL plans,
timings and driver settings), `docker-demo` and `k8s-demo` (stateless servers,
build files and manifests), and the dashboard page, which polls the API and has
no part in the system's state.  See "Not modelled".

`PROJECT.json` lists the same components with their sources, and the hazards of
the code at their lines.

## Modules

| module | models |
|---|---|
| `CheckoutBase` | what the transaction demos share: request bodies, accounts, kinds of fault |
| `TwoPCOrderService` | `order-service/main.go`: a row and a call state per checkout and handler |
| `TwoPCPaymentService` | `payment-service/main.go`: the three handlers in three steps each (transaction, assignment of `err`, test of it), lost requests, a crash |
| `TwoPCPaymentClients` | the payment service with callers that also use `/rollback` |
| `TwoPCCheckout` | `coordinator/main.go` call by call, composed with both services; safety, refinement mapping, liveness |
| `AtomicCheckout` | the abstract promise: participants vote, and commit or give up together |
| `TwoPCProofs` | theorems about `TwoPCCheckout`, its refinement of `AtomicCheckout`, and `TwoPCPaymentClients` |
| `SagaOrchestration` | `orchestrator/main.go` and its two services |
| `OrchestrationProofs` | theorems about `SagaOrchestration` |
| `SagaChoreography` | both services of the choreographed saga and their two topics |
| `ChoreographyProofs` | theorems about `SagaChoreography` |
| `MonolithicTransfer` | seeding and `Transfer` statement by statement, over PostgreSQL's row locks and deadlock detection |
| `TransferProofs` | theorems about `MonolithicTransfer` |
| `WorkerManager` | `worker.go`, the boot and shutdown of `app.go`, the toggle and state handlers of `api.go` |
| `WorkerProofs` | theorems about `WorkerManager` |
| `EventPipeline` | an event's way: `handleProduce` and `handleSimulateKafka`, the partitions, the consumer group with its members' generations, the consumer loop, topic creation and boot, a kill |
| `PipelineProofs` | theorems about `EventPipeline` |
| `LogHub` | `hub.go` and the log stream of `api.go`: two levels of bounded queues that drop |
| `DirectSimulation` | `handleSimulateDirect`: a goroutine per request, the pool, the report; extends `LogHub`, into which it logs |
| `SimulationProofs` | theorems about `LogHub` and `DirectSimulation` |
| `ObservedOrders` | both services of the observability demo, their middleware, timeout, shutdown and crash |
| `OrdersProofs` | theorems about `ObservedOrders` |
| `MC...` | instances for TLC: model values and small sets |

### How a call is modelled

`orderCall[t][op]`, `payCall[t][op]` and, in the saga, `call[t][op]` say how far
the call of handler `op` for checkout `t` got: `idle`, `sent`, (`returned`,
`assigned`: inside the payment service), `ok` or `fail` when answered, `dead`
when it ended without an answer.  `pc[t]` is the call the goroutine of the
checkout waits for.  A handler that is a single statement is one step; it may
succeed, fail without effect, or die before or after its effect.  A caller sees
an answer or a *transport error*.

`Faults` names what may happen: `"db"`, a statement fails without effect;
`"lost"`, a caller sees its connection break at any moment, while the callee
works on or has not even begun, which is also how late and reordered calls
arise; `"crash"`, a process dies with everything in memory; `"dup"`, a producer
that retries writes an event twice.  The sagas choose a subset of `Faults`
initially (`faults`), so that one run covers executions with and without each.

`SharedErr` (in the saga the variable `sharedErr`, chosen initially) says what a
test of `err` may read: the handler's own result, or also what another request
has stored since.  Go gives a racy program no more than that.  TRUE is the code;
FALSE is the code on a build or a schedule where every test sees its own
assignment, and it separates what the protocol breaks from what the race breaks.

`binding:"required"` refuses an amount of zero and nothing else, so requests
carry negative amounts too wherever a property survives them (`MixedAmounts`).
Account names without a row are in `Name` and not in `Account`.

### How the events of the choreographed saga are modelled

A topic is a log; the broker of `docker-compose.yml` creates topics with one
partition, so it is a sequence.  `orderReader` and `paymentReader` are the places of
the two group readers: how many events the reader has been given (`next`), the
group's offset, and how often it has gone back (`returns`, history).
`ReadMessage` of a consumer group without a `CommitInterval` commits
synchronously before it returns, so it is one step: the offset is committed and the
event is in the consumer's hands, or dropped.

With `"lost"` connections to the broker break.  A commit may then report an error
whether it happened or not, and the loop, which logs it, has lost the event.  Or the
member joins its group again: kafka-go leaves what it has fetched in the reader's
buffer, `ReadMessage` returns the next event of it, its commit waits for the new
generation, and that generation starts at the offset read when joining, which is
before the event.  It is then delivered again (`Moves`).  A reader may also
join between two events (`RejoinOrder`, `RejoinPayment`).  A crash restarts the
reader at the committed offset.  `MaxReturns` bounds how often a reader goes back.

A publication leaves no, one or two copies: the writer does not wait for
acknowledgements (`RequiredAcks` is left at its zero value) and retries.  An
answer of the database may be lost as well: an insert may have happened although the
handler reports a failure, and a COMMIT that broke off may have debited the account
although `FAILED` is published.

`Exposures` lists the sets of faults an execution may be exposed to (`faults`, chosen
initially), so that a property can say which fault it excludes.

### How a transfer is modelled

`holder` is the row locks, `copy[t]` the two rows in the hands of the handler.
`SELECT ... FOR UPDATE` waits for the lock and then reads the row as committed
(PostgreSQL's default isolation).  The saves are invisible until the commit, which
writes both copies.  Any error rolls back: a missing account, too low a balance, a
failed statement, a client that has gone (the request's context), or
PostgreSQL's choice of a victim among transactions that wait in a circle.  With
`"lost"` a commit may also be answered with an error although it happened.

### How the worker manager is modelled

`wm.mu` is explicit (`writer`, `readers`; a waiting writer blocks new readers, as
`sync.RWMutex` documents), since one caller keeps it across another's call.
Sections under `w.mu` never block and are single steps.  Threads are the HTTP
clients, the boot and main; `consumer[w][g]` is the g-th goroutine of worker w.
The deferred function's `reader.Close()` and reset are one step, and the reader
counts as open until then.  Any error of `ReadMessage` but the context's leads
back to it and changes nothing.  `ReadMessage` may return a message although the
context is done.  What Kafka delivers, and to whom, is left open here; that is
the next module's.

### How the way of an event is modelled

`EventPipeline` looks at the same workers from the side of Kafka: a worker is a
`reader` that is closed, open or told to stop, and an event in its `hand`.  The
locks and flags of `WorkerManager` are below this level; what it relies on,
one reader per worker, is what `FlagIsTrue` shows there.  A partition is the
number of its events (`end`), for only their order counts, and an offset is any
natural number.  The group is external and modelled from the `ReaderConfig` of
`worker.go` and what kafka-go, at the version of `go.mod`, makes of it:

* The members change their generation each by itself.  When a reader opens or closes,
  or a member loses the coordinator (`Disturb`, a heartbeat that fails), the group is
  `rebalancing`; every member learns it by its own heartbeat and ends its generation
  (`EndGeneration`) with a final commit; when all have, the partitions are
  balanced over the members anew (`NewGeneration`), and each starts to fetch
  (`StartGeneration`) at the offsets committed then, or at the end of a partition
  that has none (`kafka.LastOffset`; hence `begin`).  `running` is the readers whose
  generation runs.
* `ReadMessage` returns the next event (`fetch`) also while no generation runs, for
  ending one leaves the reader's buffer as it is, and starting one is what drops it.
  The model lets it return whatever the log holds from there; the buffer is no
  larger.  `late` remembers the events returned so.
* An event's offset is put aside when it is returned (`stash`), and is committed every
  `CommitInterval`, or at the end of a generation or of a reader; a commit may fail
  for some partitions, and a final one takes what it failed to commit with it.
  What is put aside outside a generation is merged, larger offsets first, into the
  commits of the next one, which makes them whoever owns the partition by then.
  Such a commit may take the group's offset *back*; `back` remembers where.

An event in hand stays there through all of this; `kept` says whether the worker has
had its partition since it was given the event.  The partition table that the dashboard
shows is written from the event in hand and read by nobody else, and is left out.

`Target` is what the writers make of the strategies: a fresh round-robin balancer
per request begins at the first partition, and `msg.Partition` is not read by a
writer that has a balancer.  A write that reports an error may have succeeded.
The bulk writer is asynchronous: a batch (`queued`) is written later, all or
nothing, or dies with the process.  With `failing`, requests to the broker may
fail in this execution.  A shutdown hangs (below), so the process ends by `Kill`
only, which remembers in `lost` the events whose offset was committed while a
worker still had them in hand.  `handled`, `begin`, `late`, `back`, `lost` and the
count of `kills` are history.

### How the log hub and the simulation are modelled

`broadcast` and `chan[c]` are Go channels with their capacity, `hub` is the
goroutine of `Start`: between `Lock` and `Unlock` it holds `lh.mu`, and `Register`
and `Unregister` wait.  Clients are visited in any order, as Go ranges over a map.
A connection gets a new channel; `shown[c]` is what it has been sent.  In
`DirectSimulation`, each atomic operation is a step of its own, deferred calls
run last in, first out, and a rejected request leaves the pool as late as it
does in the code.  The counters are locals of one call, so simulations do not
share state, but for the hub.

### How the observability demo is modelled

`pc[r]` is the handler of a request in the order service, `call[r]` its lookup as
the product service sees it.  Store, order counter, middleware counter and
answer are separate steps.  Time is counted in ticks, with `Timeout` (5 s) and
`Grace` (10 s) as constants of the same proportion; no tick passes a deadline
that is due, and none passes while a handler could go on, since what handlers
do themselves takes no time beside seconds.  The product service is under no
obligation to answer.  A process that starts again has an empty store and
numbers from one: `ORD-0001` exists once per start, and `life[r]` is the start
that request r belongs to.

## Runs

Each run is a `.cfg` of the same name.  `Workers`, `Events` and `ObservedOrders` say
CHECK_DEADLOCK FALSE: a shutdown may hang, and servers with nothing asked of them
wait; the other passing runs check deadlock.

| run | expects | checks |
|---|---|---|
| `TwoPCRace` | pass | with every fault, the race and negative amounts: types; `Agreement`; `FundsCovered`; `RolledBackIsNotCommitted`; `OrderIsFinal` |
| `TwoPCAtomic` | pass | with every fault, own results, fair: the refinement `AtomicSpec`; `SuccessIsEarned`; `HeldFundsSettled` |
| `TwoPCPayment` | pass | three callers on one account, all endpoints, negative amounts: `LockedIsHeld` |
| `TwoPCRefusedCommits` | violation | the race alone confirms a checkout whose prepare the database refused |
| `OrchSaga` | pass | every subset of the faults, with and without the race, fair: `ConfirmedIsPaid`, `CompensationIsDue`, `SagaSettles` |
| `Choreography` | pass | failing statements, crashes and doubled events, or broken connections and crashes, fair: `ConfirmedIsPaid`, `PaidOnce`, `CancelledIsUnpaid`, `OrderSettles` |
| `Transfers` | pass | two transfers, every fault, fair: `TransfersOnly`, `TransferEnds` |
| `Workers` | pass | two clients, a worker, the boot, a shutdown or none, fair: `FlagIsTrue`, `EveryMessageIsCounted`, `StopTakesEffect`, `CallsReturn` |
| `WorkerShutdown` | violation | with a worker in the map, `StopAll` waits for itself |
| `Events` | pass | two workers, two partitions, rebalances member by member, failing requests, and a start or stop, the loss of the coordinator or a kill, fair: `NothingSlipsThrough`, `HandledOnce`, `OffsetAdvances`, `InOrder`, `EventsAreTaken` |
| `SimulationLogs` | pass | a simulation and two browsers on one hub: `OneHistory`, `PoolIsHonest`, `ReportIsLast`, `NobodyIsHeldUp` |
| `ObservedOrders` | pass | two orders, two starts, every fault, a product service that may hang: `OrdersAddUp`, `AcceptedIsAnswered` |

Every property of a passing run has a mutant in `PROJECT.json`: a plausible slip
(the operators commented "Slip to rule out") under which the run fails.

### What the violations say

* `TwoPCRefusedCommits`: two prepares for the same funds; the refused one tests
  `err` after the other has stored `nil`, answers 200 and is confirmed.  The
  orchestrated saga has the same race; there `ConfirmedIsPaid` is stated for
  executions without it.
* `WorkerShutdown`: `wm.mu.RLock` in `StopAll`, `wm.mu.Lock` in `StopWorker`.

Other weaknesses are stated as what *remains* true:

* `HeldFundsSettled`: funds stay locked only when a step of the very checkout was
  disturbed, or when its client is told of a rollback because the answer of
  `/prepare` was lost.  Nobody asks for their release then: `paymentPrepared` is set
  only by an answer that arrives, and the branch that would post `/rollback` to
  the payment service (`coordinator/main.go:107`) is dead code, for when
  `paymentPrepared` is true line 84 has taken the other way.
* `SuccessIsEarned`: after "checkout successful", an order not confirmed or a payment not
  charged is one whose `/commit` failed at the service, with an error status that the
  coordinator does not look at.
* `CompensationIsDue`: the orchestrated saga cancels paid orders only when a
  connection broke, a process died or the race struck.
* `SagaSettles`: the orchestrated saga is carried through while nothing fails; a
  confirm or cancel call that fails is not repeated, and its outcome is dropped.
* `PaidOnce` of the choreographed saga: an order is paid again when the producer wrote
  its event twice, and once more each time the payment service's reader joins its
  group again and is given an event anew that it had just returned.  Nothing records
  which orders have been paid.  A crash alone repeats nothing.
* `CancelledIsUnpaid` rests on the same, and on the answer to a COMMIT: where it is
  lost, `db.Transaction` returns an error although the account is debited
  (`payment-service/main.go:101-126`), `FAILED` is published, and a paid order is
  cancelled.  `OrderSettles` rests on nothing being lost.
* `FlagIsTrue`: `is_running` is true while a cancelled worker still has its reader,
  which lasts as long as its processing delay.  A start in that time is dropped
  and answered with "success" all the same; `StopWorker` sleeps 150 ms only.
* `HandledOnce` holds only while no request to the broker fails and no process dies: a
  commit that fails, or a kill before it, has the events processed again.  Even
  then it exempts an event that a reader returned outside its generation: the group
  goes on before it, and the new owner processes it too.  So an event can be
  processed twice for no other reason than that a worker was started or stopped.
* `OffsetAdvances`: the commit of such an event comes a generation late and can take
  the group's offset back behind what the new owner has committed; the next owner
  then reads that part again.  This is the only way, and the price of it is
  named in the other properties (`back`).
* Events written while a partition has no committed offset and nobody reads
  it are never processed (`NothingSlipsThrough` begins at `begin`, `EventsAreTaken`
  at the first committed offset).
* `InOrder` lets an event be overtaken whose worker lost the partition in the middle
  of it, or was given it outside a generation.  `message-queue/README.md:45` promises
  that a key directs related events to the same partition, "ensuring strict FIFO
  ordering per entity".  The exempted cases contradict it: the log has the events of an
  entity in order, but around a rebalance one of them may be processed after a later
  one.
* With `Target` as it is, events without a key all go to the first partition,
  whatever the strategy; `message-queue/README.md` expects to see the partitions
  take turns.  No property is about it.
* `PoolIsHonest`: rejected requests occupy places, so requests may be rejected while
  fewer than `MaxConnections` are served; at least that many are served in all.
* `AcceptedIsAnswered` is about requests whose body has been read before the signal.
  A body that arrives during the shutdown leaves less than ten seconds, so its
  request can be cut off; so can one whose client has not sent its body.

### Bounds, and why they are enough

Two checkouts are the fewest that race for `err` and for funds; with a balance of
3, amounts of 1 and 2 let one, both or neither be paid.  `TwoPCRace` and
`TwoPCPayment` have both amounts and a negative one; `TwoPCAtomic` and
`OrchSaga`, which also check liveness, have two checkouts of 2 that compete, so
that one is refused.  `carol` has no account.  The coordinator's goroutines share
nothing but the services, so a third checkout adds no new kind of step; the
theorems cover any number.  `TwoPCPayment` has three, since there three
reservations can be open on one account.  The choreographed saga and the
transfers have two as well: one consumer per topic means that a second order
exercises everything a third would, and two transfers are enough to meet on one
row or on two in opposite orders.  A reader of the choreographed saga goes back once at
most (`MaxReturns`), which is once more than the properties allow for without
naming it; the executions are exposed to statements, crashes and doubled events
together, or to broken connections and crashes, but not to doubled events and broken
connections at once, where the numbers multiply and the faults do not meet: each adds
deliveries of its own.  The theorems cover every combination and any number of
returns.

In `WorkerManager`, `MaxRequests`, `MaxMessages` and `MaxStarts` bound the arrivals;
`MaxStarts` exceeds `MaxRequests` by the boot's start of a worker, so that no
start is ever held back by it.  Workers share nothing but `wm.mu` and the map; one
worker, the boot and two requests are enough for a stop, a start and the end of a
goroutine to meet.  In `EventPipeline`, two workers and two partitions are the
fewest for a rebalance that moves one and leaves the other; two events can lie in
one partition or in two; and one change by hand, one lost coordinator or one kill
(`MaxChanges`) comes on top of the boot, which starts the workers one after the other
in any order and so has rebalances of its own while the first worker already reads.
The theorems have no bound on either.  The hub has queues of 2 and 1 where the code has 200
and 50: what matters is that each can be full while the other is not, and that
there are more lines than fit.  Two requests for a pool of one reject each other;
`LogEvery` 1 has every rejection logged.  `ObservedOrders` has two requests that may
be for a product, for none or malformed, two starts, and `Timeout`, `Grace` of 1
and 2 ticks: events at whole ticks are enough for conditions that only compare
sums of these.  Symmetry is used only for interchangeable checkouts, and in no
run with liveness.

### Fairness

`FairSpec` of the checkouts: a goroutine that can go on does, a handler finishes
and its database answers (weak fairness per checkout and service).  No fairness
for clients, broken connections, crashes or the start of a checkout.  The
consumers of the choreographed saga loop for ever (weak fairness).  Transfers are
strongly fair, since PostgreSQL queues those who wait for a row, but only in
steps that need no fault: none may count on a failing statement to end it.
`FairSpec` of the worker manager: strong fairness for a thread's step, since
`sync.RWMutex` does not starve a waiter, weak fairness for a consumer that has a
message; strong fairness for the return of a cancelled `ReadMessage`, whose
`select` chooses at random between a message and a context that is done.  Nobody
has to send requests, messages or a signal.

`EventPipeline`: weak fairness for the boot, for a worker with an event or one
that leaves, and for the group, whose members learn of a rebalance by their
heartbeats and join again; strong fairness for `ReadMessage` while its reader's
generation runs, which gets what there is although rebalances interrupt it.  Nobody
has to produce, toggle, commit on time, or return an event outside a generation.
`EventsAreTaken` assumes that there are workers again and again, and speaks of
partitions whose offset has not been taken back: where it has, the group may have
been sent back before the events it began with.  The hub and the
requests of the simulation are weakly fair; a browser's `Register` and `Unregister`
strongly, since `sync.Mutex` hands itself to one that has waited long; no browser
has to read.  In `ObservedOrders`, handlers go on and time passes (weak
fairness); neither clients nor the product service have to do anything, and a
broken connection is nobody's obligation.

`Workers` does not check deadlock because the system really stops: once `StopAll`
waits for itself, nothing moves.  `StopTakesEffect` holds nevertheless, for
consumers do not need `wm.mu`, and `CallsReturn` is claimed until the signal.

## Proofs

Every safety property of the passing runs, invariant or action property, is a theorem
here for every value of the constants: any number of checkouts, orders, accounts,
workers, partitions, browsers and requests, any capacity and any bound.  The
assumptions are the `ASSUME`s of the modules, which say what the constants are
(amounts are non-zero integers, seeded balances are naturals, capacities are
positive, `None` is none of the others); further hypotheses are in the tables.

A proof module states its inductive invariant at the top.  Each step of the
specification has a lemma that says which parts it disturbs and why they hold
afterwards; what a whole kind of step leaves alone (a call that moves, a thread
that goes on) is a lemma of its own, cited instead of looking at every variable.

### Two-phase commit (`TwoPCProofs`)

| theorem | states | unless |
|---|---|---|
| `TypeCorrect` | `TypeOK` | |
| `AgreementHolds` | no checkout is both cancelled and charged | |
| `RolledBackHolds` | a client told of a rollback has neither a confirmed order nor a charge | |
| `FundsCoveredHolds` | locked funds never exceed the balance | |
| `SuccessIsEarnedHolds` | when "successful" is told, the order is confirmed unless its `/commit` was answered with an error status, and the payment charged unless the transaction of its `/commit` failed; of the prepares it says nothing | |
| `OrderIsFinalHolds` | no step changes a confirmed or cancelled order | |
| `CheckoutIsAtomic` | `Spec` implements `AtomicCheckout` | `SharedErr` |
| `RefusedHolds` | a refused checkout is not committed | `SharedErr` |
| `LockedIsHeldHolds` | `locked_balance` is the sum of the open reservations | `SharedErr` |

* `TypeInv`: the types, and that a call past its transaction has a result.
  Without it, the assignment to `err` could store `"none"`.
* `TxInv(t)`, per checkout: the calls to commit and to roll back exclude each
  other (`OneDecision`) and come after the payment's prepare was left
  (`DecidedAfterPrepare`); calls are sent only at the coordinator's places
  (`SentAtPC`); what the tables show was once asked for (`EffectsWereSent`); a
  reply is the last thing a checkout does (`RepliesAreLast`).  `Agreement` is not
  inductive alone: a `/commit` that was sent and is not yet carried out, or was
  given up, makes it false a step later unless the other call was never sent.
* `CallInv(t)`, for `SuccessIsEarned`: a call that was not carried out has had no
  effect, one answered with 200 wrote its status (`OrderCallsMatch`), one past its
  transaction has its result (`PayCallsMatch`); and a success is told after
  answers only (`AnswersWereSeen`).
* `FundsCovered` is inductive with the types: a prepare adds no more than what
  is available, and commit takes the same amount from both columns.

The refinement needs `VotesAreTrue` besides: a prepare answered with 200 did reserve
the funds, and whoever asks for a commit has seen that answer.  This is where the
race enters, and nowhere else: `RefusedHolds` proves, without it, the very claim
that the run `TwoPCRefusedCommits` refutes, so the race is its only cause.  The
step lemmas map each action to a vote, a decision, its execution, or a stutter.

`LockedIsHeld` is about `PaymentSpec`, the service with callers of all its
endpoints.  A caller that was told of a prepare that the database refused would
unlock what it never locked, so this, too, holds only without the race;
`CallerInv` says what a caller's calls tell of its transactions then.

### Orchestrated saga (`OrchestrationProofs`)

`TypeCorrect`; `ConfirmedIsPaidHolds`; `CompensationIsDueHolds`.  The invariant of a
saga: the place of the goroutine bounds what it has sent (`SentAtPC`), a status
was asked for (`StatusWasSent`), a call past its transaction has a result
(`ResultOfCall`).  Where no `err` is shared, an answer is true (`AnswerIsTrue`) and
confirm is sent for paid orders only; where only statements fail, every call
is answered (`CallsAreAnswered`), which is what `CompensationIsDue` needs: an error
the orchestrator sees is then an error that happened.

### Choreographed saga (`ChoreographyProofs`)

| theorem | states | for executions |
|---|---|---|
| `TypeCorrect` | `TypeOK` | |
| `ConfirmedIsPaidHolds` | a confirmed order has been paid | with any faults |
| `PaidOnceHolds` | payments of an order number at most one more than the returns of the reader, and at most one where no connection breaks | without doubled events |
| `CancelledIsUnpaidHolds` | a cancelled order has not been paid | without doubled events or broken connections |

`SuccessIsPaid`, that a word of success anywhere speaks of a payment, is inductive
under every fault.  `PaidOnce` follows the word that speaks for an order: it is written
once (`Distinct` in `WordIsSingle`), lies ahead of the reader (`Ahead`) or is with the
consumer, and what is still to be paid for it (`Due`) together with what has been
paid exceeds one by no more than the reader's returns.  A return can only put the word
ahead again, a reading takes it from there, a payment turns what is due into what is
paid.  Where no connection breaks, the reader is at its group's offset, so a crash takes
nothing back (`ReaderIsCommitted`).  `CancelledIsUnpaid` needs besides that what nobody has
handled has no verdict, and what failed no payment (`VerdictIsFinal`).
Topics are sequences of any length.

### Transfers (`TransferProofs`)

`TypeCorrect`; `TransfersOnlyHolds`.  A transaction owns the rows it has locked
(`OwnsRows`); its copies are the rows, or after the check the rows with the amount
moved (`CopiesAreRows`), since nobody else may write them; and a process that is up
has seeded.  The commit is then a whole transfer, and no other step touches the rows.

### Worker manager (`WorkerProofs`)

| theorem | states |
|---|---|
| `TypeCorrect` | `TypeOK` |
| `FlagHolds` | a worker never has two readers, `is_running` tells whether it has one, and a stop cancels the goroutine that reads |
| `CountedHolds` | the workers' counters are the application's and the messages in hand, one for each |
| `ShutdownHangs` | once main is inside `StopWorker`, it stays there, whatever others do |

With the types of `isRunning`, `started` and `consumer`, `FlagIsTrue` is inductive: a
goroutine is spawned only while the flag is down, when no other of that worker
reads, and `Close` lowers the flag in the step that closes the reader, which by the
invariant is the latest goroutine's.  A lock is not needed for it beyond `w.mu`,
under which the flag is tested and set in one step.  The types need that a thread
past its start has a worker in `arg` (`Named`) and that a running worker was
started.  `Receive` adds to the counted messages and to those in hand, `Consume`
takes one from the latter.

`ShutdownHangs` is the finding of the run `WorkerShutdown` for every instance.
`MainInv`: from its loop on, main is a reader of `wm.mu`.  `StopWorker` waits until
there are none, and the only step that would take main off them comes after.

### Event pipeline (`PipelineProofs`)

`TypeCorrect`; `NothingSlipsThroughHolds`; `HandledOnceHolds`; `OffsetAdvancesHolds`;
`InOrderHolds`.  `GroupInv` follows one partition, and compares the places of all
readers in it, for a reader outside a generation has one as well and can be behind
the others or ahead of them.

* For every partition: a running reader fetches what the group assigns to it
  (`RunningFetchTheirs`); what is below the group's offset, an offset put aside or the
  place of a reader is done, in hand or lost by a kill (`PassedIsAccounted`).  A commit
  of any generation, late or not, then speaks for all events below it, because
  the reader's hands were empty each time it returned one.
* For partitions whose offset was never taken back (`Steady`): beyond the offset, what a
  reader has returned is done or in its own worker's hands (`ReturnedIsDone`), and
  whoever has seen an event has left none behind undone (`NoGaps`); the same holds
  beyond the place of the reader that serves the partition (`AheadIsDone`,
  `NoGapsAhead`).  A worker that has kept its partition has it still (`KeptIsOwned`), no
  other reader gets past its event without being given it (`KeptIsPassedByNone`), and
  nobody has seen more (`KeptIsLast`): that is `InOrder`.
* While nothing fails and nobody is killed, an event returned in time is below the
  group's offset or what its server has put aside, and in one place (`SeenOnce`).
* Where no event was returned outside a generation, only the serving reader has put
  an offset aside, its own place, which is not behind the group's offset
  (`OffsetIsServed`): that is `OffsetAdvances`.

No part is inductive alone.  The lemmas follow the steps of a reader (`Receive`), of a
worker, of a commit, and of a generation's end and start.

### Log hub and simulation (`SimulationProofs`)

`TypeCorrect`; `OneHistoryHolds`; `ReportIsLastHolds`; `PoolIsHonestHolds`.  For the hub:
an event waits once (`WaitsOnce`); the one in hand is the last of every connection
that was visited (`HandedIsLast`); any two connections agree on the order of what
both have been given (`HistoriesAgree`), also of what they have not read yet.
`ReportIsLast` needs that the lines of the simulation travel sorted by rank (`RankInv`)
and that none travels before it is logged (`LinesAreFresh`).  For the pool, each
counter is the size of a set of requests (`CountersAreTrue`), a request that was let in
holds one of `MaxConnections` places, and nobody is turned away before as many
have been let in (`PoolInv`).

### Observability demo (`OrdersProofs`)

`TypeCorrect`; `OrdersAddUpHolds`.  Handlers belong to the process that runs
(`LivesAreTrue`), an order was looked up with success (`OrderedIsFound`), which the
product service has counted (`FoundIsCounted`) unless it was killed.  While the
process lives, numbers are its own (`NumbersAreOwn`), and `orderSeq`, `orders_total` and
the middleware's counter are sizes of sets of requests of this start
(`CountersAreTrue`).  There are finitely many requests (`ReqAssumption`).

### What stays with TLC

* Liveness, since the prover has no ENABLED: `HeldFundsSettled`, `SagaSettles`,
  `OrderSettles`, `TransferEnds`, `StopTakesEffect`, `CallsReturn`, `EventsAreTaken`,
  `NobodyIsHeldUp`, `AcceptedIsAnswered`.
* That the two runs which expect a violation find one.  `ShutdownHangs` and
  `RefusedHolds` prove what surrounds them.

Sums and counters are stated as sizes of sets, a sum of amounts as that of a set of
units (`Units` in `TwoPCPaymentClients`): the sizes of finite sets change by known
amounts when an element comes or goes, while a sum by recursion would need an
induction that the provers cannot do.

## Not modelled

* A COMMIT whose answer is lost in two-phase commit and in the orchestrated saga: a failed
  statement or transaction is without effect there, as under `"db"`.  A service that dies
  after its effect and before its answer is modelled.  The transfers and the
  choreographed saga have the ambiguous COMMIT.
* The partitions that the dashboard shows as a worker's (`assignments`): an entry names the
  worker that last processed an event of the partition, is written with that event in
  hand, and is read by `GET /api/state` only.
* The processing delay (`handleDelay`): it decides how long a step takes, which the
  models leave open.  `TotalProducedCount`: it is shown and never read by the program;
  the bulk simulation counts events that were never written.
* The dashboard page and `GetTopicPartitions`, `GET /api/state` but for its lock, the
  listing and health endpoints: they read.  Traces and log records of the
  observability demo go to collectors outside the code.
* `optimize-query`: each case runs statements one after another and prints timings;
  the connection-pool case compares settings of a driver, and the seeder runs once.  What they promise is speed.
* `docker-demo`, `k8s-demo`: no state.

## Plan

All runs of the first plan exist, and every safety property they check is proved.  Left:

1. An abstract specification of the pool of `DirectSimulation` (places taken and
   given back), with the refinement checked and proved like that of `AtomicCheckout`.
2. Non-temporal halves of liveness: that the steps on which `CallsReturn` and
   `TransferEnds` rest bring their thread nearer to its end, as action properties.
