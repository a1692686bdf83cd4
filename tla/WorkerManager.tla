--------------------------- MODULE WorkerManager ---------------------------
(***************************************************************************)
(* The worker manager of the message-queue demo: Kafka consumers that HTTP *)
(* requests start and stop while a dashboard polls them, the goroutine     *)
(* that boots the first ones, and the shutdown in main.                    *)
(*                                                                         *)
(* Two kinds of lock protect it.  wm.mu, a sync.RWMutex, guards the map of *)
(* workers; it is explicit here, because StopAll keeps it while it calls   *)
(* StopWorker.  A section under w.mu of one worker neither blocks nor      *)
(* takes another lock, and is one step.  Logging never blocks and is left  *)
(* out.                                                                    *)
(***************************************************************************)
EXTENDS Integers, Sequences, FiniteSets

CONSTANTS
  Worker,       \* worker ids, which a toggle request chooses freely
  Client,       \* goroutines that serve HTTP requests, one at a time each
  BootWorkers,  \* the ids that initializeKafka starts, in their order
  MaxStarts,    \* bound: how often one worker is started
  MaxRequests,  \* bound: how many HTTP requests arrive
  MaxMessages,  \* bound: how many messages Kafka delivers
  MaySignal,    \* may the process be told to shut down?
  None          \* no thread, no worker

Thread == Client \cup {"boot", "main"}
Gen    == 1..MaxStarts

ASSUME BootAssumption  == BootWorkers \in Seq(Worker)
ASSUME BoundAssumption == MaxStarts \in Nat /\ MaxRequests \in Nat /\ MaxMessages \in Nat
ASSUME SignalAssumption == MaySignal \in BOOLEAN
ASSUME NoneAssumption  == None \notin Thread \cup Worker
ASSUME ClientAssumption == {"boot", "main"} \cap Client = {}

VARIABLES
  workers,         \* keys of the map wm.workers
  readers,         \* threads that hold wm.mu for reading
  writer,          \* the thread that holds it for writing, or is next to
  isRunning,       \* isRunning[w], w.IsRunning
  started,         \* started[w], how many goroutines w has had; w.cancel is
                   \* the latest one's
  cancelled,       \* cancelled[w], the goroutines of w whose context is done
  consumer,        \* consumer[w][g], where goroutine g of w stands
  processedCount,  \* processedCount[w], w.ProcessedCount
  currentMsg,      \* currentMsg[w], does w.CurrentMsg show a message?
  totalConsumed,   \* app.TotalConsumedCount
  rebalanceCount,  \* app.RebalanceCount
  pc,              \* pc[t], where thread t stands
  arg,             \* arg[t], the id it starts or stops
  bootQueue,       \* ids that initializeKafka has still to start
  toStop,          \* ids that the loop of StopAll has still to visit
  serverUp,        \* does the HTTP server accept requests?
  requests,        \* HTTP requests so far
  messages         \* messages delivered so far

lockVars     == <<workers, readers, writer>>
workerVars   == <<isRunning, started, cancelled>>
countVars    == <<processedCount, currentMsg, totalConsumed, rebalanceCount, messages>>
threadVars   == <<pc, arg, bootQueue, toStop, serverUp, requests>>
vars == <<lockVars, workerVars, consumer, countVars, threadVars>>

\* What a step on a lock leaves alone, but for pc.
consumerVars == <<workerVars, consumer, countVars>>
callVars     == <<arg, bootQueue, toStop, serverUp, requests>>

ConsumerState == {"none", "reading", "received", "consumed", "closing", "leaving",
                  "gone"}
\* A goroutine with a reader: a member of the consumer group, or about to be.
Open == {"reading", "received", "consumed", "closing"}

Place == {"idle", "done", "startLock", "startLocked", "startBody",
          "stopLock", "stopLocked", "stopBody", "stopSleep",
          "stateLock", "stateScan", "probe", "bootLoop",
          "signal", "drain", "stopAllLock", "stopAllLoop"}

\* Where a thread goes on after StartWorker or StopWorker has returned.
Caller(t) == CASE t \in Client -> "idle"
               [] t = "boot"   -> "bootLoop"
               [] t = "main"   -> "stopAllLoop"

TypeOK ==
  /\ workers \subseteq Worker /\ readers \subseteq Thread /\ writer \in Thread \cup {None}
  /\ isRunning \in [Worker -> BOOLEAN] /\ currentMsg \in [Worker -> BOOLEAN]
  /\ started \in [Worker -> 0..MaxStarts] /\ cancelled \in [Worker -> SUBSET Gen]
  /\ consumer \in [Worker -> [Gen -> ConsumerState]]
  /\ processedCount \in [Worker -> Nat]
  /\ {totalConsumed, rebalanceCount, requests, messages} \subseteq Nat
  /\ pc \in [Thread -> Place] /\ arg \in [Thread -> Worker \cup {None}]
  /\ bootQueue \in Seq(Worker) /\ toStop \subseteq Worker /\ serverUp \in BOOLEAN

Init ==
  /\ workers = {} /\ readers = {} /\ writer = None
  /\ isRunning = [w \in Worker |-> FALSE]
  /\ started = [w \in Worker |-> 0]
  /\ cancelled = [w \in Worker |-> {}]
  /\ consumer = [w \in Worker |-> [g \in Gen |-> "none"]]
  /\ processedCount = [w \in Worker |-> 0]
  /\ currentMsg = [w \in Worker |-> FALSE]
  /\ totalConsumed = 0 /\ rebalanceCount = 0 /\ messages = 0
  /\ pc = [t \in Thread |-> CASE t \in Client -> "idle"
                              [] t = "boot"   -> "probe"
                              [] t = "main"   -> "signal"]
  /\ arg = [t \in Thread |-> None]
  /\ bootQueue = BootWorkers
  /\ toStop = {}
  /\ serverUp = TRUE
  /\ requests = 0

Goto(t, from, to) ==
  /\ pc[t] = from
  /\ pc' = [pc EXCEPT ![t] = to]

\* A thread that goes on and does nothing else.
Goes(t, from, to) == Goto(t, from, to) /\ UNCHANGED <<lockVars, consumerVars, callVars>>

\* The call of a function with a worker's id.
Calls(t, from, to, w) ==
  /\ Goto(t, from, to)
  /\ arg' = [arg EXCEPT ![t] = w]

-----------------------------------------------------------------------------
(***************************************************************************)
(* wm.mu.  Lock announces itself first: from then on RLock waits, and so   *)
(* does every other Lock; it holds the mutex when the readers have left.   *)
(***************************************************************************)
WriteLock(t, from, to) ==
  /\ Goto(t, from, to)
  /\ writer = None
  /\ writer' = t
  /\ UNCHANGED <<workers, readers, consumerVars, callVars>>

ReadLock(t) ==
  /\ writer = None
  /\ readers' = readers \cup {t}

ReadUnlock(t) == readers' = readers \ {t}

(***************************************************************************)
(* StartWorker.                                                            *)
(***************************************************************************)
StartLock(t) == WriteLock(t, "startLock", "startLocked")

\* The section under wm.mu: the worker is looked up, or added.
StartLookup(t) ==
  /\ Goto(t, "startLocked", "startBody")
  /\ readers = {}
  /\ workers' = workers \cup {arg[t]}
  /\ writer' = None
  /\ UNCHANGED <<readers, consumerVars, callVars>>

\* The section under w.mu: already running, also when it has been told to stop.
StartIgnored(t) ==
  /\ Goes(t, "startBody", Caller(t))
  /\ isRunning[arg[t]]

\* Or a fresh context and a goroutine of its own.
StartSpawns(t) ==
  LET w == arg[t]
      g == started[w] + 1 IN
  /\ Goto(t, "startBody", Caller(t))
  /\ ~isRunning[w]
  /\ g <= MaxStarts
  /\ isRunning' = [isRunning EXCEPT ![w] = TRUE]
  /\ started' = [started EXCEPT ![w] = g]
  /\ consumer' = [consumer EXCEPT ![w][g] = "reading"]
  /\ UNCHANGED <<lockVars, cancelled, countVars, callVars>>

(***************************************************************************)
(* StopWorker.                                                             *)
(***************************************************************************)
StopLock(t) == WriteLock(t, "stopLock", "stopLocked")

StopLookup(t) ==
  /\ Goto(t, "stopLocked", IF arg[t] \in workers THEN "stopBody" ELSE Caller(t))
  /\ readers = {}
  /\ writer' = None
  /\ UNCHANGED <<workers, readers, consumerVars, callVars>>

StopIgnored(t) ==
  /\ Goes(t, "stopBody", Caller(t))
  /\ ~isRunning[arg[t]]

\* Slip to rule out: the flag is reset before the goroutine has left.
StopCancelsAndResets(t) ==
  LET w == arg[t] IN
  /\ Goto(t, "stopBody", "stopSleep")
  /\ isRunning[w]
  /\ cancelled' = [cancelled EXCEPT ![w] = @ \cup {started[w]}]
  /\ isRunning' = [isRunning EXCEPT ![w] = FALSE]
  /\ UNCHANGED <<lockVars, started, consumer, countVars, callVars>>

\* w.cancel(), and 150 ms for the goroutine to notice.
StopCancels(t) ==
  LET w == arg[t] IN
  /\ Goto(t, "stopBody", "stopSleep")
  /\ isRunning[w]
  /\ cancelled' = [cancelled EXCEPT ![w] = @ \cup {started[w]}]
  /\ UNCHANGED <<lockVars, isRunning, started, consumer, countVars, callVars>>

StopReturns(t) == Goes(t, "stopSleep", Caller(t))

(***************************************************************************)
(* GetWorkersState, of which only the lock matters to anyone else.         *)
(***************************************************************************)
StateLock(t) ==
  /\ Goto(t, "stateLock", "stateScan")
  /\ ReadLock(t)
  /\ UNCHANGED <<workers, writer, consumerVars, callVars>>

\* Slip to rule out: the read lock is not given back.
StateReturnsLocked(t) == Goes(t, "stateScan", "idle")

StateReturns(t) ==
  /\ Goto(t, "stateScan", "idle")
  /\ ReadUnlock(t)
  /\ UNCHANGED <<workers, writer, consumerVars, callVars>>

-----------------------------------------------------------------------------
(***************************************************************************)
(* The goroutine of a worker.                                              *)
(***************************************************************************)
Consumes(w, g, from, to) ==
  /\ consumer[w][g] = from
  /\ consumer' = [consumer EXCEPT ![w][g] = to]

\* ReadMessage returns a message, even one that a cancelled context has raced
\* with; the worker counts it and shows it.
Receive(w, g) ==
  /\ Consumes(w, g, "reading", "received")
  /\ messages < MaxMessages
  /\ messages' = messages + 1
  /\ processedCount' = [processedCount EXCEPT ![w] = @ + 1]
  /\ currentMsg' = [currentMsg EXCEPT ![w] = TRUE]
  /\ UNCHANGED <<lockVars, workerVars, totalConsumed, rebalanceCount, threadVars>>

\* Slip to rule out: a cancelled context drops the message in hand.
ConsumeUnlessCancelled(w, g) ==
  /\ Consumes(w, g, "received", "consumed")
  /\ totalConsumed' = IF g \in cancelled[w] THEN totalConsumed ELSE totalConsumed + 1
  /\ UNCHANGED <<lockVars, workerVars, processedCount, currentMsg, rebalanceCount, messages, threadVars>>

\* The processing delay, which no context interrupts, and the app's counter.
Consume(w, g) ==
  /\ Consumes(w, g, "received", "consumed")
  /\ totalConsumed' = totalConsumed + 1
  /\ UNCHANGED <<lockVars, workerVars, processedCount, currentMsg, rebalanceCount, messages, threadVars>>

ClearMessage(w, g) ==
  /\ Consumes(w, g, "consumed", "reading")
  /\ currentMsg' = [currentMsg EXCEPT ![w] = FALSE]
  /\ UNCHANGED <<lockVars, workerVars, processedCount, totalConsumed, rebalanceCount, messages, threadVars>>

\* Slip to rule out: the context's error is retried like any other.
RetryReading(w, g) ==
  /\ Consumes(w, g, "reading", "reading")
  /\ g \in cancelled[w]
  /\ UNCHANGED <<lockVars, workerVars, countVars, threadVars>>

\* ReadMessage returns the context's error.  (Any other error is retried.)
StopReading(w, g) ==
  /\ Consumes(w, g, "reading", "closing")
  /\ g \in cancelled[w]
  /\ UNCHANGED <<lockVars, workerVars, countVars, threadVars>>

\* The deferred function: the reader is closed, then the worker is reset, then
\* the app's counter is increased.
Close(w, g) ==
  /\ Consumes(w, g, "closing", "leaving")
  /\ isRunning' = [isRunning EXCEPT ![w] = FALSE]
  /\ currentMsg' = [currentMsg EXCEPT ![w] = FALSE]
  /\ UNCHANGED <<lockVars, started, cancelled, processedCount, totalConsumed, rebalanceCount, messages, threadVars>>

\* Slip to rule out: the counter goes the wrong way.
LeaveCountsDown(w, g) ==
  /\ Consumes(w, g, "leaving", "gone")
  /\ rebalanceCount' = rebalanceCount - 1
  /\ UNCHANGED <<lockVars, workerVars, processedCount, currentMsg, totalConsumed, messages, threadVars>>

Leave(w, g) ==
  /\ Consumes(w, g, "leaving", "gone")
  /\ rebalanceCount' = rebalanceCount + 1
  /\ UNCHANGED <<lockVars, workerVars, processedCount, currentMsg, totalConsumed, messages, threadVars>>

Consumer(w, g) ==
  \/ Receive(w, g) \/ Consume(w, g) \/ ClearMessage(w, g)
  \/ StopReading(w, g) \/ Close(w, g) \/ Leave(w, g)

-----------------------------------------------------------------------------
(***************************************************************************)
(* The threads.                                                            *)
(***************************************************************************)

\* A toggle or a state request reaches a handler.
Request(t) ==
  /\ serverUp
  /\ requests < MaxRequests
  /\ requests' = requests + 1
  /\ \/ \E w \in Worker : Calls(t, "idle", "startLock", w)
     \/ \E w \in Worker : Calls(t, "idle", "stopLock", w)
     \/ Goto(t, "idle", "stateLock") /\ UNCHANGED arg
  /\ UNCHANGED <<lockVars, bootQueue, toStop, serverUp, consumerVars>>

\* EnsureTopicExists succeeds at last, or not in fifteen attempts.
BootProbe == Goes("boot", "probe", "bootLoop") \/ Goes("boot", "probe", "done")

BootStarts ==
  /\ bootQueue # <<>>
  /\ Calls("boot", "bootLoop", "startLock", Head(bootQueue))
  /\ bootQueue' = Tail(bootQueue)
  /\ UNCHANGED <<lockVars, toStop, serverUp, requests, consumerVars>>

BootEnds ==
  /\ bootQueue = <<>>
  /\ Goes("boot", "bootLoop", "done")

\* SIGINT or SIGTERM: the server accepts nothing any more.
Signal ==
  /\ MaySignal
  /\ Goto("main", "signal", "drain")
  /\ serverUp' = FALSE
  /\ UNCHANGED <<lockVars, arg, bootQueue, toStop, requests, consumerVars>>

\* Server.Shutdown waits for the handlers, for five seconds at most.
Drained == Goes("main", "drain", "stopAllLock")

\* StopAll.
StopAllLock ==
  /\ Goto("main", "stopAllLock", "stopAllLoop")
  /\ ReadLock("main")
  /\ toStop' = workers
  /\ UNCHANGED <<workers, writer, arg, bootQueue, serverUp, requests, consumerVars>>

StopAllNext ==
  /\ \E w \in toStop : /\ Calls("main", "stopAllLoop", "stopLock", w)
                       /\ toStop' = toStop \ {w}
  /\ UNCHANGED <<lockVars, bootQueue, serverUp, requests, consumerVars>>

StopAllReturns ==
  /\ toStop = {}
  /\ Goto("main", "stopAllLoop", "done")
  /\ ReadUnlock("main")
  /\ UNCHANGED <<workers, writer, consumerVars, callVars>>

\* What a thread does in the functions of the worker manager.
InManager(t) ==
  \/ StartLock(t) \/ StartLookup(t) \/ StartIgnored(t) \/ StartSpawns(t)
  \/ StopLock(t) \/ StopLookup(t) \/ StopIgnored(t) \/ StopCancels(t) \/ StopReturns(t)
  \/ StateLock(t) \/ StateReturns(t)

Boot == BootProbe \/ BootStarts \/ BootEnds
Main == Drained \/ StopAllLock \/ StopAllNext \/ StopAllReturns

\* The process ends with main, and all its goroutines with it.
Alive == pc["main"] # "done"

ConsumerStep(w, g) == Alive /\ Consumer(w, g)
ThreadStep(t) ==
  /\ Alive
  /\ InManager(t) \/ (t = "boot" /\ Boot) \/ (t = "main" /\ Main)

\* Nothing is asked of the process: the clients are idle, the workers wait for
\* messages, and main waits for a signal; or the process has ended.
Quiet ==
  /\ ~Alive \/ \A t \in Thread : pc[t] \in {"idle", "done", "signal"}
  /\ UNCHANGED vars

Next ==
  \/ \E t \in Thread : ThreadStep(t)
  \/ \E w \in Worker, g \in Gen : ConsumerStep(w, g)
  \/ \E t \in Client : Request(t)
  \/ Signal
  \/ Quiet

Spec == Init /\ [][Next]_vars

(***************************************************************************)
(* Fairness.  Every goroutine that can go on does, and a mutex that is     *)
(* free again and again is not denied to a waiting thread for ever         *)
(* (sync.RWMutex hands it over).  ReadMessage chooses at random between a  *)
(* message and a context that is done, so it takes the latter in the end.  *)
(* Requests, messages and the signal come or do not.                       *)
(***************************************************************************)
FairSpec ==
  /\ Spec
  /\ \A t \in Thread : SF_vars(ThreadStep(t))
  /\ \A w \in Worker, g \in Gen :
       /\ WF_vars(ConsumerStep(w, g) /\ consumer[w][g] # "reading")
       /\ SF_vars(Alive /\ StopReading(w, g))

-----------------------------------------------------------------------------
\* The goroutine g of w has a reader in the consumer group.
Reading(w, g) == consumer[w][g] \in Open

\* No worker ever has two readers, is_running tells whether it has one, and
\* w.cancel is the cancel function of that reader's goroutine, so that a stop
\* reaches the one that runs: however starts and stops interleave with the end
\* of the goroutine before, whose flag is reset only when its reader is closed.
FlagIsTrue ==
  \A w \in Worker, g \in Gen : Reading(w, g) <=> isRunning[w] /\ g = started[w]

\* The n-th message that w has counted, and the goroutines with a message in hand.
Counted == {m \in Worker \X (1..MaxMessages) : m[2] <= processedCount[m[1]]}
InHand  == {p \in Worker \X Gen : consumer[p[1]][p[2]] = "received"}

\* Every message a worker has counted is counted by the app, once its delay is
\* over, whoever was stopped in between.
EveryMessageIsCounted == Cardinality(Counted) = totalConsumed + Cardinality(InHand)

\* A worker told to stop leaves the group in the end.
StopTakesEffect ==
  \A w \in Worker, g \in Gen : g \in cancelled[w] ~> consumer[w][g] = "gone"

\* Until the shutdown begins, no request waits for ever, and neither does the
\* boot: the locks are given back.
CallsReturn ==
  \A t \in Client \cup {"boot"} :
    pc[t] # "idle" ~> pc[t] \in {"idle", "done"} \/ ~serverUp

\* The graceful shutdown comes to its end.
ShutdownCompletes == pc["main"] = "drain" ~> pc["main"] = "done"
=============================================================================
