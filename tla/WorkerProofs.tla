---------------------------- MODULE WorkerProofs ----------------------------
(***************************************************************************)
(* FlagIsTrue, EveryMessageIsCounted, and why a shutdown hangs, for any    *)
(* number of workers, clients, requests, starts and messages.              *)
(*                                                                         *)
(* With the types of the three variables it speaks of, FlagIsTrue is       *)
(* inductive: a goroutine is spawned only while the flag is down, so no    *)
(* other has a reader then, and the flag goes down only in the step that   *)
(* closes the reader of the latest one.  Nothing else touches either.      *)
(***************************************************************************)
EXTENDS WorkerManager, FiniteSetTheorems, TLAPS

FlagTypes ==
  /\ isRunning \in [Worker -> BOOLEAN]
  /\ started \in [Worker -> 0..MaxStarts]
  /\ consumer \in [Worker -> [Gen -> ConsumerState]]

FlagInv == FlagTypes /\ FlagIsTrue

\* Nothing is started, and no flag is up.
LEMMA FlagInit == Init => FlagInv
  BY BoundAssumption DEF Init, FlagInv, FlagTypes, FlagIsTrue, Reading, Gen, Open, ConsumerState

\* A step that neither spawns nor runs a goroutine of a worker.
LEMMA FlagUntouched ==
  ASSUME FlagInv, UNCHANGED <<isRunning, started, consumer>>
  PROVE  FlagInv'
  BY DEF FlagInv, FlagTypes, FlagIsTrue, Reading

\* The flag was down, so no goroutine of the worker has a reader but the new one.
LEMMA SpawnKeepsFlag ==
  ASSUME FlagInv, NEW t \in Thread, StartSpawns(t)
  PROVE  FlagInv'
<1> DEFINE w == arg[t]
           g == started[w] + 1
<1>1. CASE w \notin Worker
  <2>1. UNCHANGED <<isRunning, started, consumer>>
    BY <1>1 DEF StartSpawns, FlagInv, FlagTypes
  <2>2. QED
    BY <2>1, FlagUntouched
<1>2. CASE w \in Worker
  <2>1. g \in Gen /\ g \in 0..MaxStarts /\ g # started[w]
    BY <1>2, BoundAssumption DEF StartSpawns, FlagInv, FlagTypes, Gen
  <2>2. /\ isRunning' = [isRunning EXCEPT ![w] = TRUE]
        /\ started' = [started EXCEPT ![w] = g]
        /\ consumer' = [consumer EXCEPT ![w] = [@ EXCEPT ![g] = "reading"]]
        /\ ~isRunning[w]
    BY DEF StartSpawns
  <2>3. FlagTypes'
    <3>1. isRunning' \in [Worker -> BOOLEAN]
      BY <2>2 DEF FlagInv, FlagTypes
    <3>2. started' \in [Worker -> 0..MaxStarts]
      BY <2>1, <2>2 DEF FlagInv, FlagTypes
    <3>3. consumer' \in [Worker -> [Gen -> ConsumerState]]
      BY <2>1, <2>2 DEF FlagInv, FlagTypes, ConsumerState
    <3>4. QED
      BY <3>1, <3>2, <3>3 DEF FlagTypes
  <2>4. ASSUME NEW v \in Worker, NEW h \in Gen
        PROVE  Reading(v, h)' <=> isRunning'[v] /\ h = started'[v]
    <3>1. CASE v # w
      BY <3>1, <2>2 DEF FlagInv, FlagTypes, FlagIsTrue, Reading
    <3>2. CASE v = w /\ h = g
      BY <3>2, <1>2, <2>1, <2>2 DEF FlagInv, FlagTypes, Reading, Open
    <3>3. CASE v = w /\ h # g
      <4>1. ~Reading(w, h)
        BY <1>2, <2>2 DEF FlagInv, FlagIsTrue
      <4>2. consumer'[w][h] = consumer[w][h] /\ started'[w] = g
        BY <3>3, <1>2, <2>1, <2>2 DEF FlagInv, FlagTypes
      <4>3. QED
        BY <3>3, <4>1, <4>2 DEF Reading
    <3>4. QED
      BY <3>1, <3>2, <3>3
  <2>5. QED
    BY <2>3, <2>4 DEF FlagInv, FlagIsTrue
<1>3. QED
  BY <1>1, <1>2

\* A goroutine that goes on with its reader open, or has closed it before.
LEMMA GoingOnKeepsFlag ==
  ASSUME FlagInv, NEW w \in Worker, NEW g \in Gen,
         NEW from \in ConsumerState, NEW to \in ConsumerState,
         from \in Open <=> to \in Open,
         Consumes(w, g, from, to), UNCHANGED <<isRunning, started>>
  PROVE  FlagInv'
<1>1. /\ consumer' = [consumer EXCEPT ![w] = [@ EXCEPT ![g] = to]]
      /\ consumer[w][g] = from
  BY DEF Consumes
<1>2. FlagTypes'
  BY <1>1 DEF FlagInv, FlagTypes
<1>3. ASSUME NEW v \in Worker, NEW h \in Gen
      PROVE  Reading(v, h)' <=> Reading(v, h)
  <2>1. CASE v = w /\ h = g
    BY <1>1, <2>1 DEF FlagInv, FlagTypes, Reading
  <2>2. CASE ~(v = w /\ h = g)
    BY <1>1, <2>2 DEF FlagInv, FlagTypes, Reading
  <2>3. QED
    BY <2>1, <2>2
<1>4. QED
  BY <1>2, <1>3 DEF FlagInv, FlagIsTrue

\* The goroutine that closes its reader is the latest one, whose flag it is.
LEMMA CloseKeepsFlag ==
  ASSUME FlagInv, NEW w \in Worker, NEW g \in Gen, Close(w, g)
  PROVE  FlagInv'
<1>1. /\ consumer' = [consumer EXCEPT ![w] = [@ EXCEPT ![g] = "leaving"]]
      /\ consumer[w][g] = "closing"
      /\ isRunning' = [isRunning EXCEPT ![w] = FALSE]
      /\ started' = started
  BY DEF Close, Consumes
<1>2. FlagTypes'
  BY <1>1 DEF FlagInv, FlagTypes, ConsumerState
<1>3. isRunning[w] /\ g = started[w]
  BY <1>1 DEF FlagInv, FlagIsTrue, Reading, Open
<1>4. ASSUME NEW v \in Worker, NEW h \in Gen
      PROVE  Reading(v, h)' <=> isRunning'[v] /\ h = started'[v]
  <2>1. CASE v # w
    BY <1>1, <2>1 DEF FlagInv, FlagTypes, FlagIsTrue, Reading
  <2>2. CASE v = w /\ h = g
    BY <1>1, <2>2 DEF FlagInv, FlagTypes, Reading, Open
  <2>3. CASE v = w /\ h # g
    <3>1. ~Reading(w, h)
      BY <1>3, <2>3 DEF FlagInv, FlagIsTrue
    <3>2. ~Reading(w, h)'
      BY <1>1, <2>3, <3>1 DEF FlagInv, FlagTypes, Reading
    <3>3. ~isRunning'[w]
      BY <1>1 DEF FlagInv, FlagTypes
    <3>4. QED
      BY <2>3, <3>2, <3>3
  <2>4. QED
    BY <2>1, <2>2, <2>3
<1>5. QED
  BY <1>2, <1>4 DEF FlagInv, FlagIsTrue

\* A step of a worker's goroutine.
LEMMA ConsumerKeepsFlag ==
  ASSUME FlagInv, NEW w \in Worker, NEW g \in Gen, Consumer(w, g)
  PROVE  FlagInv'
<1>1. CASE Receive(w, g)
  BY <1>1, GoingOnKeepsFlag DEF Receive, workerVars, ConsumerState, Open
<1>2. CASE Consume(w, g)
  BY <1>2, GoingOnKeepsFlag DEF Consume, workerVars, ConsumerState, Open
<1>3. CASE ClearMessage(w, g)
  BY <1>3, GoingOnKeepsFlag DEF ClearMessage, workerVars, ConsumerState, Open
<1>4. CASE StopReading(w, g)
  BY <1>4, GoingOnKeepsFlag DEF StopReading, workerVars, ConsumerState, Open
<1>5. CASE Close(w, g)
  BY <1>5, CloseKeepsFlag
<1>6. CASE Leave(w, g)
  BY <1>6, GoingOnKeepsFlag DEF Leave, workerVars, ConsumerState, Open
<1>7. QED
  BY <1>1, <1>2, <1>3, <1>4, <1>5, <1>6 DEF Consumer

\* A step of a thread: only a spawn has to do with flags and readers.
LEMMA ThreadKeepsFlag ==
  ASSUME FlagInv, NEW t \in Thread, ThreadStep(t)
  PROVE  FlagInv'
<1>1. CASE StartSpawns(t)
  BY <1>1, SpawnKeepsFlag
<1>2. CASE StartLock(t) \/ StartLookup(t) \/ StartIgnored(t)
  BY <1>2, FlagUntouched
  DEF StartLock, StartLookup, StartIgnored, WriteLock, Goes, consumerVars, workerVars
<1>3. CASE StopLock(t) \/ StopLookup(t) \/ StopIgnored(t) \/ StopCancels(t) \/ StopReturns(t)
  BY <1>3, FlagUntouched
  DEF StopLock, StopLookup, StopIgnored, StopCancels, StopReturns, WriteLock, Goes,
      consumerVars, workerVars
<1>4. CASE StateLock(t) \/ StateReturns(t)
  BY <1>4, FlagUntouched DEF StateLock, StateReturns, consumerVars, workerVars
<1>5. CASE Boot
  BY <1>5, FlagUntouched DEF Boot, BootProbe, BootStarts, BootEnds, Goes, consumerVars, workerVars
<1>6. CASE Main
  BY <1>6, FlagUntouched
  DEF Main, Drained, StopAllLock, StopAllNext, StopAllReturns, Goes, consumerVars, workerVars
<1>7. QED
  BY <1>1, <1>2, <1>3, <1>4, <1>5, <1>6 DEF ThreadStep, InManager

LEMMA FlagNext == FlagInv /\ [Next]_vars => FlagInv'
<1> SUFFICES ASSUME FlagInv, [Next]_vars
             PROVE  FlagInv'
  OBVIOUS
<1>1. CASE \E t \in Thread : ThreadStep(t)
  BY <1>1, ThreadKeepsFlag
<1>2. CASE \E w \in Worker, g \in Gen : ConsumerStep(w, g)
  BY <1>2, ConsumerKeepsFlag DEF ConsumerStep
<1>3. CASE \E t \in Client : Request(t)
  BY <1>3, FlagUntouched DEF Request, consumerVars, workerVars
<1>4. CASE Signal
  BY <1>4, FlagUntouched DEF Signal, consumerVars, workerVars
<1>5. CASE UNCHANGED vars
  BY <1>5, FlagUntouched DEF vars, workerVars
<1>6. QED
  BY <1>1, <1>2, <1>3, <1>4, <1>5 DEF Next, Quiet

\* For every number of workers and clients: the flag of a worker tells whether it
\* has a reader, of which it never has two, and a stop reaches that reader's
\* goroutine.
THEOREM FlagHolds == Spec => []FlagIsTrue
<1>1. FlagInv => FlagIsTrue
  BY DEF FlagInv
<1>2. QED
  BY <1>1, FlagInit, FlagNext, PTL DEF Spec

-----------------------------------------------------------------------------
(***************************************************************************)
(* The types of all variables.  The map of workers takes what a thread has *)
(* in arg, so a thread that is on its way to the map has a worker there.   *)
(***************************************************************************)
Named(t) ==
  pc[t] \in {"startLock", "startLocked", "startBody", "stopLock", "stopLocked", "stopBody"}
    => arg[t] \in Worker

LockTypes == workers \subseteq Worker /\ readers \subseteq Thread /\ writer \in Thread \cup {None}

CountTypes ==
  /\ cancelled \in [Worker -> SUBSET Gen] /\ currentMsg \in [Worker -> BOOLEAN]
  /\ processedCount \in [Worker -> Nat]
  /\ totalConsumed \in Nat /\ rebalanceCount \in Nat /\ messages \in Nat

ThreadTypes ==
  /\ pc \in [Thread -> Place] /\ arg \in [Thread -> Worker \cup {None}]
  /\ bootQueue \in Seq(Worker) /\ toStop \subseteq Worker
  /\ serverUp \in BOOLEAN /\ requests \in Nat
  /\ \A t \in Thread : Named(t)

\* A worker that runs has had a goroutine, whose context a stop cancels.
RunningIsStarted == \A w \in Worker : isRunning[w] => started[w] \in Gen

TypeInv == FlagInv /\ RunningIsStarted /\ LockTypes /\ CountTypes /\ ThreadTypes

LEMMA TypeInit == Init => TypeInv
<1> SUFFICES ASSUME Init PROVE TypeInv
  OBVIOUS
<1>1. LockTypes /\ CountTypes
  BY DEF Init, LockTypes, CountTypes
<1>2. pc \in [Thread -> {"idle", "probe", "signal"}]
  BY ClientAssumption DEF Init, Thread
<1>3. ThreadTypes
  BY <1>2, BootAssumption DEF Init, ThreadTypes, Place, Named
<1>4. RunningIsStarted
  BY DEF Init, RunningIsStarted
<1>. QED BY <1>1, <1>3, <1>4, FlagInit DEF TypeInv

\* A thread that goes on to another place, or calls with a worker's id.
LEMMA GotoHolds ==
  ASSUME ThreadTypes, NEW t \in Thread, NEW from, NEW to \in Place,
         Goto(t, from, to), UNCHANGED <<bootQueue, toStop, serverUp, requests>>,
         \/ arg' = arg /\ (to \in {"startLock", "startLocked", "startBody", "stopLock",
                                   "stopLocked", "stopBody"} => arg[t] \in Worker)
         \/ \E w \in Worker : arg' = [arg EXCEPT ![t] = w]
  PROVE  ThreadTypes'
<1>1. pc' = [pc EXCEPT ![t] = to]
  BY DEF Goto
<1>2. /\ pc' \in [Thread -> Place] /\ arg' \in [Thread -> Worker \cup {None}]
      /\ \A u \in Thread \ {t} : pc'[u] = pc[u] /\ arg'[u] = arg[u]
      /\ pc'[t] = to
  BY <1>1 DEF ThreadTypes
<1>3. Named(t)'
  BY <1>2 DEF ThreadTypes, Named
<1>4. \A u \in Thread \ {t} : Named(u)'
  BY <1>2 DEF ThreadTypes, Named
<1>. QED BY <1>2, <1>3, <1>4 DEF ThreadTypes

LEMMA CallerIsPlace ==
  ASSUME NEW t \in Thread
  PROVE  /\ Caller(t) \in Place
         /\ Caller(t) \notin {"startLock", "startLocked", "startBody", "stopLock",
                             "stopLocked", "stopBody"}
<1>1. Caller(t) \in {"idle", "bootLoop", "stopAllLoop"}
  BY ClientAssumption DEF Caller, Thread
<1>. QED BY <1>1 DEF Place

\* A step that only goes on.
LEMMA GoesHolds ==
  ASSUME LockTypes, CountTypes, ThreadTypes, NEW t \in Thread, NEW from, NEW to \in Place,
         Goes(t, from, to),
         to \notin {"startLock", "startLocked", "startBody", "stopLock", "stopLocked", "stopBody"}
  PROVE  LockTypes' /\ CountTypes' /\ ThreadTypes'
<1>1. ThreadTypes'
  BY GotoHolds DEF Goes, callVars
<1>. QED BY <1>1 DEF Goes, lockVars, consumerVars, workerVars, countVars, LockTypes, CountTypes

LEMMA ManagerKeepsTypes ==
  ASSUME LockTypes, CountTypes, ThreadTypes, RunningIsStarted, NEW t \in Thread, InManager(t)
  PROVE  LockTypes' /\ CountTypes' /\ ThreadTypes'
<1>1. ASSUME NEW from, NEW to \in {"startLocked", "stopLocked"}, WriteLock(t, from, to),
             from \in {"startLock", "stopLock"}
      PROVE  LockTypes' /\ CountTypes' /\ ThreadTypes'
  <2>1. arg[t] \in Worker
    BY <1>1 DEF WriteLock, Goto, ThreadTypes, Named
  <2>2. ThreadTypes'
    BY <1>1, <2>1, GotoHolds DEF WriteLock, callVars, Place
  <2>. QED BY <1>1, <2>2
       DEF WriteLock, consumerVars, workerVars, countVars, LockTypes, CountTypes
<1>2. CASE StartLookup(t)
  <2>1. arg[t] \in Worker
    BY <1>2 DEF StartLookup, Goto, ThreadTypes, Named
  <2>2. ThreadTypes'
    BY <1>2, <2>1, GotoHolds DEF StartLookup, callVars, Place
  <2>. QED BY <1>2, <2>1, <2>2
       DEF StartLookup, consumerVars, workerVars, countVars, LockTypes, CountTypes
<1>3. CASE StartSpawns(t)
  <2>1. ThreadTypes'
    BY <1>3, GotoHolds, CallerIsPlace DEF StartSpawns, callVars
  <2>. QED BY <1>3, <2>1 DEF StartSpawns, lockVars, countVars, LockTypes, CountTypes
<1>4. CASE StopLookup(t)
  <2>1. arg[t] \in Worker
    BY <1>4 DEF StopLookup, Goto, ThreadTypes, Named
  <2> DEFINE to == IF arg[t] \in workers THEN "stopBody" ELSE Caller(t)
  <2>2. to \in Place
    BY CallerIsPlace DEF Place
  <2>3. Goto(t, "stopLocked", to)
    BY <1>4 DEF StopLookup
  <2> HIDE DEF to
  <2>4. ThreadTypes'
    BY <1>4, <2>1, <2>2, <2>3, GotoHolds DEF StopLookup, callVars
  <2>. QED BY <1>4, <2>4
       DEF StopLookup, consumerVars, workerVars, countVars, LockTypes, CountTypes
<1>5. CASE StopCancels(t)
  <2>1. arg[t] \in Worker
    BY <1>5 DEF StopCancels, Goto, ThreadTypes, Named
  <2>2. ThreadTypes'
    BY <1>5, GotoHolds DEF StopCancels, callVars, Place
  <2>3. started[arg[t]] \in Gen
    BY <1>5, <2>1 DEF StopCancels, RunningIsStarted
  <2>. QED BY <1>5, <2>1, <2>2, <2>3
       DEF StopCancels, lockVars, countVars, LockTypes, CountTypes
<1>6. CASE StartIgnored(t) \/ StopIgnored(t) \/ StopReturns(t)
  BY <1>6, GoesHolds, CallerIsPlace DEF StartIgnored, StopIgnored, StopReturns
<1>7. CASE StateLock(t) \/ StateReturns(t)
  <2>1. ThreadTypes'
    BY <1>7, GotoHolds DEF StateLock, StateReturns, callVars, Place
  <2>. QED BY <1>7, <2>1
       DEF StateLock, StateReturns, ReadLock, ReadUnlock, consumerVars, workerVars, countVars,
           LockTypes, CountTypes
<1>8. CASE StartLock(t)
  BY <1>1, <1>8 DEF StartLock
<1>9. CASE StopLock(t)
  BY <1>1, <1>9 DEF StopLock
<1>. QED BY <1>2, <1>3, <1>4, <1>5, <1>6, <1>7, <1>8, <1>9 DEF InManager

LEMMA BootKeepsTypes ==
  ASSUME LockTypes, CountTypes, ThreadTypes, Boot
  PROVE  LockTypes' /\ CountTypes' /\ ThreadTypes'
<1>1. "boot" \in Thread
  BY DEF Thread
<1>2. CASE BootProbe \/ BootEnds
  BY <1>1, <1>2, GoesHolds DEF BootProbe, BootEnds, Place
<1>3. CASE BootStarts
  <2>1. Head(bootQueue) \in Worker /\ Tail(bootQueue) \in Seq(Worker)
    BY <1>3 DEF BootStarts, ThreadTypes
  <2>2. /\ pc' = [pc EXCEPT !["boot"] = "startLock"]
        /\ arg' = [arg EXCEPT !["boot"] = Head(bootQueue)]
        /\ bootQueue' = Tail(bootQueue) /\ UNCHANGED <<toStop, serverUp, requests>>
    BY <1>3 DEF BootStarts, Calls, Goto
  <2>3. ThreadTypes'
    <3>1. pc' \in [Thread -> Place] /\ arg' \in [Thread -> Worker \cup {None}]
      BY <1>1, <2>1, <2>2 DEF ThreadTypes, Place
    <3>2. \A t \in Thread : Named(t)'
      BY <1>1, <2>1, <2>2 DEF ThreadTypes, Named
    <3>. QED BY <2>1, <2>2, <3>1, <3>2 DEF ThreadTypes
  <2>. QED BY <1>3, <2>3
       DEF BootStarts, lockVars, consumerVars, workerVars, countVars, LockTypes, CountTypes
<1>. QED BY <1>2, <1>3 DEF Boot

LEMMA MainKeepsTypes ==
  ASSUME LockTypes, CountTypes, ThreadTypes, Main \/ Signal
  PROVE  LockTypes' /\ CountTypes' /\ ThreadTypes'
<1>1. "main" \in Thread
  BY DEF Thread
<1>2. LockTypes' /\ CountTypes'
  BY <1>1 DEF Main, Drained, StopAllLock, StopAllNext, StopAllReturns, Signal, Goes, ReadLock, ReadUnlock,
       lockVars, consumerVars, workerVars, countVars, LockTypes, CountTypes
<1>3. CASE Drained
  BY <1>1, <1>3, GoesHolds DEF Drained, Place
<1>4. CASE StopAllReturns
  <2>1. /\ Goto("main", "stopAllLoop", "done") /\ "done" \in Place
        /\ UNCHANGED <<arg, bootQueue, toStop, serverUp, requests>>
    BY <1>4 DEF StopAllReturns, callVars, Place
  <2>2. ThreadTypes'
    BY <1>1, <2>1, GotoHolds
  <2>. QED BY <1>2, <2>2
<1>5. CASE StopAllLock \/ Signal
  <2>1. /\ \/ pc' = [pc EXCEPT !["main"] = "stopAllLoop"]
           \/ pc' = [pc EXCEPT !["main"] = "drain"]
        /\ UNCHANGED <<arg, bootQueue, requests>>
        /\ toStop' \subseteq Worker /\ serverUp' \in BOOLEAN
    BY <1>5 DEF StopAllLock, Signal, Goto, ThreadTypes, LockTypes
  <2>2. pc' \in [Thread -> Place]
    BY <1>1, <2>1 DEF ThreadTypes, Place
  <2>3. ASSUME NEW t \in Thread PROVE Named(t)'
    <3>1. CASE t = "main"
      BY <1>1, <2>1, <3>1 DEF ThreadTypes, Named
    <3>2. CASE t # "main"
      BY <1>1, <2>1, <3>2 DEF ThreadTypes, Named
    <3>. QED BY <3>1, <3>2
  <2>. QED BY <1>2, <2>1, <2>2, <2>3 DEF ThreadTypes
<1>6. CASE StopAllNext
  <2>1. PICK w \in toStop : /\ Calls("main", "stopAllLoop", "stopLock", w)
                            /\ toStop' = toStop \ {w}
    BY <1>6 DEF StopAllNext
  <2>2. /\ w \in Worker /\ pc' = [pc EXCEPT !["main"] = "stopLock"]
        /\ arg' = [arg EXCEPT !["main"] = w] /\ UNCHANGED <<bootQueue, serverUp, requests>>
    BY <1>6, <2>1 DEF StopAllNext, Calls, Goto, ThreadTypes
  <2>. QED BY <1>1, <1>2, <2>1, <2>2 DEF ThreadTypes, Named, Place
<1>. QED BY <1>2, <1>3, <1>4, <1>5, <1>6 DEF Main

LEMMA RequestKeepsTypes ==
  ASSUME LockTypes, CountTypes, ThreadTypes, NEW t \in Client, Request(t)
  PROVE  LockTypes' /\ CountTypes' /\ ThreadTypes'
<1>1. t \in Thread
  BY DEF Thread
<1>2. /\ requests' \in Nat /\ UNCHANGED <<bootQueue, toStop, serverUp>>
      /\ \/ /\ \/ pc' = [pc EXCEPT ![t] = "startLock"]
               \/ pc' = [pc EXCEPT ![t] = "stopLock"]
            /\ \E w \in Worker : arg' = [arg EXCEPT ![t] = w]
         \/ pc' = [pc EXCEPT ![t] = "stateLock"] /\ UNCHANGED arg
  BY DEF Request, Calls, Goto, ThreadTypes
<1>3. ThreadTypes'
  BY <1>1, <1>2 DEF ThreadTypes, Named, Place
<1>. QED BY <1>3 DEF Request, lockVars, consumerVars, workerVars, countVars, LockTypes, CountTypes

\* The goroutine of a worker touches no lock and no thread.
LEMMA ConsumerKeepsTypes ==
  ASSUME LockTypes, CountTypes, ThreadTypes, NEW w \in Worker, NEW g \in Gen, Consumer(w, g)
  PROVE  LockTypes' /\ CountTypes' /\ ThreadTypes'
<1>1. UNCHANGED <<workers, readers, writer, cancelled, pc, arg, bootQueue, toStop, serverUp, requests>>
  BY DEF Consumer, Receive, Consume, ClearMessage, StopReading, Close, Leave,
     lockVars, workerVars, countVars, threadVars
<1>2. CountTypes'
  <2>1. CASE Receive(w, g)
    BY <1>1, <2>1 DEF Receive, CountTypes
  <2>2. CASE Consume(w, g)
    BY <1>1, <2>2 DEF Consume, CountTypes
  <2>3. CASE ClearMessage(w, g)
    BY <1>1, <2>3 DEF ClearMessage, CountTypes
  <2>4. CASE StopReading(w, g)
    BY <1>1, <2>4 DEF StopReading, countVars, CountTypes
  <2>5. CASE Close(w, g)
    BY <1>1, <2>5 DEF Close, CountTypes
  <2>6. CASE Leave(w, g)
    BY <1>1, <2>6 DEF Leave, CountTypes
  <2>. QED BY <2>1, <2>2, <2>3, <2>4, <2>5, <2>6 DEF Consumer
<1>. QED BY <1>1, <1>2 DEF LockTypes, ThreadTypes, Named

\* Only a spawn raises a flag, and it counts the goroutine.
LEMMA RunningStaysStarted ==
  ASSUME FlagInv, RunningIsStarted, [Next]_vars
  PROVE  RunningIsStarted'
<1>1. ASSUME UNCHANGED <<isRunning, started>> PROVE RunningIsStarted'
  BY <1>1 DEF RunningIsStarted
<1>2. ASSUME NEW t \in Thread, StartSpawns(t) PROVE RunningIsStarted'
  <2>1. /\ isRunning' = [isRunning EXCEPT ![arg[t]] = TRUE]
        /\ started' = [started EXCEPT ![arg[t]] = @ + 1] /\ started[arg[t]] + 1 <= MaxStarts
    BY <1>2 DEF StartSpawns
  <2>. QED BY <2>1, BoundAssumption DEF FlagInv, FlagTypes, RunningIsStarted, Gen
<1>3. ASSUME NEW t \in Thread, ThreadStep(t) PROVE RunningIsStarted'
  BY <1>1, <1>2, <1>3
  DEF ThreadStep, InManager, Boot, Main, StartLock, StartLookup, StartIgnored, StopLock, StopLookup,
      StopIgnored, StopCancels, StopReturns, StateLock, StateReturns, WriteLock, Goes, BootProbe,
      BootStarts, BootEnds, Drained, StopAllLock, StopAllNext, StopAllReturns,
      consumerVars, workerVars
<1>4. ASSUME NEW w \in Worker, NEW g \in Gen, Consumer(w, g) PROVE RunningIsStarted'
  <2>1. CASE Close(w, g)
    BY <2>1 DEF Close, FlagInv, FlagTypes, RunningIsStarted
  <2>2. CASE ~Close(w, g)
    BY <1>1, <1>4, <2>2
    DEF Consumer, Receive, Consume, ClearMessage, StopReading, Leave, workerVars
  <2>. QED BY <2>1, <2>2
<1>5. CASE Signal \/ \E t \in Client : Request(t)
  BY <1>1, <1>5 DEF Signal, Request, consumerVars, workerVars
<1>. QED BY <1>1, <1>3, <1>4, <1>5 DEF Next, Quiet, ConsumerStep, vars, workerVars

LEMMA TypeNext == TypeInv /\ [Next]_vars => TypeInv'
<1> SUFFICES ASSUME TypeInv, [Next]_vars PROVE LockTypes' /\ CountTypes' /\ ThreadTypes'
  BY FlagNext, RunningStaysStarted DEF TypeInv
<1>1. ASSUME NEW t \in Thread, ThreadStep(t) PROVE LockTypes' /\ CountTypes' /\ ThreadTypes'
  BY <1>1, ManagerKeepsTypes, BootKeepsTypes, MainKeepsTypes DEF ThreadStep, TypeInv
<1>2. ASSUME NEW w \in Worker, NEW g \in Gen, ConsumerStep(w, g)
      PROVE  LockTypes' /\ CountTypes' /\ ThreadTypes'
  BY <1>2, ConsumerKeepsTypes DEF ConsumerStep, TypeInv
<1>3. ASSUME NEW t \in Client, Request(t) PROVE LockTypes' /\ CountTypes' /\ ThreadTypes'
  BY <1>3, RequestKeepsTypes DEF TypeInv
<1>4. CASE Signal
  BY <1>4, MainKeepsTypes DEF TypeInv
<1>5. CASE UNCHANGED vars
  BY <1>5 DEF vars, lockVars, workerVars, countVars, threadVars, TypeInv, LockTypes, CountTypes,
     ThreadTypes, Named
<1>. QED BY <1>1, <1>2, <1>3, <1>4, <1>5 DEF Next, Quiet

\* Every value a variable of the worker manager takes is of its type; in
\* particular the map never gets a key that nobody has asked for.
THEOREM TypeCorrect == Spec => []TypeOK
<1>1. TypeInv => TypeOK
  BY DEF TypeInv, FlagInv, FlagTypes, LockTypes, CountTypes, ThreadTypes, TypeOK
<1>. QED BY <1>1, TypeInit, TypeNext, PTL DEF Spec

-----------------------------------------------------------------------------
(***************************************************************************)
(* A message is in hand from the step that counts it for its worker to the *)
(* step that counts it for the app, and no other step begins or ends that. *)
(***************************************************************************)
CountInv ==
  /\ messages <= MaxMessages /\ \A w \in Worker : processedCount[w] <= messages
  /\ IsFiniteSet(Counted) /\ IsFiniteSet(InHand)
  /\ EveryMessageIsCounted

LEMMA CountInit == Init => CountInv
<1> SUFFICES ASSUME Init PROVE CountInv
  OBVIOUS
<1>1. /\ messages = 0 /\ totalConsumed = 0 /\ processedCount = [w \in Worker |-> 0]
      /\ consumer = [w \in Worker |-> [g \in Gen |-> "none"]]
  BY DEF Init
<1>2. Counted = {} /\ InHand = {}
  BY <1>1 DEF Counted, InHand
<1>3. IsFiniteSet({}) /\ Cardinality({}) = 0
  BY FS_EmptySet
<1>. QED BY <1>1, <1>2, <1>3, BoundAssumption DEF CountInv, EveryMessageIsCounted

\* A step that neither delivers a message nor ends its delay.
LEMMA CountUntouched ==
  ASSUME CountInv, UNCHANGED <<processedCount, totalConsumed, messages>>,
         \A w \in Worker, g \in Gen :
           consumer'[w][g] = "received" <=> consumer[w][g] = "received"
  PROVE  CountInv'
<1>1. Counted' = Counted /\ InHand' = InHand
  BY DEF Counted, InHand
<1>. QED BY <1>1 DEF CountInv, EveryMessageIsCounted

\* What a goroutine's step does to the set of those with a message in hand.
LEMMA HandMoves ==
  ASSUME FlagInv, NEW w \in Worker, NEW g \in Gen, NEW from, NEW to, Consumes(w, g, from, to)
  PROVE  \A v \in Worker, h \in Gen :
           consumer'[v][h] = IF v = w /\ h = g THEN to ELSE consumer[v][h]
  BY DEF FlagInv, FlagTypes, Consumes

LEMMA ReceiveKeepsCount ==
  ASSUME TypeInv, CountInv, NEW w \in Worker, NEW g \in Gen, Receive(w, g)
  PROVE  CountInv'
<1>1. /\ messages \in Nat /\ totalConsumed \in Nat /\ processedCount \in [Worker -> Nat]
      /\ FlagInv
  BY DEF TypeInv, CountTypes
<1>2. /\ Consumes(w, g, "reading", "received") /\ consumer[w][g] = "reading"
      /\ messages < MaxMessages /\ messages' = messages + 1 /\ totalConsumed' = totalConsumed
      /\ processedCount' = [processedCount EXCEPT ![w] = @ + 1]
  BY DEF Receive, Consumes
<1> DEFINE n == processedCount[w] + 1
<1>3. n \in 1..MaxMessages
  BY <1>1, <1>2, BoundAssumption DEF CountInv
<1>4. messages' <= MaxMessages /\ \A v \in Worker : processedCount'[v] <= messages'
  BY <1>1, <1>2, BoundAssumption DEF CountInv
<1>5. <<w, n>> \notin Counted /\ Counted' = Counted \cup {<<w, n>>}
  <2>1. <<w, n>> \notin Counted
    BY <1>1 DEF Counted
  <2>2. ASSUME NEW v \in Worker, NEW k \in 1..MaxMessages
        PROVE  k <= processedCount'[v] <=> k <= processedCount[v] \/ (v = w /\ k = n)
    BY <1>1, <1>2
  <2>3. ASSUME NEW m
        PROVE  m \in Counted' <=> m \in Counted \cup {<<w, n>>}
    BY <1>3, <2>2 DEF Counted
  <2>. QED BY <2>1, <2>3
<1>6. <<w, g>> \notin InHand /\ InHand' = InHand \cup {<<w, g>>}
  <2>1. \A v \in Worker, h \in Gen :
          consumer'[v][h] = IF v = w /\ h = g THEN "received" ELSE consumer[v][h]
    BY <1>1, <1>2, HandMoves
  <2>2. <<w, g>> \notin InHand
    BY <1>2 DEF InHand
  <2>3. ASSUME NEW p
        PROVE  p \in InHand' <=> p \in InHand \cup {<<w, g>>}
    BY <2>1 DEF InHand
  <2>. QED BY <2>2, <2>3
<1> HIDE DEF n
<1>7. /\ IsFiniteSet(Counted') /\ Cardinality(Counted') = Cardinality(Counted) + 1
      /\ IsFiniteSet(InHand') /\ Cardinality(InHand') = Cardinality(InHand) + 1
  BY <1>5, <1>6, FS_AddElement DEF CountInv
<1>8. Cardinality(InHand) \in Nat /\ Cardinality(Counted) \in Nat
  BY FS_CardinalityType DEF CountInv
<1>9. EveryMessageIsCounted'
  BY <1>1, <1>2, <1>7, <1>8 DEF CountInv, EveryMessageIsCounted
<1>. QED BY <1>4, <1>7, <1>9 DEF CountInv

LEMMA ConsumeKeepsCount ==
  ASSUME TypeInv, CountInv, NEW w \in Worker, NEW g \in Gen, Consume(w, g)
  PROVE  CountInv'
<1>1. totalConsumed \in Nat /\ FlagInv
  BY DEF TypeInv, CountTypes
<1>2. /\ Consumes(w, g, "received", "consumed") /\ consumer[w][g] = "received"
      /\ totalConsumed' = totalConsumed + 1 /\ UNCHANGED <<messages, processedCount>>
  BY DEF Consume, Consumes
<1>3. Counted' = Counted
  BY <1>2 DEF Counted
<1>4. <<w, g>> \in InHand /\ InHand' = InHand \ {<<w, g>>}
  <2>1. \A v \in Worker, h \in Gen :
          consumer'[v][h] = IF v = w /\ h = g THEN "consumed" ELSE consumer[v][h]
    BY <1>1, <1>2, HandMoves
  <2>2. <<w, g>> \in InHand
    BY <1>2 DEF InHand
  <2>3. ASSUME NEW p
        PROVE  p \in InHand' <=> p \in InHand \ {<<w, g>>}
    BY <2>1 DEF InHand
  <2>. QED BY <2>2, <2>3
<1>5. IsFiniteSet(InHand') /\ Cardinality(InHand') = Cardinality(InHand) - 1
  BY <1>4, FS_RemoveElement DEF CountInv
<1>6. Cardinality(InHand) \in Nat
  BY FS_CardinalityType DEF CountInv
<1>7. EveryMessageIsCounted'
  BY <1>1, <1>2, <1>3, <1>5, <1>6 DEF CountInv, EveryMessageIsCounted
<1>. QED BY <1>2, <1>3, <1>5, <1>7 DEF CountInv

LEMMA ConsumerKeepsCount ==
  ASSUME TypeInv, CountInv, NEW w \in Worker, NEW g \in Gen, Consumer(w, g)
  PROVE  CountInv'
<1>1. CASE Receive(w, g) \/ Consume(w, g)
  BY <1>1, ReceiveKeepsCount, ConsumeKeepsCount
<1>2. CASE ClearMessage(w, g) \/ StopReading(w, g) \/ Close(w, g) \/ Leave(w, g)
  <2>1. PICK from, to : Consumes(w, g, from, to) /\ from # "received" /\ to # "received"
    BY <1>2 DEF ClearMessage, StopReading, Close, Leave
  <2>2. \A v \in Worker, h \in Gen :
          consumer'[v][h] = IF v = w /\ h = g THEN to ELSE consumer[v][h]
    BY <2>1, HandMoves DEF TypeInv
  <2>3. consumer[w][g] = from
    BY <2>1 DEF Consumes
  <2>4. UNCHANGED <<processedCount, totalConsumed, messages>>
    BY <1>2 DEF ClearMessage, StopReading, Close, Leave, countVars
  <2>. QED BY <2>1, <2>2, <2>3, <2>4, CountUntouched
<1>. QED BY <1>1, <1>2 DEF Consumer

\* A new goroutine takes the place of none that has a message in hand: the flag
\* is down.
LEMMA SpawnKeepsCount ==
  ASSUME TypeInv, CountInv, NEW t \in Thread, StartSpawns(t)
  PROVE  CountInv'
<1> DEFINE w == arg[t]
           g == started[w] + 1
<1>1. /\ consumer' = [consumer EXCEPT ![w] = [@ EXCEPT ![g] = "reading"]] /\ ~isRunning[w]
      /\ UNCHANGED <<processedCount, totalConsumed, messages>>
  BY DEF StartSpawns, countVars
<1>2. \A h \in Gen : w \in Worker => consumer[w][h] # "received"
  BY <1>1 DEF TypeInv, FlagInv, FlagIsTrue, Reading, Open
<1>3. \A v \in Worker, h \in Gen :
        consumer'[v][h] = consumer[v][h] \/ (v = w /\ consumer'[v][h] = "reading")
  BY <1>1 DEF TypeInv, FlagInv, FlagTypes
<1>. QED BY <1>1, <1>2, <1>3, CountUntouched

LEMMA CountNext == TypeInv /\ CountInv /\ [Next]_vars => CountInv'
<1> SUFFICES ASSUME TypeInv, CountInv, [Next]_vars PROVE CountInv'
  OBVIOUS
<1>1. ASSUME NEW t \in Thread, ThreadStep(t) PROVE CountInv'
  <2>1. CASE StartSpawns(t)
    BY <2>1, SpawnKeepsCount
  <2>2. CASE ~StartSpawns(t)
    <3>1. UNCHANGED <<consumer, countVars>>
      BY <1>1, <2>2
      DEF ThreadStep, InManager, Boot, Main, StartLock, StartLookup, StartIgnored, StopLock, StopLookup,
          StopIgnored, StopCancels, StopReturns, StateLock, StateReturns, WriteLock, Goes, BootProbe,
          BootStarts, BootEnds, Drained, StopAllLock, StopAllNext, StopAllReturns, consumerVars
    <3>. QED BY <3>1, CountUntouched DEF countVars
  <2>. QED BY <2>1, <2>2
<1>2. ASSUME NEW w \in Worker, NEW g \in Gen, ConsumerStep(w, g) PROVE CountInv'
  BY <1>2, ConsumerKeepsCount DEF ConsumerStep
<1>3. CASE Signal \/ (\E t \in Client : Request(t)) \/ UNCHANGED vars
  BY <1>3, CountUntouched DEF Signal, Request, vars, consumerVars, countVars
<1>. QED BY <1>1, <1>2, <1>3 DEF Next, Quiet

\* No message is lost between the counter of its worker and that of the app, for
\* any number of workers, however they are stopped, started again and shut down.
THEOREM CountedHolds == Spec => []EveryMessageIsCounted
<1>1. CountInv => EveryMessageIsCounted
  BY DEF CountInv
<1>. QED BY <1>1, CountInit, CountNext, TypeInit, TypeNext, PTL DEF Spec

-----------------------------------------------------------------------------
(***************************************************************************)
(* StopAll reads the map under wm.mu, and calls StopWorker, which locks    *)
(* wm.mu for writing: main waits for itself.                               *)
(***************************************************************************)
Stopping == pc["main"] \in {"stopLock", "stopLocked"}

MainInv ==
  /\ Stopping \/ pc["main"] \in {"signal", "drain", "stopAllLock", "stopAllLoop", "done"}
  /\ Stopping \/ pc["main"] = "stopAllLoop" => "main" \in readers

\* The steps that others than main take.
LEMMA OthersLeaveMain ==
  ASSUME TypeInv, MainInv, NEW t \in Thread \ {"main"}, NEW from, NEW to, Goto(t, from, to),
         readers \ {t} \subseteq readers'
  PROVE  MainInv' /\ (Stopping => Stopping')
<1>1. pc'["main"] = pc["main"]
  BY DEF Goto, TypeInv, ThreadTypes
<1>. QED BY <1>1 DEF MainInv, Stopping

LEMMA OtherThreadStep ==
  ASSUME TypeInv, MainInv, NEW t \in Thread \ {"main"}, ThreadStep(t)
  PROVE  MainInv' /\ (Stopping => Stopping')
<1>1. readers \ {t} \subseteq readers'
  BY DEF ThreadStep, InManager, Boot, StartLock, StartLookup, StartIgnored, StartSpawns, StopLock,
     StopLookup, StopIgnored, StopCancels, StopReturns, StateLock, StateReturns, WriteLock, Goes,
     ReadLock, ReadUnlock, BootProbe, BootStarts, BootEnds, lockVars
<1>2. CASE InManager(t)
  <2>1. \E from, to : Goto(t, from, to)
    BY <1>2 DEF InManager, StartLock, StartLookup, StartIgnored, StartSpawns, StopLock, StopLookup,
       StopIgnored, StopCancels, StopReturns, StateLock, StateReturns, WriteLock, Goes
  <2>. QED BY <1>1, <2>1, OthersLeaveMain
<1>3. CASE t = "boot" /\ Boot
  <2>1. \E from, to : Goto(t, from, to)
    BY <1>3 DEF Boot, BootProbe, BootStarts, BootEnds, Goes, Calls
  <2>. QED BY <1>1, <2>1, OthersLeaveMain
<1>. QED BY <1>2, <1>3 DEF ThreadStep

\* main gets wm.mu for writing only when nobody reads, and it reads itself.
LEMMA MainStep ==
  ASSUME TypeInv, MainInv, ThreadStep("main") \/ Signal
  PROVE  MainInv' /\ (Stopping => Stopping')
<1>1. "main" \in Thread /\ "main" # "boot" /\ pc \in [Thread -> Place] /\ Caller("main") = "stopAllLoop"
  BY ClientAssumption DEF Thread, TypeInv, ThreadTypes, Caller
<1>2. pc["main"] = "stopLocked" => readers # {}
  BY DEF MainInv, Stopping
<1>3. CASE InManager("main")
  <2>1. StopLock("main")
    BY <1>1, <1>2, <1>3
    DEF InManager, MainInv, Stopping, StartLock, StartLookup, StartIgnored, StartSpawns, StopLookup,
        StopIgnored, StopCancels, StopReturns, StateLock, StateReturns, WriteLock, Goes, Goto
  <2>. QED BY <1>1, <2>1 DEF StopLock, WriteLock, Goto, MainInv, Stopping
<1>4. CASE Main \/ Signal
  BY <1>1, <1>4 DEF Main, Signal, Drained, StopAllLock, StopAllNext, StopAllReturns, ReadLock, ReadUnlock,
     Goes, Goto, Calls, lockVars, MainInv, Stopping
<1>. QED BY <1>1, <1>3, <1>4 DEF ThreadStep

LEMMA MainNext ==
  ASSUME TypeInv, MainInv, [Next]_vars
  PROVE  MainInv' /\ (Stopping => Stopping')
<1>1. ASSUME NEW t \in Thread, ThreadStep(t) PROVE MainInv' /\ (Stopping => Stopping')
  BY <1>1, OtherThreadStep, MainStep
<1>2. ASSUME NEW w \in Worker, NEW g \in Gen, Consumer(w, g)
      PROVE  UNCHANGED <<readers, pc>>
  BY <1>2 DEF Consumer, Receive, Consume, ClearMessage, StopReading, Close, Leave, lockVars, threadVars
<1>3. ASSUME NEW t \in Client, Request(t) PROVE MainInv' /\ (Stopping => Stopping')
  <2>1. t \in Thread \ {"main"} /\ readers' = readers
    BY <1>3, ClientAssumption DEF Thread, Request, lockVars
  <2>2. \E from, to : Goto(t, from, to)
    BY <1>3 DEF Request, Calls
  <2>. QED BY <2>1, <2>2, OthersLeaveMain
<1>4. CASE UNCHANGED <<readers, pc>>
  BY <1>4 DEF MainInv, Stopping
<1>. QED BY <1>1, <1>2, <1>3, <1>4, MainStep DEF Next, Quiet, ConsumerStep, vars, lockVars, threadVars

\* Why a shutdown with a worker in the map never completes: once main stops the
\* first one it never gets any further, for it waits for a lock that it holds.
THEOREM ShutdownHangs == Spec => [][Stopping => Stopping']_vars
<1>1. Init => MainInv
  BY ClientAssumption DEF Init, MainInv, Stopping, Thread
<1>2. TypeInv /\ MainInv /\ [Next]_vars => MainInv' /\ [Stopping => Stopping']_vars
  BY MainNext
<1>. QED BY <1>1, <1>2, TypeInit, TypeNext, PTL DEF Spec
=============================================================================
