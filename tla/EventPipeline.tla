--------------------------- MODULE EventPipeline ---------------------------
(***************************************************************************)
(* The way of an event through the message-queue demo: the handlers that   *)
(* produce it, the partitions of the topic, the consumer group, and the    *)
(* worker that processes it and tells the dashboard.                       *)
(*                                                                         *)
(* The group is what kafka-go makes of the ReaderConfig of worker.go.      *)
(* Each member ends its generation and starts the next one by itself;      *)
(* between the two its reader goes on returning what it has fetched, which *)
(* the new owner of the partition is given again.  ReadMessage returns an  *)
(* event and puts its offset aside (stash), which is committed every       *)
(* CommitInterval and at the end of a generation; what is put aside after  *)
(* that is committed in the next one, whoever owns the partition then.  A  *)
(* partition without a committed offset is read from its end (LastOffset). *)
(***************************************************************************)
EXTENDS Integers, FiniteSetsExt

CONSTANTS
  Worker,       \* the workers that initializeKafka starts
  Partition,    \* partitions of the topic
  First,        \* the one with the number 0
  Key,          \* keys of events
  MaxEvents,    \* bound: how many events are produced
  MaxChanges,   \* bound: how often workers are started or stopped by hand, a
                \* member loses the coordinator, or the process is killed
  MayFail,      \* may a request to the broker fail?
  None          \* no worker, no event, no offset

ASSUME BoundAssumption == {MaxEvents, MaxChanges} \subseteq Nat
ASSUME FirstAssumption == First \in Partition
ASSUME MayFailAssumption == MayFail \in BOOLEAN

\* Offsets are Kafka's, which grow without a limit that matters.
Offset  == Nat
Event   == Partition \X Offset
Message == [of : Partition, offset : Offset, kept : BOOLEAN]

ASSUME NoneAssumption  == None \notin Worker \cup Int \cup Message

VARIABLES
  failing,      \* do requests to the broker fail in this execution?
  hash,         \* the balancer kafka.Hash: the partition of a key
  topic,        \* does the topic exist?
  end,          \* end[p], how many events partition p holds
  queued,       \* queued[p], events in the asynchronous writer's batch
  boot,         \* initializeKafka
  toBoot,       \* workers it has still to start
  reader,       \* reader[w], its reader: closed, open, or told to stop
  rebalancing,  \* must the members of the group join again?
  owner,        \* owner[p], the worker that the group assigns p to
  running,      \* the readers whose generation runs
  fetch,        \* fetch[w][p], the next event of p that w's reader returns
  stash,        \* stash[w][p], the offset w's reader has put aside
  committed,    \* committed[p], the group's offset in Kafka
  hand,         \* hand[w], the event w processes
  handled,      \* events that have been processed
  begin,        \* begin[p], where the group has begun to read p (history)
  late,         \* events returned outside a generation (history)
  back,         \* partitions whose offset has been taken back (history)
  lost,         \* events a killed process had in hand (history)
  changes, kills

givens       == <<failing, hash>>
producerVars == <<givens, end, queued>>
offsetVars   == <<committed, back>>
groupVars    == <<rebalancing, owner, running, fetch, stash, offsetVars, begin>>
bootVars     == <<topic, boot, toBoot>>
boundVars    == <<changes, kills>>
handVars     == <<hand, handled, late, lost>>
workerVars   == <<reader, handVars>>
vars == <<producerVars, groupVars, bootVars, boundVars, workerVars>>

TypeOK ==
  /\ failing \in BOOLEAN /\ hash \in [Key -> Partition] /\ topic \in BOOLEAN
  /\ end \in [Partition -> Offset] /\ queued \in [Partition -> Offset]
  /\ boot \in {"probing", "starting", "done"} /\ toBoot \subseteq Worker
  /\ reader \in [Worker -> {"closed", "open", "stopping"}]
  /\ owner \in [Partition -> Worker \cup {None}]
  /\ rebalancing \in BOOLEAN /\ running \subseteq Worker
  /\ fetch \in [Worker -> [Partition -> Offset \cup {None}]]
  /\ stash \in [Worker -> [Partition -> Offset \cup {None}]]
  /\ committed \in [Partition -> Offset \cup {None}]
  /\ hand \in [Worker -> Message \cup {None}]
  /\ handled \subseteq Event /\ late \subseteq Event /\ lost \subseteq Event
  /\ begin \in [Partition -> Offset] /\ back \subseteq Partition

Nothing == [p \in Partition |-> None]

Init ==
  /\ failing \in {FALSE, MayFail}
  /\ hash \in [Key -> Partition]
  /\ topic \in BOOLEAN
  /\ end = [p \in Partition |-> 0] /\ queued = end
  /\ boot = "probing" /\ toBoot = Worker
  /\ reader = [w \in Worker |-> "closed"]
  /\ rebalancing = TRUE /\ running = {} /\ owner = Nothing
  /\ fetch = [w \in Worker |-> Nothing] /\ stash = fetch
  /\ committed = Nothing /\ back = {}
  /\ begin = [p \in Partition |-> 0]
  /\ hand = [w \in Worker |-> None]
  /\ handled = {} /\ late = {} /\ lost = {}
  /\ changes = 0 /\ kills = 0

-----------------------------------------------------------------------------
(***************************************************************************)
(* Producing.                                                              *)
(***************************************************************************)
Room == MapThenSumSet(LAMBDA p : end[p] + queued[p], Partition) < MaxEvents

Appends(p) == end' = [end EXCEPT ![p] = @ + 1]

\* The partition of an event.  A round-robin balancer of its own for every
\* request never gets past the first, and msg.Partition is not looked at by a
\* writer with a balancer.
Target(strategy, key) == IF strategy = "key" /\ key # None THEN hash[key] ELSE First

\* handleProduce waits for the leader's acknowledgement; without it the event
\* may be in the log all the same.
Produce(strategy, key) ==
  LET p == Target(strategy, key) IN
  /\ topic /\ Room
  /\ Appends(p) \/ (failing /\ UNCHANGED end)
  /\ UNCHANGED <<givens, queued, groupVars, bootVars, boundVars, workerVars>>

\* handleSimulateKafka: keyed events in batches that nobody waits for.
Bulk(key) ==
  /\ topic /\ Room
  /\ queued' = [queued EXCEPT ![hash[key]] = @ + 1]
  /\ UNCHANGED <<givens, end, groupVars, bootVars, boundVars, workerVars>>

WriteBatch(p) ==
  /\ queued[p] > 0
  /\ queued' = [queued EXCEPT ![p] = 0]
  /\ \/ end' = [end EXCEPT ![p] = @ + queued[p]]
     \/ failing /\ UNCHANGED end
  /\ UNCHANGED <<givens, groupVars, bootVars, boundVars, workerVars>>

Producer ==
  \/ \E s \in {"key", "partition", "round-robin"}, k \in Key \cup {None} : Produce(s, k)
  \/ \E k \in Key : Bulk(k)
-----------------------------------------------------------------------------
(***************************************************************************)
(* The consumer group.                                                     *)
(***************************************************************************)
Members == {w \in Worker : reader[w] # "closed"}

Assigned(o, w) == Cardinality({p \in Partition : o[p] = w})

Assignment(members) ==
  {o \in [Partition -> members] :
     \A v, w \in members : Assigned(o, v) - Assigned(o, w) \in -1..1}

\* Slip to rule out: kafka.LastOffset is where the last event is.
StartAtLast(p) == end[p] - 1

\* Where a group that has committed nothing begins: at kafka.LastOffset, which
\* is where the next event will be.
StartOffset(p) == end[p]

\* What the group has read for sure.
Passed(p) == IF committed[p] = None THEN begin[p] ELSE committed[p]

\* The offsets of some partitions that w's reader has put aside are committed.
CommitsOf(w, done) ==
  /\ committed' = [p \in Partition |->
       IF p \in done /\ stash[w][p] # None THEN stash[w][p] ELSE committed[p]]
  /\ back' = back \cup {p \in Partition : committed'[p] # None /\ committed'[p] < Passed(p)}

\* The commit at the end of a generation, or of a reader: it may fail, and what
\* is put aside is gone.
FinalCommit(w) ==
  /\ \E done \in IF failing THEN SUBSET Partition ELSE {Partition} : CommitsOf(w, done)
  /\ stash' = [stash EXCEPT ![w] = Nothing]

\* The tick of a reader's CommitInterval, while its generation runs.
Commit(w) ==
  /\ w \in running /\ stash[w] # Nothing
  /\ \/ CommitsOf(w, Partition) /\ stash' = [stash EXCEPT ![w] = Nothing]
     \/ failing /\ (\E done \in SUBSET Partition : CommitsOf(w, done)) /\ UNCHANGED stash
  /\ UNCHANGED <<producerVars, bootVars, boundVars, workerVars, rebalancing, owner,
                 running, fetch, begin>>

\* Slip to rule out: what was put aside survives a commit that failed.
EndKeepsStash(w) ==
  /\ rebalancing /\ w \in running
  /\ running' = running \ {w}
  /\ \/ FinalCommit(w)
     \/ failing /\ UNCHANGED <<stash, offsetVars>>
  /\ UNCHANGED <<producerVars, bootVars, boundVars, workerVars, rebalancing, owner,
                 fetch, begin>>

\* A member learns that it must join again: it commits and stops fetching, but
\* keeps what it has fetched.
EndGeneration(w) ==
  /\ rebalancing /\ w \in running
  /\ running' = running \ {w}
  /\ FinalCommit(w)
  /\ UNCHANGED <<producerVars, bootVars, boundVars, workerVars, rebalancing, owner,
                 fetch, begin>>

\* All members have joined.  What a worker has in hand stays there.
NewGeneration ==
  /\ rebalancing /\ rebalancing' = FALSE
  /\ Members # {} /\ running = {}
  /\ owner' \in Assignment(Members)
  /\ hand' = [w \in Worker |->
       IF hand[w] = None THEN None
       ELSE [hand[w] EXCEPT !.kept = @ /\ owner'[hand[w].of] = w]]
  /\ UNCHANGED <<producerVars, bootVars, boundVars, reader, handled, late, lost,
                 running, fetch, stash, offsetVars, begin>>

\* w's reader goes on where partitions ps are committed.
Starts(w, ps) ==
  /\ ~rebalancing /\ w \in Members \ running
  /\ running' = running \cup {w}
  /\ fetch' = [fetch EXCEPT ![w] = [p \in Partition |->
       IF p \notin ps THEN None
       ELSE IF committed[p] = None THEN StartOffset(p) ELSE committed[p]]]
  /\ begin' = [p \in Partition |->
       IF p \in ps /\ committed[p] = None THEN StartOffset(p) ELSE begin[p]]
  /\ UNCHANGED <<producerVars, bootVars, boundVars, workerVars, rebalancing, owner,
                 stash, offsetVars>>

\* Slip to rule out: readers without a group, which read every partition.
StartUngrouped(w) == Starts(w, Partition)

\* A member reads the offsets of its partitions and fetches from there; what it
\* had fetched before is dropped.
StartGeneration(w) == Starts(w, {p \in Partition : owner[p] = w})

\* A member loses the coordinator of the group, and joins again.
Disturb ==
  /\ failing /\ changes < MaxChanges /\ changes' = changes + 1
  /\ running # {} /\ ~rebalancing /\ rebalancing' = TRUE
  /\ UNCHANGED <<producerVars, bootVars, workerVars, kills, owner, running, fetch,
                 stash, offsetVars, begin>>

-----------------------------------------------------------------------------
(***************************************************************************)
(* The workers.                                                            *)
(***************************************************************************)
Opens(w) ==
  /\ reader[w] = "closed"
  /\ reader' = [reader EXCEPT ![w] = "open"]
  /\ rebalancing' = TRUE
  /\ UNCHANGED <<producerVars, handVars, owner, running, fetch, stash, offsetVars, begin>>

Aside(old, new) == IF old # None /\ old > new THEN old ELSE new

\* ReadMessage returns the next event of p and puts the offset n aside.
Returns(w, p, n) ==
  /\ reader[w] # "closed" /\ hand[w] = None
  /\ fetch[w][p] # None /\ fetch[w][p] < end[p]
  /\ hand' = [hand EXCEPT ![w] = [of |-> p, offset |-> fetch[w][p], kept |-> w \in running]]
  /\ fetch' = [fetch EXCEPT ![w][p] = @ + 1]
  /\ stash' = [stash EXCEPT ![w][p] = Aside(@, n)]
  /\ late' = late \cup (IF w \in running THEN {} ELSE {<<p, fetch[w][p]>>})
  /\ UNCHANGED <<producerVars, bootVars, boundVars, reader, handled, lost, rebalancing,
                 owner, running, offsetVars, begin>>

\* Slip to rule out: what is committed is the event before, the last one finished.
ReceiveBehind(w, p) == Returns(w, p, fetch[w][p])

\* Also to a worker that has been stopped, and outside a generation.
Receive(w, p) == Returns(w, p, fetch[w][p] + 1)

\* The end of the processing.
Ends(w, processed) ==
  /\ hand[w] # None
  /\ handled' = handled \cup processed
  /\ hand' = [hand EXCEPT ![w] = None]
  /\ UNCHANGED <<producerVars, groupVars, bootVars, boundVars, reader, late, lost>>

Held(w) == <<hand[w].of, hand[w].offset>>

InHand  == {Held(w) : w \in {v \in Worker : hand[v] # None}}

\* Slip to rule out: a stopped worker drops what it has in hand.
HandleUnlessStopped(w) == Ends(w, IF reader[w] = "stopping" THEN {} ELSE {Held(w)})

\* The delay, which no context interrupts, and what follows.
Handle(w) == Ends(w, {Held(w)})

\* Slip to rule out: the reader is not closed, and stays in the group.
LeaveUnclosed(w) ==
  /\ reader[w] = "stopping" /\ hand[w] = None
  /\ reader' = [reader EXCEPT ![w] = "closed"]
  /\ running' = running \ {w}
  /\ UNCHANGED <<producerVars, bootVars, boundVars, handVars, rebalancing, owner, fetch,
                 stash, offsetVars, begin>>

\* reader.Close: the worker leaves the group, with a last commit if its
\* generation runs.
Leave(w) ==
  /\ reader[w] = "stopping" /\ hand[w] = None
  /\ reader' = [reader EXCEPT ![w] = "closed"]
  /\ IF w \in running THEN FinalCommit(w)
     ELSE stash' = [stash EXCEPT ![w] = Nothing] /\ UNCHANGED offsetVars
  /\ running' = running \ {w}
  /\ fetch' = [fetch EXCEPT ![w] = Nothing]
  /\ rebalancing' = TRUE
  /\ UNCHANGED <<producerVars, bootVars, boundVars, handVars, owner, begin>>

\* handleWorkerToggle.
Toggle(w) ==
  /\ changes < MaxChanges /\ changes' = changes + 1
  /\ \/ Opens(w)
     \/ /\ reader[w] = "open"
        /\ reader' = [reader EXCEPT ![w] = "stopping"]
        /\ UNCHANGED <<producerVars, groupVars, handVars>>
  /\ UNCHANGED <<bootVars, kills>>

-----------------------------------------------------------------------------
(***************************************************************************)
(* initializeKafka, and the end of the process.                            *)
(***************************************************************************)
\* EnsureTopicExists: the topic is there, or it is created; an error is retried,
\* also one that hides a success, and gives up after fifteen attempts.
EnsureTopicExists ==
  /\ boot = "probing"
  /\ \/ topic' = TRUE /\ boot' = "starting"
     \/ failing /\ topic' \in {topic, TRUE} /\ boot' \in {"probing", "done"}
  /\ UNCHANGED <<producerVars, groupVars, boundVars, workerVars, toBoot>>

BootStarts(w) ==
  /\ boot = "starting" /\ w \in toBoot
  /\ toBoot' = toBoot \ {w}
  /\ IF reader[w] = "closed" THEN Opens(w)
     ELSE UNCHANGED <<producerVars, groupVars, workerVars>>
  /\ UNCHANGED <<topic, boot, boundVars>>

\* A shutdown hangs (see WorkerManager), so it ends like a crash.
Kill ==
  /\ changes < MaxChanges /\ changes' = changes + 1 /\ kills' = kills + 1
  /\ lost' = lost \cup {e \in InHand : committed[e[1]] # None /\ e[2] < committed[e[1]]}
  /\ reader' = [w \in Worker |-> "closed"] /\ hand' = [w \in Worker |-> None]
  /\ rebalancing' = TRUE /\ running' = {} /\ owner' = Nothing
  /\ fetch' = [w \in Worker |-> Nothing] /\ stash' = fetch'
  /\ queued' = [p \in Partition |-> 0]
  /\ boot' = "probing" /\ toBoot' = Worker
  /\ UNCHANGED <<givens, end, offsetVars, begin, topic, handled, late>>

Work(w) == (\E p \in Partition : Receive(w, p)) \/ Handle(w) \/ Leave(w) \/ Commit(w)
Boot    == EnsureTopicExists \/ \E w \in Worker : BootStarts(w)
Group   == NewGeneration \/ \E w \in Worker : EndGeneration(w) \/ StartGeneration(w)

Next ==
  \/ Producer \/ Boot \/ Group \/ Disturb \/ Kill
  \/ \E p \in Partition : WriteBatch(p)
  \/ \E w \in Worker : Work(w) \/ Toggle(w)

Spec == Init /\ [][Next]_vars

(***************************************************************************)
(* Whoever can go on does: the boot, a worker with an event in hand, the   *)
(* group, whose members notice a rebalance by their heartbeats, and the    *)
(* readers, which fetch what there is and hand it out while their          *)
(* generation runs.  Nobody has to produce, to toggle, to commit before    *)
(* the end of the generation, or to return an event outside of one.        *)
(***************************************************************************)
FairSpec ==
  /\ Spec
  /\ WF_vars(Boot) /\ WF_vars(Group)
  /\ \A w \in Worker :
       /\ WF_vars(Handle(w) \/ Leave(w))
       /\ SF_vars(w \in running /\ \E p \in Partition : Receive(w, p))

-----------------------------------------------------------------------------
\* Whatever the group's offset has passed is processed, or will be by the worker
\* that has it in hand, or was in the hands of a worker when the process was
\* killed: rebalances, stops, failed commits and commits that come a generation
\* late lose nothing.
NothingSlipsThrough ==
  \A p \in Partition : committed[p] # None =>
    \A o \in begin[p]..(committed[p] - 1) : <<p, o>> \in handled \cup InHand \cup lost

\* While no request fails and no process dies, an event is processed once, unless
\* a reader returned it outside its generation, or the offset of its partition has
\* been taken back.
HandledOnce ==
  ~failing /\ kills = 0 =>
    \A w \in Worker : hand[w] # None /\ hand[w].of \notin back /\ Held(w) \notin late =>
      /\ Held(w) \notin handled
      /\ \A v \in Worker : hand[v] # None /\ Held(v) = Held(w) => v = w

\* The group's offset is only taken back where a reader has returned an event
\* outside its generation: its commit then comes when others have gone on.
OffsetAdvances == \A p \in back : \E e \in late : e[1] = p

\* The events of a partition are processed in their order, unless its offset has
\* been taken back, and except that one may be overtaken whose worker has lost the
\* partition in the middle of it, or was given it outside a generation.
InOrder ==
  \A w \in Worker :
    hand[w] # None /\ hand[w].kept /\ hand[w].of \notin back /\ Held(w) \notin handled =>
      \A e \in handled \cup InHand : e[1] = hand[w].of => e[2] <= hand[w].offset

\* An event beyond the committed offset of its partition is taken in the end, as
\* long as there are workers and the offset is not taken back.
Owed(p, o) ==
  /\ committed[p] # None /\ committed[p] <= o /\ o < end[p] /\ <<p, o>> \notin handled
  /\ p \notin back
EventsAreTaken ==
  []<>(Members # {}) =>
    \A p \in Partition, o \in 0..(MaxEvents - 1) : Owed(p, o) ~> ~Owed(p, o)
=============================================================================
