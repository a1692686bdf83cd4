------------------------------- MODULE LogHub -------------------------------
(***************************************************************************)
(* The log hub of the message-queue demo: everything that happens is       *)
(* logged into one bounded channel, the goroutine of Start hands each      *)
(* event to the channels of the connected browsers under lh.mu, and the    *)
(* handler of /api/logs writes its channel to its browser.  Both kinds of  *)
(* channel drop what does not fit; nobody waits for a browser.             *)
(*                                                                         *)
(* Register and Unregister hold lh.mu for one statement and are one step.  *)
(* Start holds it while it visits the clients, hub.at = "visit".           *)
(***************************************************************************)
EXTENDS Integers, Sequences, SequencesExt

CONSTANTS
  Event,       \* what is logged, each event once
  Client,      \* browsers, each with one connection at a time
  QueueSize,   \* capacity of lh.broadcast (200)
  ClientSize,  \* capacity of the channel of a connection (50)
  None         \* no event

ASSUME SizeAssumption  == QueueSize \in Nat \ {0} /\ ClientSize \in Nat \ {0}
ASSUME EventAssumption == None \notin Event

VARIABLES
  broadcast,  \* the channel lh.broadcast
  hub,        \* Start: where it is, its event, the clients still to visit
  clients,    \* the connections in the map lh.clients
  chan,       \* chan[c], the channel of the connection of c
  stream,     \* stream[c], where the handler of that connection is
  shown       \* shown[c], the events written to it

hubVars == <<broadcast, hub, clients, chan, stream, shown>>

HubTypeOK ==
  /\ broadcast \in BoundedSeq(Event, QueueSize)
  /\ hub \in [at : {"receive", "lock", "visit"}, event : Event \cup {None},
              todo : SUBSET Client]
  /\ clients \subseteq Client
  /\ chan \in [Client -> BoundedSeq(Event, ClientSize)]
  /\ stream \in [Client -> {"off", "connected", "open", "leaving"}]
  /\ shown \in [Client -> Seq(Event)]

Waits == [at |-> "receive", event |-> None, todo |-> {}]

HubInit ==
  /\ broadcast = <<>>
  /\ hub = Waits
  /\ clients = {}
  /\ chan = [c \in Client |-> <<>>]
  /\ stream = [c \in Client |-> "off"]
  /\ shown = [c \in Client |-> <<>>]

\* Slip to rule out: a queue that grows.
OfferAnyway(channel, size, e) == Append(channel, e)

\* A send that does not block: what is full stays as it is.
Offer(channel, size, e) == IF Len(channel) < size THEN Append(channel, e) ELSE channel

\* Log, called by any goroutine.
Log(e) ==
  /\ broadcast' = Offer(broadcast, QueueSize, e)
  /\ UNCHANGED <<hub, clients, chan, stream, shown>>

(***************************************************************************)
(* Start.                                                                  *)
(***************************************************************************)
Receive ==
  /\ hub.at = "receive" /\ broadcast # <<>>
  /\ hub' = [hub EXCEPT !.at = "lock", !.event = Head(broadcast)]
  /\ broadcast' = Tail(broadcast)
  /\ UNCHANGED <<clients, chan, stream, shown>>

Lock ==
  /\ hub.at = "lock"
  /\ hub' = [hub EXCEPT !.at = "visit", !.todo = clients]
  /\ UNCHANGED <<broadcast, clients, chan, stream, shown>>

\* Slip to rule out: the hub tries again until there is room.
VisitRetrying(c) ==
  /\ hub.at = "visit" /\ c \in hub.todo
  /\ IF Len(chan[c]) < ClientSize
       THEN /\ chan' = [chan EXCEPT ![c] = Append(@, hub.event)]
            /\ hub' = [hub EXCEPT !.todo = @ \ {c}]
       ELSE UNCHANGED <<chan, hub>>
  /\ UNCHANGED <<broadcast, clients, stream, shown>>

\* Slip to rule out: what a client has no room for is queued again.
VisitRequeueing(c) ==
  /\ hub.at = "visit" /\ c \in hub.todo
  /\ chan' = [chan EXCEPT ![c] = Offer(@, ClientSize, hub.event)]
  /\ broadcast' = IF Len(chan[c]) < ClientSize THEN broadcast
                  ELSE Offer(broadcast, QueueSize, hub.event)
  /\ hub' = [hub EXCEPT !.todo = @ \ {c}]
  /\ UNCHANGED <<clients, stream, shown>>

\* One turn of the loop over the map, whose order is random.
Visit(c) ==
  /\ hub.at = "visit" /\ c \in hub.todo
  /\ chan' = [chan EXCEPT ![c] = Offer(@, ClientSize, hub.event)]
  /\ hub' = [hub EXCEPT !.todo = @ \ {c}]
  /\ UNCHANGED <<broadcast, clients, stream, shown>>

Unlock ==
  /\ hub.at = "visit" /\ hub.todo = {}
  /\ hub' = Waits
  /\ UNCHANGED <<broadcast, clients, chan, stream, shown>>

Start == Receive \/ Lock \/ (\E c \in Client : Visit(c)) \/ Unlock

(***************************************************************************)
(* handleLogsStream: a new channel, registered, read until the browser is  *)
(* gone, and unregistered.                                                 *)
(***************************************************************************)
Goes(c, from, to) ==
  /\ stream[c] = from
  /\ stream' = [stream EXCEPT ![c] = to]

Connect(c) ==
  /\ Goes(c, "off", "connected")
  /\ chan' = [chan EXCEPT ![c] = <<>>]
  /\ shown' = [shown EXCEPT ![c] = <<>>]
  /\ UNCHANGED <<broadcast, hub, clients>>

\* A writer that cannot flush is refused, and unregistered like any other.
Register(c) ==
  /\ hub.at # "visit"
  /\ Goes(c, "connected", "open") \/ Goes(c, "connected", "leaving")
  /\ clients' = clients \cup {c}
  /\ UNCHANGED <<broadcast, hub, chan, shown>>

Show(c) ==
  /\ stream[c] = "open" /\ chan[c] # <<>>
  /\ shown' = [shown EXCEPT ![c] = Append(@, Head(chan[c]))]
  /\ chan' = [chan EXCEPT ![c] = Tail(@)]
  /\ UNCHANGED <<broadcast, hub, clients, stream>>

\* The context of the request is done.
Disconnect(c) ==
  /\ Goes(c, "open", "leaving")
  /\ UNCHANGED <<broadcast, hub, clients, chan, shown>>

Unregister(c) ==
  /\ hub.at # "visit"
  /\ Goes(c, "leaving", "off")
  /\ clients' = clients \ {c}
  /\ UNCHANGED <<broadcast, hub, chan, shown>>

Stream(c) ==
  Connect(c) \/ Register(c) \/ Show(c) \/ Disconnect(c) \/ Unregister(c)

-----------------------------------------------------------------------------
\* What the connection of c has been given so far.
Given(c) == shown[c] \o chan[c]

\* All browsers see one history: none sees an event twice, and any two see
\* those they both get in the same order, whatever is dropped on the way and
\* in whatever order Start visits them.
OneHistory ==
  \A c, d \in Client : \A i, j \in DOMAIN Given(c), k, l \in DOMAIN Given(d) :
    Given(c)[i] = Given(d)[k] /\ Given(c)[j] = Given(d)[l] => (i < j <=> k < l)

\* A browser that is stuck holds up nobody: Start comes back for the next event
\* again and again, and the connections of others end when their browsers go.
NobodyIsHeldUp ==
  /\ []<>(hub.at = "receive")
  /\ \A c \in Client : stream[c] = "leaving" ~> stream[c] = "off"
=============================================================================
