-------------------------- MODULE SimulationProofs --------------------------
(***************************************************************************)
(* What holds of the log hub and the simulated pool for any number of      *)
(* browsers and requests, and any size of the queues and of the pool.      *)
(*                                                                         *)
(* The histories rest on one fact about what the connections have been     *)
(* given: an event is either still to come for all of them, or in the      *)
(* hands of Start, or passed; and the one in hand is the last one of every *)
(* connection that Start has visited.  The pool rests on its counters,     *)
(* which are the sizes of sets of requests.                                *)
(***************************************************************************)
EXTENDS DirectSimulation, FiniteSetTheorems, TLAPS

-----------------------------------------------------------------------------
(***************************************************************************)
(* The invariant of the hub.                                               *)
(***************************************************************************)
HubTypes ==
  /\ broadcast \in Seq(Line) /\ Len(broadcast) <= QueueSize
  /\ hub \in [at : {"receive", "lock", "visit"}, event : Line \cup {None},
              todo : SUBSET Client]
  /\ hub.at # "receive" => hub.event \in Line
  /\ clients \subseteq Client
  /\ chan \in [Client -> Seq(Line)] /\ \A c \in Client : Len(chan[c]) <= ClientSize
  /\ stream \in [Client -> {"off", "connected", "open", "leaving"}]
  /\ shown \in [Client -> Seq(Line)]

Waiting(e)      == \E i \in 1..Len(broadcast) : broadcast[i] = e
WasGiven(c, e)  == \E i \in 1..Len(Given(c)) : Given(c)[i] = e
Travels(e)      == Waiting(e) \/ hub.event = e \/ \E c \in Client : WasGiven(c, e)

\* Two histories agree on the order of what is in both.
Agree(s, t) ==
  \A i, j \in 1..Len(s), k, l \in 1..Len(t) :
    s[i] = t[k] /\ s[j] = t[l] => (i < j <=> k < l)

\* Nothing is queued twice, or again when it has been taken.
WaitsOnce ==
  /\ \A i, j \in 1..Len(broadcast) : broadcast[i] = broadcast[j] => i = j
  /\ \A e \in Line : Waiting(e) => hub.event # e /\ \A c \in Client : ~WasGiven(c, e)

\* Whoever has the event that Start has in hand has been visited, and got it last.
HandedIsLast ==
  \A c \in Client : \A i \in 1..Len(Given(c)) :
    Given(c)[i] = hub.event =>
      i = Len(Given(c)) /\ hub.at = "visit" /\ c \notin hub.todo

HistoriesAgree == \A c, d \in Client : Agree(Given(c), Given(d))

HistoryInv == WaitsOnce /\ HandedIsLast /\ HistoriesAgree

\* The start, the rejections and the report travel in this order.
Sorted(s) == \A i, j \in 1..Len(s) : i < j => Rank(s[i]) <= Rank(s[j])

RankInv ==
  /\ Sorted(broadcast)
  /\ \A c \in Client : Sorted(Given(c))
  /\ \A e, f \in Line : Waiting(f) /\ (hub.event = e \/ \E c \in Client : WasGiven(c, e))
                          => Rank(e) <= Rank(f)
  /\ \A e, f \in Line : hub.event = f /\ (\E c \in Client : WasGiven(c, e))
                          => Rank(e) <= Rank(f)

-----------------------------------------------------------------------------
(***************************************************************************)
(* The invariant of the simulation.                                        *)
(***************************************************************************)
SimTypes ==
  /\ sim \in {"idle", "spawning", "reported"}
  /\ req \in [Req -> {"none", "started", "counted", "rejected", "tallied", "released", "done"}]
  /\ conn \in [Req -> 0..Count]
  /\ count \in [{"wg", "active", "success", "fail"} -> Int]

\* No line travels before it is logged.
LinesAreFresh ==
  /\ sim = "idle" => \A e \in Line : ~Travels(e)
  /\ sim # "reported" => ~Travels(<<"report", 0>>)
  /\ \A r \in Req : req[r] \in {"none", "started", "counted", "rejected"}
                      => ~Travels(<<"rejected", r>>)

SimStages ==
  /\ sim = "idle" => \A r \in Req : req[r] = "none"
  /\ sim = "reported" => \A r \in Req : req[r] = "done"
  /\ \A r \in Req : req[r] = "rejected" => conn[r] > MaxConnections

\* The requests that a counter counts.
In(places)      == {r \in Req : req[r] \in places}
Fits(places)    == {r \in In(places) : conn[r] <= MaxConnections}
Misfits(places) == {r \in In(places) : conn[r] > MaxConnections}

Ended   == {"tallied", "released", "done"}
Active  == {"counted", "rejected", "tallied"}
Counted == Ended \cup {"counted", "rejected"}
Waited  == {"started", "counted", "rejected", "tallied", "released"}

CountersAreTrue ==
  /\ count.wg = Cardinality(In(Waited))
  /\ count.active = Cardinality(In(Active))
  /\ count.success = Cardinality(Fits(Ended))
  /\ count.fail = Cardinality(Misfits(Ended \cup {"rejected"}))

\* Nobody is too many before the pool has been full.
PoolInv ==
  /\ Cardinality(Fits({"counted", "tallied"})) <= MaxConnections
  /\ Cardinality(Fits(Counted)) >= MaxConnections \/ Fits(Counted) = In(Counted)

HubInv == HubTypes /\ HistoryInv /\ RankInv
SimInv == SimTypes /\ LinesAreFresh /\ SimStages /\ CountersAreTrue /\ PoolInv
IInv   == HubInv /\ SimInv

-----------------------------------------------------------------------------
(***************************************************************************)
(* The sizes of sets of requests.                                          *)
(***************************************************************************)
LEMMA Constants == Count \in Nat \ {0} /\ MaxConnections \in Nat \ {0}
  BY CountAssumption

\* Every set of requests is finite and no larger than their number.
LEMMA ReqSets ==
  ASSUME NEW S \in SUBSET Req
  PROVE  IsFiniteSet(S) /\ Cardinality(S) \in 0..Count
<1>1. IsFiniteSet(Req) /\ Cardinality(Req) = Count
  BY Constants, FS_Interval, 0 \in Int, 1 \in Int DEF Req
<1>2. IsFiniteSet(S) /\ Cardinality(S) <= Cardinality(Req)
  BY <1>1, FS_Subset
<1>3. Cardinality(S) \in Nat
  BY <1>2, FS_CardinalityType
<1>. QED BY <1>1, <1>2, <1>3, Constants

Bit(b) == IF b THEN 1 ELSE 0

\* A set of requests that changes at one of them.
LEMMA Resized ==
  ASSUME NEW X \in SUBSET Req, NEW Y \in SUBSET Req, NEW r \in Req, Y \ {r} = X \ {r}
  PROVE  Cardinality(Y) = Cardinality(X) + Bit(r \in Y) - Bit(r \in X)
<1> DEFINE Z == X \ {r}
<1>1. /\ IsFiniteSet(Z) /\ Cardinality(Z) \in Nat
      /\ Cardinality(X) \in Nat /\ Cardinality(Y) \in Nat
  BY ReqSets, Z \in SUBSET Req
<1>2. Cardinality(Z \cup {r}) = Cardinality(Z) + 1
  BY <1>1, FS_AddElement
<1>3. X = IF r \in X THEN Z \cup {r} ELSE Z
  OBVIOUS
<1>4. Y = IF r \in Y THEN Z \cup {r} ELSE Z
  OBVIOUS
<1> HIDE DEF Z
<1>5. Cardinality(X) = Cardinality(Z) + Bit(r \in X)
  <2>1. CASE r \in X
    <3>1. X = Z \cup {r}
      BY <2>1, <1>3
    <3>2. Bit(r \in X) = 1
      BY <2>1 DEF Bit
    <3>. QED BY <3>1, <3>2, <1>2
  <2>2. CASE r \notin X
    <3>1. X = Z
      BY <2>2, <1>3
    <3>2. Bit(r \in X) = 0
      BY <2>2 DEF Bit
    <3>. QED BY <3>1, <3>2, <1>1
  <2>. QED BY <2>1, <2>2
<1>6. Cardinality(Y) = Cardinality(Z) + Bit(r \in Y)
  <2>1. CASE r \in Y
    <3>1. Y = Z \cup {r}
      BY <2>1, <1>4
    <3>2. Bit(r \in Y) = 1
      BY <2>1 DEF Bit
    <3>. QED BY <3>1, <3>2, <1>2
  <2>2. CASE r \notin Y
    <3>1. Y = Z
      BY <2>2, <1>4
    <3>2. Bit(r \in Y) = 0
      BY <2>2 DEF Bit
    <3>. QED BY <3>1, <3>2, <1>1
  <2>. QED BY <2>1, <2>2
<1>7. Bit(r \in X) \in Int /\ Bit(r \in Y) \in Int
  BY DEF Bit
<1>. QED BY <1>1, <1>5, <1>6, <1>7

\* A step of one request, to a place and with a number, moves it in each set.
ReqMoves(r, to, n) ==
  /\ req' = [req EXCEPT ![r] = to]
  /\ conn' = [conn EXCEPT ![r] = n]

LEMMA SetsMove ==
  ASSUME SimTypes, NEW r \in Req, NEW to, NEW n \in Int, ReqMoves(r, to, n), NEW places
  PROVE  /\ In(places)' \ {r} = In(places) \ {r}
         /\ Fits(places)' \ {r} = Fits(places) \ {r}
         /\ Misfits(places)' \ {r} = Misfits(places) \ {r}
         /\ r \in In(places)' <=> to \in places
         /\ r \in Fits(places)' <=> to \in places /\ n <= MaxConnections
         /\ r \in Misfits(places)' <=> to \in places /\ n > MaxConnections
  BY DEF SimTypes, ReqMoves, In, Fits, Misfits

LEMMA SetsAreReqs ==
  ASSUME NEW places
  PROVE  /\ In(places) \in SUBSET Req /\ Fits(places) \in SUBSET Req
         /\ Misfits(places) \in SUBSET Req
  BY DEF In, Fits, Misfits

LEMMA SetsAreReqsNext ==
  ASSUME NEW places
  PROVE  /\ In(places)' \in SUBSET Req /\ Fits(places)' \in SUBSET Req
         /\ Misfits(places)' \in SUBSET Req
  BY DEF In, Fits, Misfits

LEMMA SizesMove ==
  ASSUME SimTypes, NEW r \in Req, NEW to, NEW n \in Int, ReqMoves(r, to, n), NEW places
  PROVE  /\ Cardinality(In(places)') =
              Cardinality(In(places)) + Bit(to \in places) - Bit(req[r] \in places)
         /\ Cardinality(Fits(places)') =
              Cardinality(Fits(places)) + Bit(to \in places /\ n <= MaxConnections)
                                        - Bit(req[r] \in places /\ conn[r] <= MaxConnections)
         /\ Cardinality(Misfits(places)') =
              Cardinality(Misfits(places)) + Bit(to \in places /\ n > MaxConnections)
                                           - Bit(req[r] \in places /\ conn[r] > MaxConnections)
<1>1. /\ r \in In(places) <=> req[r] \in places
      /\ r \in Fits(places) <=> req[r] \in places /\ conn[r] <= MaxConnections
      /\ r \in Misfits(places) <=> req[r] \in places /\ conn[r] > MaxConnections
  BY DEF In, Fits, Misfits
<1>2. Cardinality(In(places)') =
        Cardinality(In(places)) + Bit(r \in In(places)') - Bit(r \in In(places))
  BY Resized, SetsMove, SetsAreReqs, SetsAreReqsNext
<1>3. Cardinality(Fits(places)') =
        Cardinality(Fits(places)) + Bit(r \in Fits(places)') - Bit(r \in Fits(places))
  BY Resized, SetsMove, SetsAreReqs, SetsAreReqsNext
<1>4. Cardinality(Misfits(places)') =
        Cardinality(Misfits(places)) + Bit(r \in Misfits(places)') - Bit(r \in Misfits(places))
  BY Resized, SetsMove, SetsAreReqs, SetsAreReqsNext
<1>5. /\ r \in In(places)' <=> to \in places
      /\ r \in Fits(places)' <=> to \in places /\ n <= MaxConnections
      /\ r \in Misfits(places)' <=> to \in places /\ n > MaxConnections
  BY SetsMove
<1>. QED BY <1>1, <1>2, <1>3, <1>4, <1>5 DEF Bit

\* What the counters count, when request r moves.
LEMMA CountedMove ==
  ASSUME SimTypes, CountersAreTrue, NEW r \in Req, NEW to, NEW n \in Int, ReqMoves(r, to, n)
  PROVE  /\ Cardinality(In(Waited)') =
              count.wg + Bit(to \in Waited) - Bit(req[r] \in Waited)
         /\ Cardinality(In(Active)') =
              count.active + Bit(to \in Active) - Bit(req[r] \in Active)
         /\ Cardinality(Fits(Ended)') =
              count.success + Bit(to \in Ended /\ n <= MaxConnections)
                            - Bit(req[r] \in Ended /\ conn[r] <= MaxConnections)
         /\ Cardinality(Misfits(Ended \cup {"rejected"})') =
              count.fail + Bit(to \in Ended \cup {"rejected"} /\ n > MaxConnections)
                         - Bit(req[r] \in Ended \cup {"rejected"} /\ conn[r] > MaxConnections)
  BY SizesMove DEF CountersAreTrue

CountIs(wg, active, success, fail) ==
  count' = [wg |-> wg, active |-> active, success |-> success, fail |-> fail]

\* The steps of request r, as moves that leave the counters where they say.
LEMMA Moved ==
  ASSUME SimTypes, NEW r \in Req
  PROVE  /\ Spawn(r) =>
              /\ sim = "spawning" /\ req[r] = "none"
              /\ ReqMoves(r, "started", conn[r])
              /\ CountIs(count.wg + 1, count.active, count.success, count.fail)
         /\ Counts(r) =>
              /\ req[r] = "started"
              /\ ReqMoves(r, "counted", count.active + 1)
              /\ CountIs(count.wg, count.active + 1, count.success, count.fail)
         /\ Reject(r) =>
              /\ req[r] = "counted" /\ conn[r] > MaxConnections
              /\ \E to \in {"rejected", "tallied"} : ReqMoves(r, to, conn[r])
              /\ CountIs(count.wg, count.active, count.success, count.fail + 1)
         /\ LogRejection(r) =>
              /\ req[r] = "rejected"
              /\ ReqMoves(r, "tallied", conn[r])
              /\ CountIs(count.wg, count.active, count.success, count.fail)
         /\ Succeed(r) =>
              /\ req[r] = "counted" /\ conn[r] <= MaxConnections
              /\ ReqMoves(r, "tallied", conn[r])
              /\ CountIs(count.wg, count.active, count.success + 1, count.fail)
         /\ Release(r) =>
              /\ req[r] = "tallied"
              /\ ReqMoves(r, "released", conn[r])
              /\ CountIs(count.wg, count.active - 1, count.success, count.fail)
         /\ Finish(r) =>
              /\ req[r] = "released"
              /\ ReqMoves(r, "done", conn[r])
              /\ CountIs(count.wg - 1, count.active, count.success, count.fail)
<1>1. Spawn(r) =>
        /\ sim = "spawning" /\ req[r] = "none"
        /\ ReqMoves(r, "started", conn[r])
        /\ CountIs(count.wg + 1, count.active, count.success, count.fail)
  BY DEF SimTypes, Spawn, Adds, ReqMoves, CountIs
<1>2. Counts(r) =>
        /\ req[r] = "started"
        /\ ReqMoves(r, "counted", count.active + 1)
        /\ CountIs(count.wg, count.active + 1, count.success, count.fail)
  BY DEF SimTypes, Counts, Adds, ReqMoves, CountIs
<1>3. Reject(r) =>
        /\ req[r] = "counted" /\ conn[r] > MaxConnections
        /\ \E to \in {"rejected", "tallied"} : ReqMoves(r, to, conn[r])
        /\ CountIs(count.wg, count.active, count.success, count.fail + 1)
  <2> SUFFICES ASSUME Reject(r)
               PROVE  /\ req[r] = "counted" /\ conn[r] > MaxConnections
                      /\ \E to \in {"rejected", "tallied"} : ReqMoves(r, to, conn[r])
                      /\ CountIs(count.wg, count.active, count.success, count.fail + 1)
    OBVIOUS
  <2> DEFINE to == IF r % LogEvery = 0 \/ r = Count THEN "rejected" ELSE "tallied"
  <2>1. to \in {"rejected", "tallied"} /\ req' = [req EXCEPT ![r] = to] /\ conn' = conn
        /\ req[r] = "counted" /\ conn[r] > MaxConnections
        /\ count' = [count EXCEPT !["fail"] = @ + 1]
    BY DEF Reject, Adds
  <2> HIDE DEF to
  <2>2. ReqMoves(r, to, conn[r])
    BY <2>1 DEF ReqMoves, SimTypes
  <2>. QED BY <2>1, <2>2 DEF CountIs, SimTypes
<1>4. LogRejection(r) =>
        /\ req[r] = "rejected"
        /\ ReqMoves(r, "tallied", conn[r])
        /\ CountIs(count.wg, count.active, count.success, count.fail)
  BY DEF SimTypes, LogRejection, ReqMoves, CountIs
<1>5. Succeed(r) =>
        /\ req[r] = "counted" /\ conn[r] <= MaxConnections
        /\ ReqMoves(r, "tallied", conn[r])
        /\ CountIs(count.wg, count.active, count.success + 1, count.fail)
  BY DEF SimTypes, Succeed, Adds, ReqMoves, CountIs
<1>6. Release(r) =>
        /\ req[r] = "tallied"
        /\ ReqMoves(r, "released", conn[r])
        /\ CountIs(count.wg, count.active - 1, count.success, count.fail)
  BY DEF SimTypes, Release, Adds, ReqMoves, CountIs
<1>7. Finish(r) =>
        /\ req[r] = "released"
        /\ ReqMoves(r, "done", conn[r])
        /\ CountIs(count.wg - 1, count.active, count.success, count.fail)
  BY DEF SimTypes, Finish, Adds, ReqMoves, CountIs
<1>. QED BY <1>1, <1>2, <1>3, <1>4, <1>5, <1>6, <1>7

ReqStep(r) == Spawn(r) \/ Request(r)

\* Each step of a request changes the counter of the set that it changes.
LEMMA CountersStep ==
  ASSUME SimTypes, SimStages, CountersAreTrue, NEW r \in Req, ReqStep(r)
  PROVE  CountersAreTrue'
<1>0. /\ conn[r] \in Int /\ MaxConnections \in Int
      /\ count.wg \in Int /\ count.active \in Int /\ count.success \in Int /\ count.fail \in Int
  BY Constants DEF SimTypes
<1>1. CASE Spawn(r)
  BY <1>0, <1>1, Moved, CountedMove DEF Bit, Waited, Active, Ended, CountersAreTrue, CountIs
<1>2. CASE Counts(r)
  BY <1>0, <1>2, Moved, CountedMove DEF Bit, Waited, Active, Ended, CountersAreTrue, CountIs
<1>3. CASE Reject(r)
  <2>1. PICK to \in {"rejected", "tallied"} : ReqMoves(r, to, conn[r])
    BY <1>3, Moved
  <2>2. /\ req[r] = "counted" /\ conn[r] > MaxConnections
        /\ CountIs(count.wg, count.active, count.success, count.fail + 1)
    BY <1>3, Moved
  <2>3. /\ Cardinality(In(Waited)') = count.wg /\ Cardinality(In(Active)') = count.active
        /\ Cardinality(Fits(Ended)') = count.success
        /\ Cardinality(Misfits(Ended \cup {"rejected"})') = count.fail + 1
    BY <1>0, <2>1, <2>2, CountedMove DEF Bit, Waited, Active, Ended
  <2>. QED BY <2>2, <2>3 DEF CountersAreTrue, CountIs
<1>4. CASE LogRejection(r)
  BY <1>0, <1>4, Moved, CountedMove DEF Bit, Waited, Active, Ended, CountersAreTrue, CountIs,
     SimStages
<1>5. CASE Succeed(r)
  <2>1. /\ req[r] = "counted" /\ conn[r] <= MaxConnections
        /\ ReqMoves(r, "tallied", conn[r])
        /\ CountIs(count.wg, count.active, count.success + 1, count.fail)
    BY <1>5, Moved
  <2>2. /\ Cardinality(In(Waited)') = count.wg /\ Cardinality(In(Active)') = count.active
        /\ Cardinality(Fits(Ended)') = count.success + 1
        /\ Cardinality(Misfits(Ended \cup {"rejected"})') = count.fail
    BY <1>0, <2>1, CountedMove DEF Bit, Waited, Active, Ended
  <2>. QED BY <2>1, <2>2 DEF CountersAreTrue, CountIs
<1>6. CASE Release(r)
  BY <1>0, <1>6, Moved, CountedMove DEF Bit, Waited, Active, Ended, CountersAreTrue, CountIs
<1>7. CASE Finish(r)
  BY <1>0, <1>7, Moved, CountedMove DEF Bit, Waited, Active, Ended, CountersAreTrue, CountIs
<1>. QED BY <1>1, <1>2, <1>3, <1>4, <1>5, <1>6, <1>7 DEF ReqStep, Request

LEMMA CountersRange ==
  ASSUME CountersAreTrue
  PROVE  {count.wg, count.active, count.success, count.fail} \subseteq 0..Count
  BY ReqSets, SetsAreReqs DEF CountersAreTrue

LEMMA SimTypesStep ==
  ASSUME SimTypes, SimStages, CountersAreTrue, NEW r \in Req, ReqStep(r)
  PROVE  SimTypes'
<1>1. CountersAreTrue'
  BY CountersStep
<1>2. {count'.wg, count'.active, count'.success, count'.fail} \subseteq 0..Count
  BY <1>1, ReqSets, SetsAreReqsNext DEF CountersAreTrue
<1>3. PICK to \in {"started", "counted", "rejected", "tallied", "released", "done"},
           n \in Int : ReqMoves(r, to, n) /\ n \in 0..Count
  <2>1. conn[r] \in Int /\ conn[r] \in 0..Count
    BY Constants DEF SimTypes
  <2>2. CASE Counts(r)
    <3>1. ReqMoves(r, "counted", count.active + 1) /\ count'.active = count.active + 1
      BY <2>2, Moved DEF CountIs
    <3>. QED BY <3>1, <1>2, Constants
  <2>. QED BY <2>1, <2>2, Moved DEF ReqStep, Request
<1>4. count' \in [{"wg", "active", "success", "fail"} -> Int] /\ sim' = sim
  BY Moved DEF ReqStep, Request, CountIs, SimTypes, Spawn, Counts, Reject, LogRejection,
     Succeed, Release, Finish, Adds
<1>. QED BY <1>3, <1>4 DEF SimTypes, ReqMoves

\* A request is too many only when those in the pool, which are all still
\* counted, fill it.
LEMMA PoolStep ==
  ASSUME SimTypes, SimStages, CountersAreTrue, PoolInv, NEW r \in Req, ReqStep(r)
  PROVE  PoolInv'
<1> DEFINE Pool == Fits({"counted", "tallied"})
<1>0. /\ conn[r] \in Int /\ MaxConnections \in Int /\ count.active \in Int
      /\ Cardinality(Pool) \in Int /\ Cardinality(Fits(Counted)) \in Int
  BY Constants, ReqSets, SetsAreReqs DEF SimTypes
<1>1. CASE Counts(r)
  <2> DEFINE n == count.active + 1
  <2>1. req[r] = "started" /\ ReqMoves(r, "counted", n) /\ n \in Int
    BY <1>0, <1>1, Moved
  <2>2. CountersAreTrue' /\ count'.active = n
    BY <1>1, CountersStep, Moved DEF ReqStep, Request, CountIs
  <2> HIDE DEF n
  <2>3. CASE n <= MaxConnections
    <3>1. Pool' \subseteq In(Active)'
      <4>1. Pool \subseteq In(Active)
        BY <1>1 DEF Fits, In, Active
      <4>2. r \in In(Active)' /\ In(Active)' \ {r} = In(Active) \ {r} /\ Pool' \ {r} = Pool \ {r}
        BY <2>1, SetsMove DEF Active
      <4>. HIDE DEF Pool
      <4>. QED BY <4>1, <4>2
    <3>2. Cardinality(In(Active)') = n
      BY <2>2 DEF CountersAreTrue
    <3>3. Cardinality(Pool') <= n
      BY <3>1, <3>2, FS_Subset, ReqSets, SetsAreReqsNext
    <3>4. Cardinality(Pool') <= MaxConnections
      BY <3>3, <2>3, <2>1, <1>0, ReqSets, SetsAreReqsNext
    <3>5. Cardinality(Fits(Counted)') = Cardinality(Fits(Counted)) + 1
      BY <2>1, <2>3, <1>0, SizesMove DEF Bit, Counted, Ended
    <3>6. /\ Fits(Counted)' \ {r} = Fits(Counted) \ {r} /\ In(Counted)' \ {r} = In(Counted) \ {r}
          /\ r \in Fits(Counted)' /\ r \in In(Counted)'
      BY <2>1, <2>3, SetsMove DEF Counted, Ended
    <3>7. Fits(Counted) = In(Counted) => Fits(Counted)' = In(Counted)'
      BY <3>6
    <3>. QED BY <3>4, <3>5, <3>7, <1>0 DEF PoolInv
  <2>4. CASE ~(n <= MaxConnections)
    <3>1. Cardinality(Pool') = Cardinality(Pool)
      BY <2>1, <2>4, <1>0, SizesMove DEF Bit
    <3>2. Cardinality(Fits(Counted)') = Cardinality(Fits(Counted))
      BY <2>1, <2>4, <1>0, SizesMove DEF Bit, Counted, Ended
    <3>3. Cardinality(Fits(Counted)) >= MaxConnections
      <4>1. ASSUME Fits(Counted) = In(Counted) PROVE In(Active) \subseteq Fits(Counted)
        BY <4>1 DEF In, Active, Counted, Ended
      <4>2. ASSUME Fits(Counted) = In(Counted) PROVE count.active <= Cardinality(Fits(Counted))
        BY <4>1, <4>2, FS_Subset, ReqSets, SetsAreReqs DEF CountersAreTrue
      <4>3. count.active >= MaxConnections
        BY <2>4, <1>0 DEF n
      <4>. QED BY <4>2, <4>3, <1>0 DEF PoolInv
    <3>. QED BY <3>1, <3>2, <3>3 DEF PoolInv
  <2>. QED BY <2>3, <2>4
<1>2. ASSUME NEW to, ReqMoves(r, to, conn[r]),
             to \in Counted <=> req[r] \in Counted,
             to \in {"counted", "tallied"} /\ conn[r] <= MaxConnections
               => req[r] \in {"counted", "tallied"}
      PROVE  PoolInv'
  <2>1. Cardinality(Pool') <= Cardinality(Pool)
    <3>1. Cardinality(Pool') = Cardinality(Pool)
             + Bit(to \in {"counted", "tallied"} /\ conn[r] <= MaxConnections)
             - Bit(req[r] \in {"counted", "tallied"} /\ conn[r] <= MaxConnections)
      BY <1>2, <1>0, SizesMove
    <3>. QED BY <3>1, <1>2, <1>0 DEF Bit
  <2>2. /\ Fits(Counted)' \ {r} = Fits(Counted) \ {r} /\ In(Counted)' \ {r} = In(Counted) \ {r}
        /\ r \in Fits(Counted)' <=> to \in Counted /\ conn[r] <= MaxConnections
        /\ r \in In(Counted)' <=> to \in Counted
    BY <1>2, <1>0, SetsMove
  <2>3. /\ r \in Fits(Counted) <=> req[r] \in Counted /\ conn[r] <= MaxConnections
        /\ r \in In(Counted) <=> req[r] \in Counted
    BY DEF Fits, In
  <2>4. Fits(Counted)' = Fits(Counted) /\ In(Counted)' = In(Counted)
    BY <2>2, <2>3, <1>2
  <2>5. Cardinality(Pool') <= MaxConnections
    BY <2>1, <1>0, ReqSets, SetsAreReqsNext DEF PoolInv
  <2>. QED BY <2>4, <2>5 DEF PoolInv
<1>3. CASE Reject(r)
  <2>1. PICK to \in {"rejected", "tallied"} : ReqMoves(r, to, conn[r])
    BY <1>3, Moved
  <2>2. req[r] = "counted" /\ ~(conn[r] <= MaxConnections)
    BY <1>3, <1>0, Moved
  <2>. QED BY <2>1, <2>2, <1>2 DEF Counted, Ended
<1>4. CASE LogRejection(r)
  <2>1. req[r] = "rejected" /\ ReqMoves(r, "tallied", conn[r])
    BY <1>4, Moved
  <2>2. ~(conn[r] <= MaxConnections)
    BY <2>1, <1>0 DEF SimStages
  <2>. QED BY <2>1, <2>2, <1>2 DEF Counted, Ended
<1>5. CASE Spawn(r)
  <2>1. req[r] = "none" /\ ReqMoves(r, "started", conn[r])
    BY <1>5, Moved
  <2>. QED BY <2>1, <1>2 DEF Counted, Ended
<1>6. CASE Succeed(r)
  <2>1. req[r] = "counted" /\ ReqMoves(r, "tallied", conn[r])
    BY <1>6, Moved
  <2>. QED BY <2>1, <1>2 DEF Counted, Ended
<1>7. CASE Release(r)
  <2>1. req[r] = "tallied" /\ ReqMoves(r, "released", conn[r])
    BY <1>7, Moved
  <2>. QED BY <2>1, <1>2 DEF Counted, Ended
<1>8. CASE Finish(r)
  <2>1. req[r] = "released" /\ ReqMoves(r, "done", conn[r])
    BY <1>8, Moved
  <2>. QED BY <2>1, <1>2 DEF Counted, Ended
<1>. QED BY <1>1, <1>3, <1>4, <1>5, <1>6, <1>7, <1>8 DEF ReqStep, Request

-----------------------------------------------------------------------------
(***************************************************************************)
(* The steps of the hub and of the browsers.                               *)
(***************************************************************************)
LEMMA LineFacts == None \notin Line
  BY EventAssumption, LineAssumption

LEMMA GivenType ==
  ASSUME HubTypes, NEW c \in Client
  PROVE  /\ chan[c] \in Seq(Line) /\ shown[c] \in Seq(Line) /\ Given(c) \in Seq(Line)
         /\ Len(Given(c)) \in Nat
         /\ \A i \in 1..Len(Given(c)) : Given(c)[i] \in Line
<1>1. chan[c] \in Seq(Line) /\ shown[c] \in Seq(Line)
  BY DEF HubTypes
<1>2. Given(c) \in Seq(Line)
  BY <1>1 DEF Given
<1>. QED BY <1>1, <1>2

\* What is offered is added at the end, or nowhere.
LEMMA OfferHolds ==
  ASSUME NEW S, NEW s \in Seq(S), NEW e \in S, NEW n \in Nat, Len(s) <= n
  PROVE  /\ Offer(s, n, e) \in Seq(S) /\ Len(Offer(s, n, e)) <= n
         /\ Offer(s, n, e) \in {s, Append(s, e)}
  BY DEF Offer

\* Showing the first event of a channel gives the browser nothing new.
LEMMA ShowHolds ==
  ASSUME NEW S, NEW s \in Seq(S), NEW t \in Seq(S), t # <<>>
  PROVE  Append(s, Head(t)) \o Tail(t) = s \o t
<1> DEFINE u == Append(s, Head(t)) \o Tail(t)
           v == s \o t
<1>1. Append(s, Head(t)) \in Seq(S) /\ Tail(t) \in Seq(S) /\ Head(t) = t[1] /\ Len(t) > 0
  OBVIOUS
<1>2. /\ u \in Seq(S) /\ v \in Seq(S) /\ Len(u) = Len(v)
  BY <1>1
<1>3. ASSUME NEW i \in 1..Len(u) PROVE u[i] = v[i]
  <2>1. CASE i <= Len(s)
    BY <1>1, <2>1
  <2>2. CASE i = Len(s) + 1
    BY <1>1, <2>2
  <2>3. CASE i > Len(s) + 1
    <3>1. u[i] = Tail(t)[i - (Len(s) + 1)]
      BY <1>1, <1>2, <2>3
    <3>2. v[i] = t[i - Len(s)]
      BY <1>1, <1>2, <2>3
    <3>3. i - (Len(s) + 1) \in 1..Len(Tail(t))
      BY <1>1, <1>2, <2>3
    <3>. QED BY <1>1, <3>1, <3>2, <3>3
  <2>. QED BY <2>1, <2>2, <2>3
<1>. QED BY <1>2, <1>3

LEMMA GiveHolds ==
  ASSUME NEW S, NEW s \in Seq(S), NEW t \in Seq(S), NEW e \in S
  PROVE  s \o Append(t, e) = Append(s \o t, e)
  OBVIOUS

\* What each action does to the connections, seen as their histories.
GivesNothing == \A c \in Client : Given(c)' = Given(c)

LEMMA HubEffect ==
  ASSUME HubTypes
  PROVE  /\ Receive \/ Lock \/ Unlock => HubTypes' /\ GivesNothing
         /\ \A c \in Client : Visit(c) =>
              /\ HubTypes' /\ UNCHANGED broadcast
              /\ c \in hub.todo /\ hub.at = "visit" /\ hub.event \in Line
              /\ hub' = [hub EXCEPT !.todo = @ \ {c}]
              /\ Given(c)' = Given(c) \/ Given(c)' = Append(Given(c), hub.event)
              /\ \A d \in Client \ {c} : Given(d)' = Given(d)
<1>1. Receive => HubTypes' /\ GivesNothing
  <2> SUFFICES ASSUME Receive PROVE HubTypes' /\ GivesNothing
    OBVIOUS
  <2>1. Head(broadcast) \in Line /\ Tail(broadcast) \in Seq(Line) /\ Len(Tail(broadcast)) <= QueueSize
    BY SizeAssumption DEF Receive, HubTypes
  <2>. QED BY <2>1 DEF Receive, HubTypes, GivesNothing, Given
<1>2. Lock \/ Unlock => HubTypes' /\ GivesNothing
  <2>1. Lock => HubTypes' /\ GivesNothing
    BY DEF Lock, HubTypes, GivesNothing, Given
  <2>2. ASSUME Unlock PROVE HubTypes' /\ GivesNothing
    <3>1. /\ hub' = [at |-> "receive", event |-> None, todo |-> {}]
          /\ UNCHANGED <<broadcast, clients, chan, stream, shown>>
      BY <2>2 DEF Unlock, Waits
    <3>2. /\ hub'.at = "receive"
          /\ hub' \in [at : {"receive", "lock", "visit"}, event : Line \cup {None},
                      todo : SUBSET Client]
      BY <3>1
    <3>. QED BY <3>1, <3>2 DEF HubTypes, GivesNothing, Given
  <2>. QED BY <2>1, <2>2
<1>3. ASSUME NEW c \in Client, Visit(c)
      PROVE  /\ HubTypes' /\ UNCHANGED broadcast
             /\ c \in hub.todo /\ hub.at = "visit" /\ hub.event \in Line
             /\ hub' = [hub EXCEPT !.todo = @ \ {c}]
             /\ Given(c)' = Given(c) \/ Given(c)' = Append(Given(c), hub.event)
             /\ \A d \in Client \ {c} : Given(d)' = Given(d)
  <2>1. /\ c \in hub.todo /\ hub.at = "visit" /\ hub.event \in Line /\ UNCHANGED <<broadcast, shown>>
        /\ hub' = [hub EXCEPT !.todo = @ \ {c}]
        /\ chan' = [chan EXCEPT ![c] = Offer(chan[c], ClientSize, hub.event)]
    BY <1>3 DEF Visit, HubTypes
  <2> DEFINE new == Offer(chan[c], ClientSize, hub.event)
  <2>2. new \in Seq(Line) /\ Len(new) <= ClientSize /\ new \in {chan[c], Append(chan[c], hub.event)}
    BY <2>1, OfferHolds, SizeAssumption DEF HubTypes
  <2> HIDE DEF new
  <2>3. chan' = [chan EXCEPT ![c] = new]
    BY <2>1 DEF new
  <2>4. HubTypes'
    <3>1. UNCHANGED <<clients, stream>>
      BY <1>3 DEF Visit
    <3>2. /\ chan' \in [Client -> Seq(Line)]
          /\ \A d \in Client : Len(chan'[d]) <= ClientSize
      BY <2>2, <2>3 DEF HubTypes
    <3>3. /\ hub' \in [at : {"receive", "lock", "visit"}, event : Line \cup {None},
                      todo : SUBSET Client]
          /\ hub'.event \in Line
      BY <2>1 DEF HubTypes
    <3>. QED BY <2>1, <3>1, <3>2, <3>3 DEF HubTypes
  <2>5. Given(c)' = shown[c] \o new
    <3>1. chan'[c] = new /\ shown' = shown
      BY <2>1, <2>3 DEF HubTypes
    <3>. QED BY <3>1 DEF Given
  <2>6. Given(c)' = Given(c) \/ Given(c)' = Append(Given(c), hub.event)
    <3>1. chan[c] \in Seq(Line) /\ shown[c] \in Seq(Line)
      BY GivenType
    <3>2. CASE new = chan[c]
      BY <2>5, <3>2 DEF Given
    <3>3. CASE new = Append(chan[c], hub.event)
      <4>1. hub.event \in Line
        BY <2>1
      <4>2. \A s, t \in Seq(Line), e \in Line : s \o Append(t, e) = Append(s \o t, e)
        BY GiveHolds
      <4>3. shown[c] \o Append(chan[c], hub.event) = Append(shown[c] \o chan[c], hub.event)
        BY <3>1, <4>1, <4>2, Zenon
      <4>. QED BY <2>5, <3>3, <4>3 DEF Given
    <3>. QED BY <2>2, <3>2, <3>3
  <2>7. \A d \in Client \ {c} : Given(d)' = Given(d)
    BY <2>1, <2>3 DEF Given, HubTypes
  <2>. QED BY <2>1, <2>4, <2>6, <2>7
<1>. QED BY <1>1, <1>2, <1>3

LEMMA StreamEffect ==
  ASSUME HubTypes, NEW c \in Client, Stream(c)
  PROVE  /\ HubTypes' /\ UNCHANGED <<broadcast, hub>>
         /\ \A d \in Client : Given(d)' = Given(d) \/ Given(d)' = <<>>
<1>1. CASE Connect(c)
  <2>1. HubTypes' /\ UNCHANGED <<broadcast, hub>>
    BY <1>1, SizeAssumption DEF Connect, Goes, HubTypes
  <2>2. Given(c)' = <<>>
    BY <1>1 DEF Connect, Given, HubTypes
  <2>3. \A d \in Client \ {c} : Given(d)' = Given(d)
    BY <1>1 DEF Connect, Given, HubTypes
  <2>. QED BY <2>1, <2>2, <2>3
<1>2. CASE Register(c) \/ Disconnect(c) \/ Unregister(c)
  BY <1>2 DEF Register, Disconnect, Unregister, Goes, HubTypes, Given
<1>3. CASE Show(c)
  <2>1. /\ chan[c] \in Seq(Line) /\ chan[c] # <<>> /\ shown[c] \in Seq(Line)
        /\ shown' = [shown EXCEPT ![c] = Append(@, Head(chan[c]))]
        /\ chan' = [chan EXCEPT ![c] = Tail(@)]
        /\ UNCHANGED <<broadcast, hub, clients, stream>>
    BY <1>3 DEF Show, HubTypes
  <2>2. /\ Append(shown[c], Head(chan[c])) \in Seq(Line) /\ Tail(chan[c]) \in Seq(Line)
        /\ Len(Tail(chan[c])) <= ClientSize
    BY <2>1, SizeAssumption DEF HubTypes
  <2>3. HubTypes'
    BY <2>1, <2>2 DEF HubTypes
  <2>4. Given(c)' = Append(shown[c], Head(chan[c])) \o Tail(chan[c])
    BY <2>1 DEF Given, HubTypes
  <2>5. Given(c)' = Given(c)
    BY <2>1, <2>4, ShowHolds DEF Given
  <2>6. \A d \in Client \ {c} : Given(d)' = Given(d)
    BY <2>1 DEF Given, HubTypes
  <2>. QED BY <2>1, <2>3, <2>5, <2>6
<1>. QED BY <1>1, <1>2, <1>3 DEF Stream

LEMMA LogEffect ==
  ASSUME HubTypes, NEW e \in Line, Log(e)
  PROVE  /\ HubTypes' /\ GivesNothing /\ UNCHANGED hub
         /\ broadcast' = broadcast \/ broadcast' = Append(broadcast, e)
<1>1. /\ broadcast' \in Seq(Line) /\ Len(broadcast') <= QueueSize
      /\ broadcast' \in {broadcast, Append(broadcast, e)}
  BY OfferHolds, SizeAssumption DEF Log, HubTypes
<1>. QED BY <1>1 DEF Log, HubTypes, GivesNothing, Given

-----------------------------------------------------------------------------
(***************************************************************************)
(* What each step leaves of the histories.                                 *)
(***************************************************************************)
LEMMA RankType == \A e \in Line : Rank(e) \in Nat
<1>1. \A e \in Line : e[1] \in {"start", "rejected", "report"}
  BY DEF Line
<1>. QED BY <1>1 DEF Rank

\* An event that is new to one history and the last of the other, if it is there.
LEMMA AgreeAppend ==
  ASSUME NEW S, NEW s \in Seq(S), NEW t \in Seq(S), NEW e \in S,
         Agree(s, t), Agree(t, s),
         \A i \in 1..Len(s) : s[i] # e,
         \A i \in 1..Len(t) : t[i] = e => i = Len(t)
  PROVE  Agree(Append(s, e), t) /\ Agree(t, Append(s, e))
<1> DEFINE u == Append(s, e)
<1>1. /\ Len(u) = Len(s) + 1 /\ u[Len(u)] = e /\ \A i \in 1..Len(s) : u[i] = s[i]
      /\ Len(s) \in Nat /\ Len(t) \in Nat
  OBVIOUS
<1> HIDE DEF u
<1>2. ASSUME NEW i \in 1..Len(u), NEW j \in 1..Len(u), NEW k \in 1..Len(t), NEW l \in 1..Len(t),
             u[i] = t[k], u[j] = t[l]
      PROVE  i < j <=> k < l
  <2>1. CASE i \in 1..Len(s) /\ j \in 1..Len(s)
    BY <1>1, <1>2, <2>1 DEF Agree
  <2>2. CASE i \in 1..Len(s) /\ j = Len(u)
    <3>1. t[l] = e /\ t[k] # e
      BY <1>1, <1>2, <2>2
    <3>. QED BY <1>1, <3>1, <2>2
  <2>3. CASE i = Len(u)
    <3>1. t[k] = e
      BY <1>1, <1>2, <2>3
    <3>. QED BY <1>1, <3>1, <2>3
  <2>. QED BY <1>1, <2>1, <2>2, <2>3
<1>3. Agree(u, t)
  BY <1>2 DEF Agree
<1>4. Agree(t, u)
  <2>1. ASSUME NEW i \in 1..Len(t), NEW j \in 1..Len(t), NEW k \in 1..Len(u), NEW l \in 1..Len(u),
               t[i] = u[k], t[j] = u[l]
        PROVE  i < j <=> k < l
    BY <1>2, <2>1
  <2>. QED BY <2>1 DEF Agree
<1>. QED BY <1>3, <1>4 DEF u

LEMMA AgreeAppendBoth ==
  ASSUME NEW S, NEW s \in Seq(S), NEW e \in S, Agree(s, s),
         \A i \in 1..Len(s) : s[i] # e
  PROVE  Agree(Append(s, e), Append(s, e))
<1> DEFINE u == Append(s, e)
<1>1. /\ Len(u) = Len(s) + 1 /\ u[Len(u)] = e /\ \A i \in 1..Len(s) : u[i] = s[i]
      /\ Len(s) \in Nat
  OBVIOUS
<1> HIDE DEF u
<1>2. \A i \in 1..Len(u) : i \in 1..Len(s) \/ i = Len(u)
  BY <1>1
<1>3. \A i, j \in 1..Len(u) : u[i] = u[j] /\ i = Len(u) => j = Len(u)
  BY <1>1, <1>2
<1>4. ASSUME NEW i \in 1..Len(u), NEW j \in 1..Len(u), NEW k \in 1..Len(u), NEW l \in 1..Len(u),
             u[i] = u[k], u[j] = u[l]
      PROVE  i < j <=> k < l
  <2>1. CASE i \in 1..Len(s) /\ j \in 1..Len(s)
    <3>1. k \in 1..Len(s) /\ l \in 1..Len(s)
      BY <1>1, <1>2, <1>3, <1>4, <2>1
    <3>. QED BY <1>1, <1>4, <2>1, <3>1 DEF Agree
  <2>2. CASE i \in 1..Len(s) /\ j = Len(u)
    <3>1. k \in 1..Len(s) /\ l = Len(u)
      BY <1>1, <1>2, <1>3, <1>4, <2>2
    <3>. QED BY <1>1, <2>2, <3>1
  <2>3. CASE i = Len(u)
    <3>1. k = Len(u)
      BY <1>3, <1>4, <2>3
    <3>. QED BY <1>1, <2>3, <3>1
  <2>. QED BY <1>2, <2>1, <2>2, <2>3
<1>. QED BY <1>4 DEF Agree, u

LEMMA SortedAppend ==
  ASSUME NEW s \in Seq(Line), NEW e \in Line, Sorted(s),
         \A i \in 1..Len(s) : Rank(s[i]) <= Rank(e)
  PROVE  Sorted(Append(s, e))
<1> DEFINE u == Append(s, e)
<1>1. /\ Len(u) = Len(s) + 1 /\ u[Len(u)] = e /\ \A i \in 1..Len(s) : u[i] = s[i]
      /\ Len(s) \in Nat
  OBVIOUS
<1> HIDE DEF u
<1>2. ASSUME NEW i \in 1..Len(u), NEW j \in 1..Len(u), i < j
      PROVE  Rank(u[i]) <= Rank(u[j])
  <2>1. i \in 1..Len(s) /\ (j \in 1..Len(s) \/ j = Len(u))
    BY <1>1, <1>2
  <2>. QED BY <1>1, <1>2, <2>1 DEF Sorted
<1>. QED BY <1>2 DEF Sorted, u

\* A step after which no more travels than before.
Lessens == \A e \in Line : Travels(e)' => Travels(e)

LEMMA StreamKeeps ==
  ASSUME HubInv, NEW c \in Client, Stream(c)
  PROVE  HubInv' /\ Lessens
<1>1. /\ HubTypes' /\ UNCHANGED <<broadcast, hub>>
      /\ \A d \in Client : Given(d)' = Given(d) \/ Given(d)' = <<>>
  BY StreamEffect DEF HubInv
<1>2. \A d \in Client : Given(d)' = Given(d) \/ Len(Given(d)') = 0
  BY <1>1
<1>3. \A d \in Client : \A e : WasGiven(d, e)' => WasGiven(d, e)
  BY <1>2 DEF WasGiven
<1>4. \A e : Waiting(e)' <=> Waiting(e)
  BY <1>1 DEF Waiting
<1>5. WaitsOnce'
  BY <1>1, <1>3, <1>4 DEF HubInv, HistoryInv, WaitsOnce
<1>6. HandedIsLast'
  BY <1>1, <1>2 DEF HubInv, HistoryInv, HandedIsLast
<1>7. HistoriesAgree'
  BY <1>2 DEF HubInv, HistoryInv, HistoriesAgree, Agree
<1>8. RankInv'
  <2>1. \A d \in Client : Sorted(Given(d))'
    BY <1>2 DEF HubInv, RankInv, Sorted
  <2>2. Sorted(broadcast)'
    BY <1>1 DEF HubInv, RankInv, Sorted
  <2>. QED BY <1>1, <1>3, <1>4, <2>1, <2>2 DEF HubInv, RankInv
<1>9. Lessens
  BY <1>1, <1>3, <1>4 DEF Lessens, Travels
<1>. QED BY <1>1, <1>5, <1>6, <1>7, <1>8, <1>9 DEF HubInv, HistoryInv

\* A step that gives nobody anything leaves the connections as they are.
LEMMA NothingGiven ==
  ASSUME GivesNothing
  PROVE  /\ \A c \in Client : \A e : WasGiven(c, e)' <=> WasGiven(c, e)
         /\ \A c \in Client : Sorted(Given(c))' <=> Sorted(Given(c))
         /\ HistoriesAgree' <=> HistoriesAgree
<1>1. \A c \in Client : \A e : WasGiven(c, e)' <=> WasGiven(c, e)
  BY DEF GivesNothing, WasGiven
<1>2. \A c \in Client : Sorted(Given(c))' <=> Sorted(Given(c))
  BY DEF GivesNothing, Sorted
<1>3. HistoriesAgree' <=> HistoriesAgree
  <2>1. \A c, d \in Client : Agree(Given(c), Given(d))' <=> Agree(Given(c), Given(d))
    BY DEF GivesNothing, Agree
  <2>. QED BY <2>1 DEF HistoriesAgree
<1>. QED BY <1>1, <1>2, <1>3

LEMMA ReceiveKeeps ==
  ASSUME HubInv, Receive
  PROVE  HubInv' /\ Lessens
<1>1. HubTypes' /\ GivesNothing
  BY HubEffect DEF HubInv
<1>2. /\ broadcast \in Seq(Line) /\ Len(broadcast) \in Nat /\ Len(broadcast) > 0
      /\ hub.at = "receive"
      /\ hub'.at = "lock" /\ hub'.event = broadcast[1]
      /\ Len(broadcast') = Len(broadcast) - 1
      /\ \A i \in 1..Len(broadcast') : broadcast'[i] = broadcast[i + 1]
      /\ \A i \in 1..Len(broadcast) : broadcast[i] \in Line
  BY DEF Receive, HubInv, HubTypes
<1>3. \A e : Waiting(e)' => Waiting(e) /\ e # broadcast[1]
  BY <1>2 DEF Waiting, HubInv, HistoryInv, WaitsOnce
<1>4. Waiting(broadcast[1]) /\ broadcast[1] \in Line
  BY <1>2 DEF Waiting
<1>5. WaitsOnce'
  <2>1. \A i, j \in 1..Len(broadcast') : broadcast'[i] = broadcast'[j] => i = j
    BY <1>2 DEF HubInv, HistoryInv, WaitsOnce
  <2>2. \A e \in Line : Waiting(e)' => hub'.event # e /\ \A c \in Client : ~WasGiven(c, e)'
    BY <1>1, <1>2, <1>3, NothingGiven DEF HubInv, HistoryInv, WaitsOnce
  <2>. QED BY <2>1, <2>2 DEF WaitsOnce
<1>6. \A c \in Client : ~WasGiven(c, broadcast[1])
  BY <1>4 DEF HubInv, HistoryInv, WaitsOnce
<1>7. HandedIsLast'
  BY <1>1, <1>2, <1>6 DEF GivesNothing, HandedIsLast, WasGiven
<1>8. HistoriesAgree'
  BY <1>1, NothingGiven DEF HubInv, HistoryInv
<1>9. RankInv'
  <2>1. Sorted(broadcast)'
    BY <1>2 DEF HubInv, RankInv, Sorted
  <2>2. \A f \in Line : Waiting(f) => Rank(broadcast[1]) <= Rank(f)
    BY <1>2, <1>4, RankType DEF HubInv, RankInv, Sorted, Waiting
  <2>. QED BY <1>1, <1>2, <1>3, <1>4, <2>1, <2>2, NothingGiven DEF HubInv, RankInv
<1>10. Lessens
  BY <1>1, <1>2, <1>3, <1>4, NothingGiven DEF Lessens, Travels
<1>. QED BY <1>1, <1>5, <1>7, <1>8, <1>9, <1>10 DEF HubInv, HistoryInv

LEMMA LockKeeps ==
  ASSUME HubInv, Lock \/ Unlock
  PROVE  HubInv' /\ Lessens
<1>1. HubTypes' /\ GivesNothing /\ UNCHANGED broadcast
  BY HubEffect DEF HubInv, Lock, Unlock
<1>2. \/ hub.at = "lock" /\ hub'.event = hub.event
      \/ hub'.event = None
  <2>1. Lock => hub.at = "lock" /\ hub'.event = hub.event
    BY DEF Lock, HubInv, HubTypes
  <2>2. Unlock => hub'.event = None
    BY DEF Unlock, Waits
  <2>. QED BY <2>1, <2>2
<1>3. \A e : Waiting(e)' <=> Waiting(e)
  BY <1>1 DEF Waiting
<1>4. WaitsOnce'
  BY <1>1, <1>2, <1>3, NothingGiven, LineFacts DEF HubInv, HistoryInv, WaitsOnce
<1>5. HandedIsLast'
  <2>1. \A c \in Client : \A i \in 1..Len(Given(c)) : Given(c)[i] # hub'.event
    BY <1>2, GivenType, LineFacts DEF HubInv, HistoryInv, HandedIsLast
  <2>. QED BY <1>1, <2>1 DEF GivesNothing, HandedIsLast
<1>6. HistoriesAgree'
  BY <1>1, NothingGiven DEF HubInv, HistoryInv
<1>7. RankInv'
  <2>1. Sorted(broadcast)'
    BY <1>1 DEF HubInv, RankInv, Sorted
  <2>. QED BY <1>1, <1>2, <1>3, <2>1, NothingGiven, LineFacts DEF HubInv, RankInv
<1>8. Lessens
  BY <1>1, <1>2, <1>3, NothingGiven, LineFacts DEF Lessens, Travels
<1>. QED BY <1>1, <1>4, <1>5, <1>6, <1>7, <1>8 DEF HubInv, HistoryInv

LEMMA VisitKeeps ==
  ASSUME HubInv, NEW c \in Client, Visit(c)
  PROVE  HubInv' /\ Lessens
<1>1. /\ HubTypes' /\ UNCHANGED broadcast
      /\ c \in hub.todo /\ hub.at = "visit" /\ hub.event \in Line
      /\ hub' = [hub EXCEPT !.todo = @ \ {c}]
      /\ Given(c)' = Given(c) \/ Given(c)' = Append(Given(c), hub.event)
      /\ \A d \in Client \ {c} : Given(d)' = Given(d)
  BY HubEffect DEF HubInv
<1>2. hub'.at = "visit" /\ hub'.event = hub.event /\ hub'.todo = hub.todo \ {c}
  BY <1>1 DEF HubInv, HubTypes
<1>3. \A d \in Client : Given(d) \in Seq(Line) /\ Len(Given(d)) \in Nat
  BY GivenType DEF HubInv
<1>4. \A i \in 1..Len(Given(c)) : Given(c)[i] # hub.event
  BY <1>1 DEF HubInv, HistoryInv, HandedIsLast
<1>5. Given(c)' = Append(Given(c), hub.event) =>
        /\ Len(Given(c)') = Len(Given(c)) + 1 /\ Given(c)'[Len(Given(c)')] = hub.event
        /\ \A i \in 1..Len(Given(c)) : Given(c)'[i] = Given(c)[i]
  BY <1>3
<1>6. \A d \in Client : \A e : WasGiven(d, e)' => WasGiven(d, e) \/ e = hub.event
  <2>1. \A e : WasGiven(c, e)' => WasGiven(c, e) \/ e = hub.event
    BY <1>1, <1>3, <1>5 DEF WasGiven
  <2>2. \A d \in Client \ {c} : \A e : WasGiven(d, e)' => WasGiven(d, e)
    BY <1>1 DEF WasGiven
  <2>. QED BY <2>1, <2>2
<1>7. \A e : Waiting(e)' <=> Waiting(e)
  BY <1>1 DEF Waiting
<1>8. WaitsOnce'
  <2>1. \A i, j \in 1..Len(broadcast') : broadcast'[i] = broadcast'[j] => i = j
    BY <1>1 DEF HubInv, HistoryInv, WaitsOnce
  <2>2. \A e \in Line : Waiting(e)' => hub'.event # e /\ \A d \in Client : ~WasGiven(d, e)'
    BY <1>2, <1>6, <1>7 DEF HubInv, HistoryInv, WaitsOnce
  <2>. QED BY <2>1, <2>2 DEF WaitsOnce
<1>9. HandedIsLast'
  <2>1. ASSUME NEW i \in 1..Len(Given(c)'), Given(c)'[i] = hub.event
        PROVE  i = Len(Given(c)')
    BY <1>1, <1>3, <1>4, <1>5, <2>1
  <2>2. ASSUME NEW d \in Client \ {c}, NEW i \in 1..Len(Given(d)'), Given(d)'[i] = hub.event
        PROVE  i = Len(Given(d)') /\ d \notin hub.todo
    BY <1>1, <2>2 DEF HubInv, HistoryInv, HandedIsLast
  <2>. QED BY <1>2, <2>1, <2>2 DEF HandedIsLast
<1>10. ASSUME NEW d \in Client, NEW f \in Client
       PROVE  Agree(Given(d)', Given(f)')
  <2>1. \A g, h \in Client : Agree(Given(g), Given(h))
    BY DEF HubInv, HistoryInv, HistoriesAgree
  <2>2. \A g \in Client : \A i \in 1..Len(Given(g)) :
          Given(g)[i] = hub.event => i = Len(Given(g))
    BY DEF HubInv, HistoryInv, HandedIsLast
  <2>3. CASE Given(c)' = Given(c)
    <3>1. Given(d)' = Given(d) /\ Given(f)' = Given(f)
      BY <1>1, <2>3
    <3>. QED BY <2>1, <3>1
  <2>4. CASE Given(c)' = Append(Given(c), hub.event)
    <3>1. CASE d = c /\ f = c
      <4>1. Agree(Append(Given(c), hub.event), Append(Given(c), hub.event))
        BY <1>1, <1>3, <1>4, <2>1, AgreeAppendBoth
      <4>. QED BY <2>4, <3>1, <4>1
    <3>2. CASE d = c /\ f # c
      <4>1. Agree(Append(Given(c), hub.event), Given(f))
        BY <1>1, <1>3, <1>4, <2>1, <2>2, AgreeAppend
      <4>. QED BY <1>1, <2>4, <3>2, <4>1
    <3>3. CASE d # c /\ f = c
      <4>1. Agree(Given(d), Append(Given(c), hub.event))
        BY <1>1, <1>3, <1>4, <2>1, <2>2, AgreeAppend
      <4>. QED BY <1>1, <2>4, <3>3, <4>1
    <3>4. CASE d # c /\ f # c
      BY <1>1, <2>1, <3>4
    <3>. QED BY <3>1, <3>2, <3>3, <3>4
  <2>. QED BY <1>1, <2>3, <2>4
<1>11. HistoriesAgree'
  BY <1>10 DEF HistoriesAgree
<1>12. RankInv'
  <2>1. Sorted(broadcast)'
    BY <1>1 DEF HubInv, RankInv, Sorted
  <2>2. Sorted(Given(c)')
    <3>1. \A i \in 1..Len(Given(c)) : WasGiven(c, Given(c)[i]) /\ Given(c)[i] \in Line
      BY GivenType DEF WasGiven, HubInv
    <3>2. \A i \in 1..Len(Given(c)) : Rank(Given(c)[i]) <= Rank(hub.event)
      BY <1>1, <3>1 DEF HubInv, RankInv
    <3>3. Sorted(Given(c))
      BY DEF HubInv, RankInv
    <3>4. Sorted(Append(Given(c), hub.event))
      BY <1>1, <1>3, <3>2, <3>3, SortedAppend
    <3>. QED BY <1>1, <3>3, <3>4
  <2>3. \A d \in Client : Sorted(Given(d)')
    BY <1>1, <2>2 DEF HubInv, RankInv
  <2>4. Rank(hub.event) \in Nat
    BY <1>1, RankType
  <2>5. \A e, f \in Line : Waiting(f)' /\ (hub'.event = e \/ \E d \in Client : WasGiven(d, e)')
                             => Rank(e) <= Rank(f)
    BY <1>2, <1>6, <1>7 DEF HubInv, RankInv
  <2>6. \A e, f \in Line : hub'.event = f /\ (\E d \in Client : WasGiven(d, e)')
                             => Rank(e) <= Rank(f)
    BY <1>2, <1>6, <2>4 DEF HubInv, RankInv
  <2>. QED BY <2>1, <2>3, <2>5, <2>6 DEF RankInv
<1>13. Lessens
  BY <1>2, <1>6, <1>7 DEF Lessens, Travels
<1>. QED BY <1>1, <1>8, <1>9, <1>11, <1>12, <1>13 DEF HubInv, HistoryInv

\* Who logs something new that ranks with what comes last adds only that.
LEMMA LogKeeps ==
  ASSUME HubInv, NEW e \in Line, Log(e), ~Travels(e),
         \A f \in Line : Travels(f) => Rank(f) <= Rank(e)
  PROVE  HubInv' /\ \A f \in Line : Travels(f)' => Travels(f) \/ f = e
<1>1. /\ HubTypes' /\ GivesNothing /\ UNCHANGED hub
      /\ broadcast' = broadcast \/ broadcast' = Append(broadcast, e)
  BY LogEffect DEF HubInv
<1>2. /\ broadcast \in Seq(Line) /\ Len(broadcast) \in Nat
      /\ \A i \in 1..Len(broadcast) : broadcast[i] \in Line /\ broadcast[i] # e
  BY DEF HubInv, HubTypes, Travels, Waiting
<1>3. broadcast' = Append(broadcast, e) =>
        /\ Len(broadcast') = Len(broadcast) + 1 /\ broadcast'[Len(broadcast')] = e
        /\ \A i \in 1..Len(broadcast) : broadcast'[i] = broadcast[i]
  BY <1>2
<1>4. \A f : Waiting(f)' => Waiting(f) \/ f = e
  BY <1>1, <1>2, <1>3 DEF Waiting
<1>5. WaitsOnce'
  <2>1. \A i, j \in 1..Len(broadcast') : broadcast'[i] = broadcast'[j] => i = j
    BY <1>1, <1>2, <1>3 DEF HubInv, HistoryInv, WaitsOnce
  <2>2. \A f \in Line : Waiting(f)' => hub'.event # f /\ \A d \in Client : ~WasGiven(d, f)'
    BY <1>1, <1>4, NothingGiven DEF HubInv, HistoryInv, WaitsOnce, Travels
  <2>. QED BY <2>1, <2>2 DEF WaitsOnce
<1>6. HandedIsLast'
  BY <1>1 DEF GivesNothing, HubInv, HistoryInv, HandedIsLast
<1>7. HistoriesAgree'
  BY <1>1, NothingGiven DEF HubInv, HistoryInv
<1>8. RankInv'
  <2>1. Sorted(broadcast')
    <3>1. \A i \in 1..Len(broadcast) : Rank(broadcast[i]) <= Rank(e)
      BY <1>2 DEF Travels, Waiting
    <3>2. Sorted(broadcast)
      BY DEF HubInv, RankInv
    <3>3. Sorted(Append(broadcast, e))
      BY <1>2, <3>1, <3>2, SortedAppend
    <3>. QED BY <1>1, <3>2, <3>3
  <2>2. \A d \in Client : Sorted(Given(d))'
    BY <1>1, NothingGiven DEF HubInv, RankInv
  <2>3. \A f, g \in Line : Waiting(g)' /\ (hub'.event = f \/ \E d \in Client : WasGiven(d, f)')
                             => Rank(f) <= Rank(g)
    BY <1>1, <1>4, NothingGiven DEF HubInv, RankInv, Travels
  <2>4. \A f, g \in Line : hub'.event = g /\ (\E d \in Client : WasGiven(d, f)')
                             => Rank(f) <= Rank(g)
    BY <1>1, NothingGiven DEF HubInv, RankInv
  <2>. QED BY <2>1, <2>2, <2>3, <2>4 DEF RankInv
<1>9. \A f \in Line : Travels(f)' => Travels(f) \/ f = e
  BY <1>1, <1>4, NothingGiven DEF Travels
<1>. QED BY <1>1, <1>5, <1>6, <1>7, <1>8, <1>9 DEF HubInv, HistoryInv

-----------------------------------------------------------------------------
(***************************************************************************)
(* The whole, from the beginning and step by step.                         *)
(***************************************************************************)
LEMMA LinesAre ==
  /\ <<"start", 0>> \in Line /\ <<"report", 0>> \in Line
  /\ \A r \in Req : <<"rejected", r>> \in Line
  /\ Rank(<<"start", 0>>) = 1 /\ Rank(<<"report", 0>>) = 3
  /\ \A r \in Req : Rank(<<"rejected", r>>) = 2
  /\ \A e \in Line : Rank(e) <= 3 /\ (e # <<"report", 0>> => Rank(e) <= 2)
<1>1. \A e \in Line : \/ e = <<"start", 0>> \/ e = <<"report", 0>>
                       \/ \E r \in Req : e = <<"rejected", r>>
  BY DEF Line
<1>2. /\ Rank(<<"start", 0>>) = 1 /\ Rank(<<"report", 0>>) = 3
      /\ \A r \in Req : Rank(<<"rejected", r>>) = 2
  BY DEF Rank
<1>3. \A e \in Line : Rank(e) <= 3 /\ (e # <<"report", 0>> => Rank(e) <= 2)
  BY <1>1, <1>2
<1>4. /\ <<"start", 0>> \in Line /\ <<"report", 0>> \in Line
      /\ \A r \in Req : <<"rejected", r>> \in Line
  BY DEF Line
<1>. QED BY <1>2, <1>3, <1>4

LEMMA InitIInv == Init => IInv
<1> SUFFICES ASSUME Init PROVE IInv
  OBVIOUS
<1>1. /\ broadcast = <<>> /\ hub.at = "receive" /\ hub.event = None
      /\ \A c \in Client : Len(Given(c)) = 0
  BY DEF Init, HubInit, Waits, Given
<1>2. HubTypes
  BY SizeAssumption DEF Init, HubInit, Waits, HubTypes
<1>3. \A e \in Line : ~Travels(e)
  BY <1>1, LineFacts DEF Travels, Waiting, WasGiven
<1>4. HistoryInv
  BY <1>1, <1>3 DEF HistoryInv, WaitsOnce, HandedIsLast, HistoriesAgree, Agree, Travels
<1>5. RankInv
  BY <1>1, <1>3 DEF RankInv, Sorted, Travels
<1>6. SimTypes
  BY Constants DEF Init, SimTypes
<1>7. LinesAreFresh
  BY <1>3, LinesAre DEF LinesAreFresh
<1>8. SimStages
  BY DEF Init, SimStages
<1>9. ASSUME NEW places, "none" \notin places
      PROVE  In(places) = {} /\ Fits(places) = {} /\ Misfits(places) = {}
  BY <1>9 DEF Init, In, Fits, Misfits
<1>10. CountersAreTrue
  BY <1>9, FS_EmptySet DEF Init, CountersAreTrue, Waited, Active, Ended
<1>11. PoolInv
  BY <1>9, FS_EmptySet, Constants DEF PoolInv, Counted, Ended
<1>. QED BY <1>2, <1>4, <1>5, <1>6, <1>7, <1>8, <1>10, <1>11 DEF IInv, HubInv, SimInv

\* The hub does not notice a step that leaves it alone.
LEMMA HubUntouched ==
  ASSUME HubInv, UNCHANGED hubVars
  PROVE  HubInv' /\ Lessens
<1>1. UNCHANGED <<broadcast, hub, clients, chan, stream, shown>>
  BY DEF hubVars
<1>2. GivesNothing
  BY <1>1 DEF GivesNothing, Given
<1>3. HubTypes'
  BY <1>1 DEF HubInv, HubTypes
<1>4. \A e : Waiting(e)' <=> Waiting(e)
  BY <1>1 DEF Waiting
<1>5. WaitsOnce'
  BY <1>1, <1>2, <1>4, NothingGiven DEF HubInv, HistoryInv, WaitsOnce
<1>6. HandedIsLast'
  BY <1>1, <1>2 DEF GivesNothing, HubInv, HistoryInv, HandedIsLast
<1>7. RankInv'
  <2>1. Sorted(broadcast)'
    BY <1>1 DEF HubInv, RankInv, Sorted
  <2>. QED BY <1>1, <1>2, <1>4, <2>1, NothingGiven DEF HubInv, RankInv
<1>8. HistoriesAgree'
  BY <1>2, NothingGiven DEF HubInv, HistoryInv
<1>9. Lessens
  BY <1>1, <1>2, <1>4, NothingGiven DEF Lessens, Travels
<1>. QED BY <1>3, <1>5, <1>6, <1>7, <1>8, <1>9 DEF HubInv, HistoryInv

\* Nor does the simulation.
LEMMA SimUntouched ==
  ASSUME SimInv, Lessens, UNCHANGED <<sim, req, conn, count>>
  PROVE  SimInv'
<1>1. SimTypes' /\ SimStages'
  BY DEF SimInv, SimTypes, SimStages
<1>2. LinesAreFresh'
  BY LinesAre DEF SimInv, LinesAreFresh, Lessens
<1>3. \A places : /\ In(places)' = In(places) /\ Fits(places)' = Fits(places)
                  /\ Misfits(places)' = Misfits(places)
  BY DEF In, Fits, Misfits
<1>4. CountersAreTrue' /\ PoolInv'
  BY <1>3 DEF SimInv, CountersAreTrue, PoolInv
<1>. QED BY <1>1, <1>2, <1>4 DEF SimInv

\* A line of the simulation itself changes neither requests nor counters.
LEMMA SetsStay ==
  ASSUME SimInv, UNCHANGED <<req, conn, count>>, sim' \in {"idle", "spawning", "reported"}
  PROVE  SimTypes' /\ CountersAreTrue' /\ PoolInv'
<1>1. SimTypes'
  BY DEF SimInv, SimTypes
<1>2. \A places : /\ In(places)' = In(places) /\ Fits(places)' = Fits(places)
                  /\ Misfits(places)' = Misfits(places)
  BY DEF In, Fits, Misfits
<1>3. CountersAreTrue' /\ PoolInv'
  BY <1>2 DEF SimInv, CountersAreTrue, PoolInv
<1>. QED BY <1>1, <1>3

LEMMA PostKeeps ==
  ASSUME IInv, Post
  PROVE  IInv'
<1>1. /\ sim = "idle" /\ sim' = "spawning" /\ Log(<<"start", 0>>) /\ UNCHANGED <<req, conn, count>>
  BY DEF Post, Says
<1>2. \A e \in Line : ~Travels(e)
  BY <1>1 DEF IInv, SimInv, LinesAreFresh
<1>3. HubInv' /\ \A f \in Line : Travels(f)' => f = <<"start", 0>>
  BY <1>1, <1>2, LinesAre, LogKeeps DEF IInv
<1>4. LinesAreFresh'
  BY <1>1, <1>3, LinesAre DEF LinesAreFresh
<1>5. SimStages'
  BY <1>1 DEF IInv, SimInv, SimStages
<1>. QED BY <1>1, <1>3, <1>4, <1>5, SetsStay DEF IInv, SimInv

\* The wait group is empty, so no request has anything left to log.
LEMMA ReportKeeps ==
  ASSUME IInv, Report
  PROVE  IInv'
<1>1. /\ sim = "spawning" /\ sim' = "reported" /\ Log(<<"report", 0>>)
      /\ UNCHANGED <<req, conn, count>> /\ count.wg = 0 /\ \A r \in Req : req[r] # "none"
  BY DEF Report, Says, Spawned
<1>2. In(Waited) = {}
  BY <1>1, ReqSets, SetsAreReqs, FS_EmptySet DEF IInv, SimInv, CountersAreTrue
<1>3. \A r \in Req : req[r] = "done"
  BY <1>1, <1>2 DEF In, Waited, IInv, SimInv, SimTypes
<1>4. HubInv' /\ \A f \in Line : Travels(f)' => Travels(f) \/ f = <<"report", 0>>
  <2>1. ~Travels(<<"report", 0>>)
    BY <1>1 DEF IInv, SimInv, LinesAreFresh
  <2>. QED BY <1>1, <2>1, LinesAre, LogKeeps DEF IInv
<1>5. LinesAreFresh'
  BY <1>1, <1>3 DEF LinesAreFresh
<1>6. SimStages'
  BY <1>1, <1>3 DEF SimStages
<1>. QED BY <1>1, <1>4, <1>5, <1>6, SetsStay DEF IInv, SimInv

\* A rejection is logged while the report is still to come.
LEMMA ReqStepKeeps ==
  ASSUME IInv, NEW r \in Req, ReqStep(r)
  PROVE  IInv'
<1>1. SimTypes' /\ CountersAreTrue' /\ PoolInv'
  BY SimTypesStep, CountersStep, PoolStep DEF IInv, SimInv
<1>2. /\ sim' = sim
      /\ \A q \in Req : req'[q] # req[q] \/ conn'[q] # conn[q] => q = r
  BY Moved DEF ReqStep, Request, IInv, SimInv, SimTypes, ReqMoves, Spawn, Counts, Reject,
     LogRejection, Succeed, Release, Finish, Adds
<1>3. /\ req[r] # "done" /\ req'[r] # "none" /\ (req[r] = "none" => sim = "spawning")
      /\ req'[r] = "rejected" => conn'[r] > MaxConnections
      /\ req'[r] \in {"none", "started", "counted", "rejected"}
           => req[r] \in {"none", "started", "counted"}
  <2>1. CASE Reject(r)
    BY <2>1, Moved DEF IInv, SimInv, SimTypes, ReqMoves
  <2>2. CASE ~Reject(r)
    BY <2>2, Moved DEF ReqStep, Request, IInv, SimInv, SimTypes, ReqMoves
  <2>. QED BY <2>1, <2>2
<1>4. sim # "reported"
  BY <1>3 DEF IInv, SimInv, SimStages
<1>5. SimStages'
  BY <1>2, <1>3, <1>4 DEF IInv, SimInv, SimStages
<1>6. CASE LogRejection(r)
  <2>1. req[r] = "rejected" /\ req'[r] = "tallied" /\ Log(<<"rejected", r>>)
    BY <1>6 DEF LogRejection, IInv, SimInv, SimTypes
  <2>2. ~Travels(<<"rejected", r>>) /\ ~Travels(<<"report", 0>>)
    BY <1>4, <2>1 DEF IInv, SimInv, LinesAreFresh
  <2>3. HubInv' /\ \A f \in Line : Travels(f)' => Travels(f) \/ f = <<"rejected", r>>
    BY <2>1, <2>2, LinesAre, LogKeeps DEF IInv
  <2>4. sim # "idle"
    BY <2>1 DEF IInv, SimInv, SimStages
  <2>5. ~Travels(<<"report", 0>>)'
    BY <2>2, <2>3, LinesAre
  <2>6. ASSUME NEW q \in Req, req'[q] \in {"none", "started", "counted", "rejected"}
        PROVE  ~Travels(<<"rejected", q>>)'
    <3>1. q # r
      BY <2>1, <2>6
    <3>2. req[q] = req'[q]
      BY <1>2, <3>1
    <3>3. ~Travels(<<"rejected", q>>)
      BY <2>6, <3>2 DEF IInv, SimInv, LinesAreFresh
    <3>. QED BY <2>3, <3>1, <3>3, LinesAre
  <2>7. LinesAreFresh'
    BY <1>2, <2>4, <2>5, <2>6 DEF LinesAreFresh
  <2>. QED BY <1>1, <1>5, <2>3, <2>7 DEF IInv, SimInv
<1>7. CASE ~LogRejection(r)
  <2>1. UNCHANGED hubVars
    BY <1>7 DEF ReqStep, Request, Spawn, Counts, Reject, Succeed, Release, Finish, Adds
  <2>2. HubInv' /\ Lessens
    BY <2>1, HubUntouched DEF IInv
  <2>3. \A q \in Req : req'[q] \in {"none", "started", "counted", "rejected"}
                       => req[q] \in {"none", "started", "counted", "rejected"}
    BY <1>2, <1>3
  <2>4. LinesAreFresh'
    BY <1>2, <2>2, <2>3, LinesAre DEF IInv, SimInv, LinesAreFresh, Lessens
  <2>. QED BY <1>1, <1>5, <2>2, <2>4 DEF IInv, SimInv
<1>. QED BY <1>6, <1>7

LEMMA IInvStep == IInv /\ [Next]_vars => IInv'
<1> SUFFICES ASSUME IInv, [Next]_vars PROVE IInv'
  OBVIOUS
<1>1. CASE Post
  BY <1>1, PostKeeps
<1>2. CASE Report
  BY <1>2, ReportKeeps
<1>3. ASSUME NEW r \in Req, Spawn(r) \/ Request(r) PROVE IInv'
  BY <1>3, ReqStepKeeps DEF ReqStep
<1>4. CASE Hub
  <2>1. HubInv' /\ Lessens
    BY <1>4, ReceiveKeeps, LockKeeps, VisitKeeps DEF Hub, Start, IInv
  <2>. QED BY <1>4, <2>1, SimUntouched DEF Hub, IInv
<1>5. ASSUME NEW c \in Client, Browser(c) PROVE IInv'
  <2>1. HubInv' /\ Lessens
    BY <1>5, StreamKeeps DEF Browser, IInv
  <2>. QED BY <1>5, <2>1, SimUntouched DEF Browser, IInv
<1>6. CASE UNCHANGED vars
  <2>1. UNCHANGED hubVars /\ UNCHANGED <<sim, req, conn, count>>
    BY <1>6 DEF vars
  <2>. QED BY <2>1, HubUntouched, SimUntouched DEF IInv
<1>. QED BY <1>1, <1>2, <1>3, <1>4, <1>5, <1>6 DEF Next, Simulation

LEMMA Invariance == Spec => []IInv
  BY InitIInv, IInvStep, PTL DEF Spec

-----------------------------------------------------------------------------
LEMMA BoundedIs ==
  ASSUME NEW n \in Nat, NEW s \in Seq(Line), Len(s) <= n
  PROVE  s \in BoundedSeq(Event, n)
<1>1. s \in [1..Len(s) -> Event] /\ Len(s) \in 0..n
  BY LineAssumption
<1>. QED BY <1>1 DEF BoundedSeq, SeqOf

\* Every value a variable of the hub or the simulation takes is of its type;
\* the queues never outgrow their capacity.
THEOREM TypeCorrect == Spec => []TypeOK
<1>1. ASSUME IInv PROVE TypeOK
  <2>1. HubTypeOK
    <3>1. /\ HubTypes /\ QueueSize \in Nat /\ ClientSize \in Nat
      BY <1>1, SizeAssumption DEF IInv, HubInv
    <3>2. broadcast \in BoundedSeq(Event, QueueSize)
      BY <3>1, BoundedIs DEF HubTypes
    <3>3. chan \in [Client -> BoundedSeq(Event, ClientSize)]
      BY <3>1, BoundedIs DEF HubTypes
    <3>4. /\ shown \in [Client -> Seq(Event)]
          /\ hub \in [at : {"receive", "lock", "visit"}, event : Event \cup {None},
                      todo : SUBSET Client]
      BY <3>1, LineAssumption DEF HubTypes
    <3>. QED BY <3>1, <3>2, <3>3, <3>4 DEF HubTypes, HubTypeOK
  <2>2. count \in [{"wg", "active", "success", "fail"} -> 0..Count]
    BY <1>1, CountersRange DEF IInv, SimInv, SimTypes
  <2>. QED BY <1>1, <2>1, <2>2 DEF IInv, SimInv, SimTypes, TypeOK
<1>. QED BY <1>1, Invariance, PTL

\* All browsers see one history, whatever the full queues drop and in whatever
\* order Start visits the connections.
THEOREM OneHistoryHolds == Spec => []OneHistory
<1>1. ASSUME IInv PROVE OneHistory
  <2>1. \A c \in Client : DOMAIN Given(c) = 1..Len(Given(c))
    BY <1>1, GivenType DEF IInv, HubInv
  <2>2. \A c, d \in Client : Agree(Given(c), Given(d))
    BY <1>1 DEF IInv, HubInv, HistoryInv, HistoriesAgree
  <2>. QED BY <2>1, <2>2 DEF OneHistory, Agree
<1>. QED BY <1>1, Invariance, PTL

\* No browser is shown a rejection before the start or after the report,
\* although each comes from a goroutine of its own.
THEOREM ReportIsLastHolds == Spec => []ReportIsLast
<1>1. ASSUME IInv PROVE ReportIsLast
  <2>1. \A c \in Client : DOMAIN Given(c) = 1..Len(Given(c))
    BY <1>1, GivenType DEF IInv, HubInv
  <2>2. \A c \in Client : Sorted(Given(c))
    BY <1>1 DEF IInv, HubInv, RankInv
  <2>. QED BY <2>1, <2>2 DEF ReportIsLast, Sorted
<1>. QED BY <1>1, Invariance, PTL

\* The pool is never overfilled, the report counts every request once, and the
\* rejected ones have not kept a place from being used.
THEOREM PoolIsHonestHolds == Spec => []PoolIsHonest
<1>1. ASSUME IInv PROVE PoolIsHonest
  <2>1. {r \in Req : /\ req[r] \in {"counted", "tallied"}
                     /\ conn[r] <= MaxConnections} = Fits({"counted", "tallied"})
    BY DEF Fits, In
  <2>2. ASSUME sim = "reported"
        PROVE  /\ count.success + count.fail = Count
               /\ count.success >= MaxConnections \/ count.success = Count
    <3>1. \A r \in Req : req[r] = "done"
      BY <1>1, <2>2 DEF IInv, SimInv, SimStages
    <3> DEFINE served == Fits(Ended)
    <3>2. /\ served \in SUBSET Req /\ Fits(Counted) = served /\ In(Counted) = Req
          /\ Misfits(Ended \cup {"rejected"}) = Req \ served
      BY <1>1, <3>1, Constants DEF Fits, Misfits, In, Counted, Ended, IInv, SimInv, SimTypes
    <3>3. count.success = Cardinality(served) /\ count.fail = Cardinality(Req \ served)
      BY <1>1, <3>2 DEF IInv, SimInv, CountersAreTrue
    <3> HIDE DEF served
    <3>4. IsFiniteSet(Req) /\ Cardinality(Req) = Count
      BY Constants, FS_Interval, 0 \in Int, 1 \in Int DEF Req
    <3>5. Cardinality(Req \ served) = Cardinality(Req) - Cardinality(Req \cap served)
      BY <3>4, FS_Difference
    <3>6. Req \cap served = served /\ Cardinality(served) \in Int
      BY <3>2, ReqSets
    <3>7. count.success + count.fail = Count
      BY <3>3, <3>4, <3>5, <3>6, Constants
    <3>8. count.success >= MaxConnections \/ count.success = Count
      BY <1>1, <3>2, <3>3, <3>4 DEF IInv, SimInv, PoolInv
    <3>. QED BY <3>7, <3>8
  <2>. QED BY <1>1, <2>1, <2>2 DEF IInv, SimInv, PoolInv, PoolIsHonest
<1>. QED BY <1>1, Invariance, PTL
=============================================================================
