-------------------------- MODULE DirectSimulation --------------------------
(***************************************************************************)
(* POST /api/simulate/direct: Count requests, one goroutine each, compete  *)
(* for a pool of MaxConnections, and a last goroutine reports their number *)
(* when all have ended.  What they log goes through the log hub.           *)
(*                                                                         *)
(* The counters are locals of one simulation, so one is enough.            *)
(***************************************************************************)
EXTENDS LogHub

CONSTANTS
  Count,           \* how many requests (the query's count, or 1000)
  MaxConnections,  \* places in the pool (50)
  LogEvery         \* every how many requests a rejection is logged (200)

Req  == 1..Count
Line == {<<"start", 0>>, <<"report", 0>>} \cup {<<"rejected", r>> : r \in Req}

ASSUME CountAssumption == {Count, MaxConnections, LogEvery} \subseteq Nat \ {0}
ASSUME LineAssumption  == Line \subseteq Event

VARIABLES
  sim,    \* the goroutine of the simulation
  req,    \* req[r], how far the goroutine of request r is
  conn,   \* conn[r], its local
  count   \* the wait group, activeConnections, successCount and failCount

vars == <<hubVars, sim, req, conn, count>>

TypeOK ==
  /\ HubTypeOK
  /\ sim \in {"idle", "spawning", "reported"}
  /\ req \in [Req -> {"none", "started", "counted", "rejected", "tallied", "released", "done"}]
  /\ conn \in [Req -> 0..Count]
  /\ count \in [{"wg", "active", "success", "fail"} -> 0..Count]

Init ==
  /\ HubInit
  /\ sim = "idle"
  /\ req = [r \in Req |-> "none"]
  /\ conn = [r \in Req |-> 0]
  /\ count = [wg |-> 0, active |-> 0, success |-> 0, fail |-> 0]

\* A step of request r that adds d to a counter.
Adds(r, from, to, counter, d) ==
  /\ req[r] = from
  /\ req' = [req EXCEPT ![r] = to]
  /\ count' = [count EXCEPT ![counter] = @ + d]
  /\ UNCHANGED <<hubVars, sim>>

\* A line the simulation itself logs.
Says(from, to, what) ==
  /\ sim = from
  /\ sim' = to
  /\ Log(<<what, 0>>)
  /\ UNCHANGED <<req, conn, count>>

Post == Says("idle", "spawning", "start")

\* wg.Add(1) and go, in the order of the loop.
Spawn(r) ==
  /\ sim = "spawning" /\ \A q \in 1..(r - 1) : req[q] # "none"
  /\ Adds(r, "none", "started", "wg", 1)
  /\ UNCHANGED conn

\* Slip to rule out: the request takes the number before it counts itself.
CountsAfterLooking(r) ==
  /\ Adds(r, "started", "counted", "active", 1)
  /\ conn' = [conn EXCEPT ![r] = count.active]

Counts(r) ==
  /\ Adds(r, "started", "counted", "active", 1)
  /\ conn' = [conn EXCEPT ![r] = count'.active]

\* A rejected request has counted itself all the same, and keeps the number up
\* until it has ended.
Reject(r) ==
  /\ conn[r] > MaxConnections
  /\ Adds(r, "counted", IF r % LogEvery = 0 \/ r = Count THEN "rejected" ELSE "tallied",
          "fail", 1)
  /\ UNCHANGED conn

LogRejection(r) ==
  /\ req[r] = "rejected"
  /\ req' = [req EXCEPT ![r] = "tallied"]
  /\ Log(<<"rejected", r>>)
  /\ UNCHANGED <<sim, conn, count>>

\* 80 ms in the pool.
Succeed(r) ==
  /\ conn[r] <= MaxConnections
  /\ Adds(r, "counted", "tallied", "success", 1)
  /\ UNCHANGED conn

\* The deferred calls, the last one first.
Release(r) == Adds(r, "tallied", "released", "active", -1) /\ UNCHANGED conn

Finish(r) == Adds(r, "released", "done", "wg", -1) /\ UNCHANGED conn

Spawned == \A r \in Req : req[r] # "none"

\* Slip to rule out: the report does not wait for the requests.
ReportUnwaited == Spawned /\ Says("spawning", "reported", "report")

\* wg.Wait, and the report.
Report == Spawned /\ count.wg = 0 /\ Says("spawning", "reported", "report")

Request(r) ==
  \/ Counts(r) \/ Reject(r) \/ LogRejection(r) \/ Succeed(r)
  \/ Release(r) \/ Finish(r)

Simulation == (\E r \in Req : Spawn(r)) \/ Report
Hub        == Start /\ UNCHANGED <<sim, req, conn, count>>
Browser(c) == Stream(c) /\ UNCHANGED <<sim, req, conn, count>>

Next ==
  \/ Post \/ Simulation \/ Hub
  \/ \E r \in Req : Request(r)
  \/ \E c \in Client : Browser(c)

Spec == Init /\ [][Next]_vars

(***************************************************************************)
(* Every goroutine that can go on does, and sync.Mutex, which hands itself *)
(* over to one that has waited too long, starves none.  Browsers connect,  *)
(* read and leave as they please.                                          *)
(***************************************************************************)
FairSpec ==
  /\ Spec
  /\ WF_vars(Simulation) /\ WF_vars(Hub)
  /\ \A r \in Req : WF_vars(Request(r))
  /\ \A c \in Client : SF_vars(Browser(c) /\ stream[c] \in {"connected", "leaving"})

-----------------------------------------------------------------------------
\* The pool is never overfilled, although a request finds out about it only
\* after it has counted itself.  The report counts every request once; and
\* although rejected requests occupy places, at least as many were served as
\* the pool has places.
PoolIsHonest ==
  /\ Cardinality({r \in Req : /\ req[r] \in {"counted", "tallied"}
                              /\ conn[r] <= MaxConnections}) <= MaxConnections
  /\ sim = "reported" =>
       /\ count.success + count.fail = Count
       /\ count.success >= MaxConnections \/ count.success = Count

\* Each browser sees the start, then rejections, then the report, of those
\* that reach it, although they come from as many goroutines.
Rank(e) == CASE e[1] = "start" -> 1 [] e[1] = "rejected" -> 2 [] e[1] = "report" -> 3
ReportIsLast ==
  \A c \in Client : \A i, j \in DOMAIN Given(c) :
    i < j => Rank(Given(c)[i]) <= Rank(Given(c)[j])
=============================================================================
