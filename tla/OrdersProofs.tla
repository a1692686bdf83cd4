---------------------------- MODULE OrdersProofs ----------------------------
(***************************************************************************)
(* OrdersAddUp for any number of requests, products and starts, any two    *)
(* timeouts, and every fault.                                              *)
(*                                                                         *)
(* The counters are the sizes of sets of requests, and each step of a      *)
(* handler moves its request from one of the sets to another just when it  *)
(* counts.  That a new process has none of them to count, although the     *)
(* answered requests of earlier ones are still there, is what life is for. *)
(***************************************************************************)
EXTENDS ObservedOrders, FiniteSetTheorems, TLAPS

\* The requests of this life that have an order.
Stored == At({"stored"}) \cup Numbers({"done", "counted", "answered"})

\* The requests whose product the product service has found and counted.
FoundOnce == {r \in Req : call[r] = "ok"}

Types ==
  /\ body \in [Req -> ProductID \cup {Malformed}]
  /\ process \in {"up", "draining", "down"} /\ drained \in 0..Grace /\ starts \in 0..MaxStarts
  /\ pc \in [Req -> Place] /\ age \in [Req -> 0..Timeout]
  /\ call \in [Req -> {"none", "sent", "found", "missing", "ok", "error", "dead"}]
  /\ status \in [Req -> Status \cup {0}] /\ number \in [Req -> 0..Cardinality(Req)]
  /\ life \in [Req -> 0..MaxStarts]
  /\ orderSeq \in Nat /\ created \in Nat /\ orders \in [1..orderSeq -> Req]
  /\ requests \in [Status -> Nat] /\ lookups \in [Status -> Nat]
  /\ productKilled \in BOOLEAN

\* A handler belongs to the process that runs, and no request to one to come.
LivesAreTrue ==
  \A r \in Req :
    /\ life[r] <= starts
    /\ pc[r] \in Handling \cup {"binding"} => process # "down" /\ life[r] = starts

\* Only who was given its product by the product service goes on to an order.
OrderedIsFound ==
  \A r \in Req :
    /\ pc[r] \in {"fetched", "stored"} \/ status[r] = 201 => call[r] = "ok"
    /\ status[r] = 201 => pc[r] \in {"done", "counted", "answered", "dropped", "killed"}
    /\ pc[r] = "done" => status[r] \in Status

NumbersAreOwn == \A r \in Stored : number[r] \in 1..orderSeq /\ orders[number[r]] = r

CountersAreTrue ==
  /\ orderSeq = Cardinality(Stored)
  /\ orderSeq = created + Cardinality(At({"stored"}))
  /\ created = requests[201] + Cardinality(Numbers({"done"}))

FoundIsCounted == ~productKilled => Cardinality(FoundOnce) <= lookups[200]

IInv ==
  /\ Types /\ LivesAreTrue /\ OrderedIsFound /\ FoundIsCounted
  /\ process # "down" => NumbersAreOwn /\ CountersAreTrue

-----------------------------------------------------------------------------
(***************************************************************************)
(* The sizes of sets of requests.                                          *)
(***************************************************************************)
Bit(b) == IF b THEN 1 ELSE 0

LEMMA ReqSets ==
  ASSUME NEW S \in SUBSET Req
  PROVE  IsFiniteSet(S) /\ Cardinality(S) \in Nat /\ Cardinality(S) <= Cardinality(Req)
         /\ Cardinality(Req) \in Nat
<1>1. IsFiniteSet(S) /\ Cardinality(S) <= Cardinality(Req)
  BY ReqAssumption, FS_Subset
<1>. QED BY <1>1, ReqAssumption, FS_CardinalityType

\* A set of requests that changes at one of them.
LEMMA Resized ==
  ASSUME NEW X \in SUBSET Req, NEW Y \in SUBSET Req, NEW r \in Req, Y \ {r} = X \ {r}
  PROVE  Cardinality(Y) = Cardinality(X) + Bit(r \in Y) - Bit(r \in X)
<1> DEFINE Z == X \ {r}
<1>1. /\ IsFiniteSet(Z) /\ Cardinality(Z) \in Nat
      /\ Cardinality(X) \in Nat /\ Cardinality(Y) \in Nat
  BY ReqSets, Z \in SUBSET Req
<1>2. Cardinality(Z \cup {r}) = Cardinality(Z) + 1
  BY <1>1, FS_AddElement
<1>3. X = (IF r \in X THEN Z \cup {r} ELSE Z) /\ Y = IF r \in Y THEN Z \cup {r} ELSE Z
  OBVIOUS
<1> HIDE DEF Z
<1>4. CASE r \in X /\ r \in Y
  <2>1. X = Y
    BY <1>3, <1>4
  <2>. QED BY <1>1, <1>4, <2>1 DEF Bit
<1>5. CASE r \in X /\ r \notin Y
  <2>1. X = Z \cup {r} /\ Y = Z
    BY <1>3, <1>5
  <2>. QED BY <1>1, <1>2, <1>5, <2>1 DEF Bit
<1>6. CASE r \notin X /\ r \in Y
  <2>1. Y = Z \cup {r} /\ X = Z
    BY <1>3, <1>6
  <2>. QED BY <1>1, <1>2, <1>6, <2>1 DEF Bit
<1>7. CASE r \notin X /\ r \notin Y
  <2>1. X = Y
    BY <1>3, <1>7
  <2>. QED BY <1>1, <1>7, <2>1 DEF Bit
<1>. QED BY <1>4, <1>5, <1>6, <1>7

-----------------------------------------------------------------------------
(***************************************************************************)
(* One request moves, in a process that goes on.                           *)
(***************************************************************************)
Only(r) ==
  /\ UNCHANGED <<starts, process>>
  /\ \A q \in Req \ {r} : /\ pc'[q] = pc[q] /\ status'[q] = status[q]
                         /\ life'[q] = life[q] /\ number'[q] = number[q]

LEMMA SetsAre ==
  /\ Stored \in SUBSET Req /\ Stored' \in SUBSET Req
  /\ At({"stored"}) \in SUBSET Req /\ At({"stored"})' \in SUBSET Req
  /\ Numbers({"done"}) \in SUBSET Req /\ Numbers({"done"})' \in SUBSET Req
  BY DEF Stored, At, Numbers

LEMMA SetsMove ==
  ASSUME NEW r \in Req, Only(r)
  PROVE  /\ Stored' \ {r} = Stored \ {r}
         /\ At({"stored"})' \ {r} = At({"stored"}) \ {r}
         /\ Numbers({"done"})' \ {r} = Numbers({"done"}) \ {r}
  BY DEF Only, Stored, At, Numbers

\* Whether a request is in one of the sets.
LEMMA MemberOf ==
  ASSUME NEW r \in Req
  PROVE  /\ r \in Stored <=> /\ life[r] = starts
                             /\ \/ pc[r] = "stored"
                                \/ pc[r] \in {"done", "counted", "answered"} /\ status[r] = 201
         /\ r \in At({"stored"}) <=> life[r] = starts /\ pc[r] = "stored"
         /\ r \in Numbers({"done"}) <=> life[r] = starts /\ pc[r] = "done" /\ status[r] = 201
  BY DEF Stored, At, Numbers

LEMMA MemberOfNext ==
  ASSUME NEW r \in Req
  PROVE  /\ r \in Stored' <=> /\ life'[r] = starts'
                              /\ \/ pc'[r] = "stored"
                                 \/ pc'[r] \in {"done", "counted", "answered"} /\ status'[r] = 201
         /\ r \in At({"stored"})' <=> life'[r] = starts' /\ pc'[r] = "stored"
         /\ r \in Numbers({"done"})' <=> life'[r] = starts' /\ pc'[r] = "done" /\ status'[r] = 201
  BY DEF Stored, At, Numbers

\* Two counters and the number of those between them, before and after a step.
LEMMA SumMoves ==
  ASSUME NEW c \in Int, NEW cc \in Int, NEW d \in Int, NEW dd \in Int,
         NEW n \in Int, NEW nn, NEW b \in Int, NEW bb \in Int,
         c = d + n, nn = n + bb - b, dd + bb + c = d + b + cc
  PROVE  cc = dd + nn
OBVIOUS

\* The counters move as the request does.
LEMMA CountersMove ==
  ASSUME Types, CountersAreTrue, NEW r \in Req, Only(r),
         orderSeq' = orderSeq + Bit(r \in Stored') - Bit(r \in Stored),
         created' + Bit(r \in At({"stored"})') + Bit(r \in Stored)
           = created + Bit(r \in At({"stored"})) + Bit(r \in Stored'),
         created' \in Nat,
         requests'[201] + Bit(r \in Numbers({"done"})') + created
           = requests[201] + Bit(r \in Numbers({"done"})) + created',
         requests'[201] \in Nat
  PROVE  CountersAreTrue'
<1>1. /\ Cardinality(Stored') = Cardinality(Stored) + Bit(r \in Stored') - Bit(r \in Stored)
      /\ Cardinality(At({"stored"})') = Cardinality(At({"stored"}))
            + Bit(r \in At({"stored"})') - Bit(r \in At({"stored"}))
      /\ Cardinality(Numbers({"done"})') = Cardinality(Numbers({"done"}))
            + Bit(r \in Numbers({"done"})') - Bit(r \in Numbers({"done"}))
  BY SetsMove, SetsAre, Resized
<1>2. /\ Cardinality(Stored) \in Nat /\ Cardinality(At({"stored"})) \in Nat
      /\ Cardinality(Numbers({"done"})) \in Nat
  BY SetsAre, ReqSets
<1>3. /\ Bit(r \in Stored) \in Int /\ Bit(r \in Stored') \in Int
      /\ Bit(r \in At({"stored"})) \in Int /\ Bit(r \in At({"stored"})') \in Int
      /\ Bit(r \in Numbers({"done"})) \in Int /\ Bit(r \in Numbers({"done"})') \in Int
  BY DEF Bit
<1>4. /\ created \in Int /\ orderSeq \in Int /\ created' \in Int /\ requests'[201] \in Int
      /\ requests[201] \in Int
  <2>1. 201 \in Status /\ requests \in [Status -> Nat] /\ created \in Nat /\ orderSeq \in Nat
    BY DEF Types, Status
  <2>. QED BY <2>1
<1>5. orderSeq' = Cardinality(Stored')
  BY <1>1, <1>2, <1>3 DEF CountersAreTrue
<1>6. orderSeq' = created' + Cardinality(At({"stored"})')
  BY <1>1, <1>2, <1>3, <1>4 DEF CountersAreTrue
<1>7. created' = requests'[201] + Cardinality(Numbers({"done"})')
  <2>1. PICK b \in Int, bb \in Int, n \in Int, nn \in Int :
          /\ b = Bit(r \in Numbers({"done"})) /\ bb = Bit(r \in Numbers({"done"})')
          /\ n = Cardinality(Numbers({"done"})) /\ nn = Cardinality(Numbers({"done"})')
    <3>1. /\ Cardinality(Numbers({"done"})) \in Int
          /\ Cardinality(Numbers({"done"})') \in Int
      BY SetsAre, ReqSets
    <3>. QED BY <1>3, <3>1
  <2>2. PICK c \in Int, cc \in Int, d \in Int, dd \in Int :
          c = created /\ cc = created' /\ d = requests[201] /\ dd = requests'[201]
    BY <1>4
  <2>3. c = d + n
    BY <2>1, <2>2 DEF CountersAreTrue
  <2>4. nn = n + bb - b
    BY <1>1, <2>1
  <2>5. dd + bb + c = d + b + cc
    BY <2>1, <2>2
  <2>6. cc = dd + nn
    BY <2>3, <2>4, <2>5, SumMoves
  <2>. QED BY <2>1, <2>2, <2>6
<1>. QED BY <1>5, <1>6, <1>7 DEF CountersAreTrue

\* A request that stays in each of the sets, or out of it, is counted nowhere.
LEMMA CalmKeeps ==
  ASSUME Types, NumbersAreOwn, CountersAreTrue, NEW r \in Req, Only(r),
         UNCHANGED <<orders, orderSeq, created, number>>, requests'[201] = requests[201],
         r \in Stored' <=> r \in Stored,
         r \in At({"stored"})' <=> r \in At({"stored"}),
         r \in Numbers({"done"})' <=> r \in Numbers({"done"})
  PROVE  NumbersAreOwn' /\ CountersAreTrue'
<1>1. /\ Stored' = Stored /\ At({"stored"})' = At({"stored"})
      /\ Numbers({"done"})' = Numbers({"done"})
  BY SetsMove, SetsAre
<1>. QED BY <1>1 DEF NumbersAreOwn, CountersAreTrue

RequestStep(r) == Post(r) \/ Bind(r) \/ Cancelled(r) \/ Handler(r)

\* Every step of a handler is one of its request, in a process that lives.
LEMMA RequestIsOnly ==
  ASSUME Types, LivesAreTrue, NEW r \in Req, RequestStep(r)
  PROVE  Only(r) /\ process # "down" /\ life'[r] = starts
<1>1. CASE Post(r)
  BY <1>1 DEF Post, Goes, Only, Types
<1>2. CASE Bind(r)
  BY <1>2 DEF Bind, Goes, Ends, Only, Types, LivesAreTrue
<1>3. CASE Cancelled(r)
  BY <1>3 DEF Cancelled, Goes, Ends, Only, Types, LivesAreTrue, Handling
<1>4. CASE Fetched(r) \/ NotFetched(r)
  BY <1>4 DEF Fetched, NotFetched, Goes, Ends, Only, Types, LivesAreTrue, Handling
<1>5. CASE Store(r)
  BY <1>5 DEF Store, Numbered, Goes, Only, Types, LivesAreTrue, Handling
<1>6. CASE CountOrder(r)
  BY <1>6 DEF CountOrder, Goes, Ends, Only, Types, LivesAreTrue, Handling
<1>7. CASE CountRequest(r) \/ Answer(r)
  BY <1>7 DEF CountRequest, Answer, Goes, Only, Types, LivesAreTrue, Handling
<1>. QED BY <1>1, <1>2, <1>3, <1>4, <1>5, <1>6, <1>7 DEF RequestStep, Handler

\* Before it has its order, and once it is counted, a request is calm.
LEMMA CalmActions ==
  ASSUME Types, LivesAreTrue, OrderedIsFound, NumbersAreOwn, CountersAreTrue, NEW r \in Req,
         \/ Post(r) \/ Bind(r) \/ Cancelled(r) \/ Fetched(r) \/ NotFetched(r) \/ Answer(r)
  PROVE  NumbersAreOwn' /\ CountersAreTrue'
<1>1. /\ Only(r) /\ process # "down" /\ life'[r] = starts /\ starts' = starts
      /\ UNCHANGED <<orders, orderSeq, created, number, requests>>
  <2>1. RequestStep(r)
    BY DEF RequestStep, Handler
  <2>. QED BY <2>1, RequestIsOnly DEF Only, Post, Bind, Cancelled, Fetched, NotFetched, Answer,
              storeVars
<1>2. CASE Answer(r)
  <2>1. pc[r] = "counted" /\ pc'[r] = "answered" /\ status'[r] = status[r] /\ life[r] = starts
    BY <1>2 DEF Answer, Goes, Types, LivesAreTrue, Handling
  <2>. QED BY <1>1, <2>1, MemberOf, MemberOfNext, CalmKeeps
<1>3. CASE \/ Post(r) \/ Bind(r) \/ Cancelled(r) \/ Fetched(r) \/ NotFetched(r)
  <2>1. /\ pc[r] \in {"idle", "binding", "fetching"}
        /\ \/ pc'[r] \in {"binding", "fetching", "fetched"}
           \/ pc'[r] = "done" /\ status'[r] # 201
    BY <1>3 DEF Post, Bind, Cancelled, Fetched, NotFetched, Goes, Ends, Types
  <2>. QED BY <1>1, <2>1, MemberOf, MemberOfNext, CalmKeeps
<1>. QED BY <1>2, <1>3

\* The section under ordersMu: one order more, under the next number.
LEMMA StoreAction ==
  ASSUME Types, LivesAreTrue, NumbersAreOwn, CountersAreTrue, NEW r \in Req, Store(r)
  PROVE  NumbersAreOwn' /\ CountersAreTrue'
<1>1. Only(r) /\ process # "down" /\ life'[r] = starts /\ starts' = starts
  BY RequestIsOnly DEF RequestStep, Handler, Only
<1>2. /\ pc[r] = "fetched" /\ pc'[r] = "stored" /\ number'[r] = orderSeq + 1
      /\ orderSeq' = orderSeq + 1 /\ created' = created /\ requests' = requests
      /\ orders' = [m \in DOMAIN orders \cup {orderSeq + 1} |->
                     IF m = orderSeq + 1 THEN r ELSE orders[m]]
  BY DEF Store, Numbered, Goes, Types
<1>3. DOMAIN orders = 1..orderSeq /\ orderSeq \in Nat /\ created \in Nat /\ requests[201] \in Nat
  BY DEF Types, Status
<1>4. /\ r \notin Stored /\ r \in Stored'
      /\ r \notin At({"stored"}) /\ r \in At({"stored"})'
      /\ r \notin Numbers({"done"}) /\ r \notin Numbers({"done"})'
  BY <1>1, <1>2, MemberOf, MemberOfNext
<1>5. NumbersAreOwn'
  <2>1. SUFFICES ASSUME NEW q \in Stored'
                 PROVE  number'[q] \in 1..orderSeq' /\ orders'[number'[q]] = q
    BY DEF NumbersAreOwn
  <2>2. CASE q = r
    BY <1>2, <1>3, <2>2
  <2>3. CASE q # r
    <3>1. q \in Stored /\ q \in Req
      BY <1>1, <2>3, SetsMove, SetsAre
    <3>2. number'[q] = number[q] /\ number[q] \in 1..orderSeq /\ orders[number[q]] = q
      BY <1>1, <2>3, <3>1 DEF Only, NumbersAreOwn
    <3>. QED BY <1>2, <1>3, <3>2
  <2>. QED BY <2>2, <2>3
<1>6. CountersAreTrue'
  <2>1. orderSeq' = orderSeq + Bit(r \in Stored') - Bit(r \in Stored)
    BY <1>2, <1>3, <1>4 DEF Bit
  <2>2. created' + Bit(r \in At({"stored"})') + Bit(r \in Stored)
           = created + Bit(r \in At({"stored"})) + Bit(r \in Stored')
    BY <1>2, <1>3, <1>4 DEF Bit
  <2>3. requests'[201] + Bit(r \in Numbers({"done"})') + created
           = requests[201] + Bit(r \in Numbers({"done"})) + created'
    BY <1>2, <1>3, <1>4 DEF Bit
  <2>. QED BY <1>1, <1>2, <1>3, <2>1, <2>2, <2>3, CountersMove
<1>. QED BY <1>5, <1>6

LEMMA CountOrderAction ==
  ASSUME Types, LivesAreTrue, NumbersAreOwn, CountersAreTrue, NEW r \in Req, CountOrder(r)
  PROVE  NumbersAreOwn' /\ CountersAreTrue'
<1>1. Only(r) /\ process # "down" /\ life'[r] = starts /\ starts' = starts
  BY RequestIsOnly DEF RequestStep, Handler, Only
<1>2. /\ pc[r] = "stored" /\ pc'[r] = "done" /\ status'[r] = 201 /\ life[r] = starts
      /\ orderSeq' = orderSeq /\ created' = created + 1 /\ requests' = requests
      /\ orders' = orders /\ number' = number
  BY DEF CountOrder, Ends, Goes, Types, LivesAreTrue, Handling
<1>3. orderSeq \in Nat /\ created \in Nat /\ requests[201] \in Nat
  BY DEF Types, Status
<1>4. /\ r \in Stored /\ r \in Stored'
      /\ r \in At({"stored"}) /\ r \notin At({"stored"})'
      /\ r \notin Numbers({"done"}) /\ r \in Numbers({"done"})'
  BY <1>1, <1>2, MemberOf, MemberOfNext
<1>5. NumbersAreOwn'
  <2>1. Stored' = Stored
    BY <1>1, <1>4, SetsMove
  <2>. QED BY <1>2, <2>1 DEF NumbersAreOwn
<1>6. CountersAreTrue'
  <2>1. orderSeq' = orderSeq + Bit(r \in Stored') - Bit(r \in Stored)
    BY <1>2, <1>3, <1>4 DEF Bit
  <2>2. created' + Bit(r \in At({"stored"})') + Bit(r \in Stored)
           = created + Bit(r \in At({"stored"})) + Bit(r \in Stored')
    BY <1>2, <1>3, <1>4 DEF Bit
  <2>3. requests'[201] + Bit(r \in Numbers({"done"})') + created
           = requests[201] + Bit(r \in Numbers({"done"})) + created'
    BY <1>2, <1>3, <1>4 DEF Bit
  <2>. QED BY <1>1, <1>2, <1>3, <2>1, <2>2, <2>3, CountersMove
<1>. QED BY <1>5, <1>6

\* The middleware counts the status the handler has left.
LEMMA CountRequestAction ==
  ASSUME Types, LivesAreTrue, OrderedIsFound, NumbersAreOwn, CountersAreTrue, NEW r \in Req,
         CountRequest(r)
  PROVE  NumbersAreOwn' /\ CountersAreTrue'
<1>1. Only(r) /\ process # "down" /\ life'[r] = starts /\ starts' = starts
  BY RequestIsOnly DEF RequestStep, Handler, Only
<1>2. /\ pc[r] = "done" /\ pc'[r] = "counted" /\ status'[r] = status[r] /\ life[r] = starts
      /\ orderSeq' = orderSeq /\ created' = created /\ orders' = orders /\ number' = number
      /\ status[r] \in Status
      /\ requests' = [requests EXCEPT ![status[r]] = @ + 1]
  BY DEF CountRequest, Goes, Types, LivesAreTrue, Handling, OrderedIsFound, storeVars
<1>3. /\ orderSeq \in Nat /\ created \in Nat /\ requests[201] \in Nat /\ 201 \in Status
      /\ requests \in [Status -> Nat]
  BY DEF Types, Status
<1>4. /\ r \in Stored' <=> r \in Stored
      /\ r \notin At({"stored"}) /\ r \notin At({"stored"})'
      /\ r \in Numbers({"done"}) <=> status[r] = 201
      /\ r \notin Numbers({"done"})'
  BY <1>1, <1>2, MemberOf, MemberOfNext
<1>5. NumbersAreOwn'
  <2>1. Stored' = Stored
    BY <1>1, <1>4, SetsMove, SetsAre
  <2>. QED BY <1>2, <2>1 DEF NumbersAreOwn
<1>6. CountersAreTrue'
  <2>1. orderSeq' = orderSeq + Bit(r \in Stored') - Bit(r \in Stored)
    BY <1>2, <1>3, <1>4 DEF Bit
  <2>2. created' + Bit(r \in At({"stored"})') + Bit(r \in Stored)
           = created + Bit(r \in At({"stored"})) + Bit(r \in Stored')
    BY <1>2, <1>3, <1>4 DEF Bit
  <2>3. CASE status[r] = 201
    <3>1. requests'[201] = requests[201] + 1
      BY <1>2, <1>3, <2>3
    <3>2. Bit(r \in Numbers({"done"})') = 0 /\ Bit(r \in Numbers({"done"})) = 1
      BY <1>4, <2>3 DEF Bit
    <3>3. requests'[201] + Bit(r \in Numbers({"done"})') + created
             = requests[201] + Bit(r \in Numbers({"done"})) + created'
      BY <1>2, <1>3, <3>1, <3>2
    <3>. QED BY <1>1, <1>2, <1>3, <2>1, <2>2, <3>1, <3>3, CountersMove
  <2>4. CASE status[r] # 201
    <3>1. requests'[201] = requests[201]
      BY <1>2, <1>3, <2>4
    <3>2. Bit(r \in Numbers({"done"})') = 0 /\ Bit(r \in Numbers({"done"})) = 0
      BY <1>4, <2>4 DEF Bit
    <3>3. requests'[201] + Bit(r \in Numbers({"done"})') + created
             = requests[201] + Bit(r \in Numbers({"done"})) + created'
      BY <1>2, <1>3, <3>1, <3>2
    <3>. QED BY <1>1, <1>2, <1>3, <2>1, <2>2, <3>1, <3>3, CountersMove
  <2>. QED BY <2>3, <2>4
<1>. QED BY <1>5, <1>6

-----------------------------------------------------------------------------
(***************************************************************************)
(* The inductive invariant.                                                *)
(***************************************************************************)
LEMMA CountersStep ==
  ASSUME IInv, Next, process' # "down"
  PROVE  NumbersAreOwn' /\ CountersAreTrue'
<1>1. Types /\ LivesAreTrue /\ OrderedIsFound
  BY DEF IInv
<1>2. ASSUME NEW r \in Req, RequestStep(r)
      PROVE  NumbersAreOwn' /\ CountersAreTrue'
  <2>1. NumbersAreOwn /\ CountersAreTrue
    BY <1>1, <1>2, RequestIsOnly DEF IInv
  <2>. QED BY <1>1, <1>2, <2>1, CalmActions, StoreAction, CountOrderAction, CountRequestAction
           DEF RequestStep, Handler
<1>3. CASE Boot
  <2>1. /\ starts \in Nat /\ starts' = starts + 1 /\ life' = life /\ process' = "up"
        /\ life \in [Req -> Nat]
    BY <1>1, <1>3, BoundAssumption DEF Boot, Types
  <2>2. \A r \in Req : life'[r] # starts'
    BY <1>1, <2>1 DEF LivesAreTrue
  <2>3. At({"stored"})' = {} /\ Numbers({"done"})' = {} /\ Stored' = {}
    BY <2>2 DEF At, Numbers, Stored
  <2>4. orderSeq' = 0 /\ created' = 0 /\ requests'[201] = 0
    BY <1>3 DEF Boot, Zero, Status
  <2>5. Cardinality({}) = 0
    BY FS_EmptySet
  <2>. QED BY <2>3, <2>4, <2>5 DEF NumbersAreOwn, CountersAreTrue
<1>4. CASE ProductService \/ Signal \/ Tick
  <2>1. /\ UNCHANGED <<pc, status, life, starts, number, orders, orderSeq, created, requests>>
        /\ process # "down"
    BY <1>4 DEF ProductService, KillProduct, LookUp, CountLookup, Calls, Signal, Tick, orderVars,
                storeVars
  <2>2. NumbersAreOwn /\ CountersAreTrue
    BY <2>1 DEF IInv
  <2>3. Stored' = Stored /\ At({"stored"})' = At({"stored"}) /\ Numbers({"done"})' = Numbers({"done"})
    BY <2>1 DEF Stored, At, Numbers
  <2>. QED BY <2>1, <2>2, <2>3 DEF NumbersAreOwn, CountersAreTrue
<1>5. CASE Exit \/ Kill
  BY <1>5 DEF Exit, Kill, Down
<1>. QED BY <1>2, <1>3, <1>4, <1>5 DEF Next, RequestStep

LEMMA LivesStep ==
  ASSUME IInv, Next
  PROVE  LivesAreTrue'
<1>1. Types /\ LivesAreTrue /\ starts \in Nat /\ life \in [Req -> Nat]
  BY BoundAssumption DEF IInv, Types
<1>2. ASSUME NEW r \in Req, RequestStep(r)
      PROVE  LivesAreTrue'
  <2>1. Only(r) /\ process # "down" /\ life'[r] = starts
    BY <1>1, <1>2, RequestIsOnly
  <2>. QED BY <1>1, <2>1 DEF Only, LivesAreTrue
<1>3. CASE Boot
  BY <1>1, <1>3 DEF Boot, LivesAreTrue
<1>4. CASE ProductService \/ Signal \/ Tick
  BY <1>1, <1>4 DEF ProductService, KillProduct, LookUp, CountLookup, Calls, Signal, Tick, orderVars,
                    LivesAreTrue
<1>5. CASE Exit \/ Kill
  <2>1. \A r \in Req : pc'[r] \notin Handling \cup {"binding"}
    BY <1>5 DEF Exit, Kill, Down, Handling
  <2>2. life' = life /\ starts' = starts
    BY <1>5 DEF Exit, Kill, Down
  <2>. QED BY <1>1, <2>1, <2>2 DEF LivesAreTrue
<1>. QED BY <1>2, <1>3, <1>4, <1>5 DEF Next, RequestStep

LEMMA OrderedStep ==
  ASSUME IInv, Next
  PROVE  OrderedIsFound'
<1>1. Types /\ OrderedIsFound
  BY DEF IInv
<1>2. ASSUME NEW r \in Req, RequestStep(r)
      PROVE  OrderedIsFound'
  <2>1. /\ pc \in [Req -> Place] /\ status \in [Req -> Status \cup {0}] /\ call \in [Req ->
             {"none", "sent", "found", "missing", "ok", "error", "dead"}]
        /\ {201, 400, 500} \subseteq Status
    BY <1>1 DEF Types, Status
  <2>2. \A q \in Req \ {r} : pc'[q] = pc[q] /\ status'[q] = status[q] /\ call'[q] = call[q]
    <3>1. \A q \in Req \ {r} : call'[q] = call[q]
      BY <1>2, <2>1 DEF RequestStep, Handler, Post, Bind, Cancelled, Fetched, NotFetched, Store,
           Numbered, CountOrder, CountRequest, Answer, productVars
    <3>. QED BY <1>1, <1>2, <3>1, RequestIsOnly DEF Only, IInv
  <2>3. /\ pc[r] \in {"fetched", "stored"} \/ status[r] = 201 => call[r] = "ok"
        /\ status[r] = 201 => pc[r] \in {"done", "counted", "answered", "dropped", "killed"}
        /\ pc[r] = "done" => status[r] \in Status
    BY <1>1 DEF OrderedIsFound
  <2>4. /\ pc'[r] \in {"fetched", "stored"} \/ status'[r] = 201 => call'[r] = "ok"
        /\ status'[r] = 201 => pc'[r] \in {"done", "counted", "answered", "dropped", "killed"}
        /\ pc'[r] = "done" => status'[r] \in Status
    <3>1. CASE Post(r)
      BY <2>1, <2>3, <3>1 DEF Post, Goes, productVars
    <3>2. CASE Bind(r)
      BY <2>1, <2>3, <3>2 DEF Bind, Ends, Goes
    <3>3. CASE Cancelled(r) \/ NotFetched(r)
      BY <2>1, <2>3, <3>3 DEF Cancelled, NotFetched, Ends, Goes, productVars
    <3>4. CASE Fetched(r)
      BY <2>1, <2>3, <3>4 DEF Fetched, Goes, productVars
    <3>5. CASE Store(r)
      BY <2>1, <2>3, <3>5 DEF Store, Numbered, Goes, productVars
    <3>6. CASE CountOrder(r)
      BY <2>1, <2>3, <3>6 DEF CountOrder, Ends, Goes, productVars
    <3>7. CASE CountRequest(r) \/ Answer(r)
      BY <2>1, <2>3, <3>7 DEF CountRequest, Answer, Goes, productVars
    <3>. QED BY <1>2, <3>1, <3>2, <3>3, <3>4, <3>5, <3>6, <3>7 DEF RequestStep, Handler
  <2>5. SUFFICES ASSUME NEW q \in Req
                 PROVE  (/\ pc[q] \in {"fetched", "stored"} \/ status[q] = 201 => call[q] = "ok"
                         /\ status[q] = 201
                              => pc[q] \in {"done", "counted", "answered", "dropped", "killed"}
                         /\ pc[q] = "done" => status[q] \in Status)'
    BY DEF OrderedIsFound
  <2>6. CASE q = r
    BY <2>4, <2>6
  <2>7. CASE q # r
    BY <1>1, <2>2, <2>7 DEF OrderedIsFound
  <2>. QED BY <2>6, <2>7
<1>3. CASE ProductService
  <2>1. UNCHANGED <<pc, status>> /\ \A r \in Req : call[r] = "ok" => call'[r] = "ok"
    BY <1>1, <1>3 DEF ProductService, KillProduct, LookUp, CountLookup, Calls, orderVars, Types
  <2>. QED BY <1>1, <2>1 DEF OrderedIsFound
<1>4. CASE Boot \/ Signal \/ Tick
  BY <1>1, <1>4 DEF Boot, Signal, Tick, OrderedIsFound, orderVars, productVars
<1>5. CASE Exit \/ Kill
  <2>1. \A r \in Req : pc'[r] = pc[r] \/ pc'[r] \in {"dropped", "unread", "killed"}
    BY <1>5 DEF Exit, Kill, Down
  <2>2. \A r \in Req : pc'[r] = "unread" => pc[r] \in {"binding", "unread"}
    BY <1>5 DEF Exit, Kill, Down
  <2>3. status' = status /\ call' = call
    BY <1>5 DEF Exit, Kill, Down, productVars
  <2>. QED BY <1>1, <2>1, <2>2, <2>3 DEF OrderedIsFound
<1>. QED BY <1>2, <1>3, <1>4, <1>5 DEF Next, RequestStep

\* A product is counted when it is handed out, and once.
LEMMA FoundStep ==
  ASSUME IInv, Next
  PROVE  FoundIsCounted'
<1>1. Types /\ FoundIsCounted /\ FoundOnce \in SUBSET Req /\ FoundOnce' \in SUBSET Req
  BY DEF IInv, FoundOnce
<1>2. /\ Cardinality(FoundOnce) \in Nat /\ Cardinality(FoundOnce') \in Nat
      /\ IsFiniteSet(FoundOnce)
  BY <1>1, ReqSets
<1>3. lookups[200] \in Nat /\ lookups \in [Status -> Nat] /\ 200 \in Status /\ 404 \in Status
  BY <1>1 DEF Types, Status
<1>4. SUFFICES ASSUME FoundOnce' \in SUBSET FoundOnce, UNCHANGED <<lookups, productKilled>>
               PROVE  FoundIsCounted'
  <2>1. ASSUME NEW r \in Req, RequestStep(r)
        PROVE  FoundOnce' \in SUBSET FoundOnce /\ UNCHANGED <<lookups, productKilled>>
    BY <1>1, <2>1 DEF RequestStep, Handler, Post, Bind, Cancelled, Fetched, NotFetched, Store,
         Numbered, CountOrder, CountRequest, Answer, FoundOnce, Types, productVars
  <2>2. CASE Boot \/ Signal \/ Tick \/ Exit \/ Kill
    <3>1. UNCHANGED <<call, lookups, productKilled>>
      BY <2>2 DEF Boot, Signal, Tick, Exit, Kill, Down, productVars
    <3>. QED BY <1>4, <3>1 DEF FoundOnce
  <2>3. CASE KillProduct
    BY <2>3 DEF KillProduct, FoundIsCounted
  <2>4. ASSUME NEW r \in Req, LookUp(r)
        PROVE  FoundOnce' \in SUBSET FoundOnce /\ UNCHANGED <<lookups, productKilled>>
    BY <1>1, <2>4 DEF LookUp, Calls, FoundOnce, Types
  <2>5. ASSUME NEW r \in Req, CountLookup(r)
        PROVE  FoundIsCounted'
    <3>1. CASE Calls(r, "found", "ok") /\ lookups' = [lookups EXCEPT ![200] = @ + 1]
      <4>1. FoundOnce' = FoundOnce \cup {r} /\ r \notin FoundOnce
        BY <1>1, <3>1 DEF Calls, FoundOnce, Types
      <4>2. Cardinality(FoundOnce') = Cardinality(FoundOnce) + 1
        BY <1>2, <4>1, FS_AddElement
      <4>3. lookups'[200] = lookups[200] + 1 /\ productKilled' = productKilled
        BY <1>3, <2>5, <3>1 DEF CountLookup
      <4>. QED BY <1>1, <1>2, <1>3, <4>2, <4>3 DEF FoundIsCounted
    <3>2. CASE Calls(r, "missing", "error") /\ lookups' = [lookups EXCEPT ![404] = @ + 1]
      <4>1. FoundOnce' = FoundOnce
        BY <1>1, <3>2 DEF Calls, FoundOnce, Types
      <4>2. lookups'[200] = lookups[200] /\ productKilled' = productKilled
        BY <1>3, <2>5, <3>2 DEF CountLookup
      <4>. QED BY <1>1, <4>1, <4>2 DEF FoundIsCounted
    <3>. QED BY <2>5, <3>1, <3>2 DEF CountLookup
  <2>. QED BY <1>4, <2>1, <2>2, <2>3, <2>4, <2>5 DEF Next, RequestStep, ProductService
<1>5. Cardinality(FoundOnce') <= Cardinality(FoundOnce)
  BY <1>2, <1>4, FS_Subset
<1>. QED BY <1>1, <1>2, <1>3, <1>4, <1>5 DEF FoundIsCounted

\* There are never more orders than requests to make them.
LEMMA NumberFits ==
  ASSUME IInv, NEW r \in Req, Store(r)
  PROVE  orderSeq + 1 \in 0..Cardinality(Req)
<1>1. Types /\ LivesAreTrue
  BY DEF IInv
<1>2. Only(r) /\ process # "down" /\ life'[r] = starts /\ starts' = starts
  BY <1>1, RequestIsOnly DEF RequestStep, Handler, Only
<1>3. orderSeq = Cardinality(Stored) /\ orderSeq \in Nat
  BY <1>1, <1>2 DEF IInv, CountersAreTrue, Types
<1>4. pc[r] = "fetched" /\ pc'[r] = "stored"
  BY <1>1 DEF Store, Numbered, Goes, Types
<1>5. r \notin Stored
  BY <1>4, MemberOf
<1>6. Cardinality(Stored \cup {r}) = Cardinality(Stored) + 1
  BY <1>5, SetsAre, ReqSets, FS_AddElement
<1>7. Stored \cup {r} \in SUBSET Req
  BY SetsAre
<1>8. Cardinality(Stored \cup {r}) <= Cardinality(Req) /\ Cardinality(Req) \in Nat
  BY <1>7, ReqSets
<1>. QED BY <1>3, <1>6, <1>8

\* A new process has stored nothing.
LEMMA NoOrders == <<>> \in [1..0 -> Req]
OBVIOUS

LEMMA TypesStep ==
  ASSUME IInv, Next
  PROVE  Types'
<1>1. Types
  BY DEF IInv
<1>2. ASSUME NEW r \in Req, RequestStep(r)
      PROVE  Types'
  <2>1. /\ pc \in [Req -> Place] /\ status \in [Req -> Status \cup {0}]
        /\ number \in [Req -> 0..Cardinality(Req)] /\ life \in [Req -> 0..MaxStarts]
        /\ call \in [Req -> {"none", "sent", "found", "missing", "ok", "error", "dead"}]
        /\ {201, 400, 500} \subseteq Status /\ starts \in 0..MaxStarts
    BY <1>1 DEF Types, Status
  <2>2. UNCHANGED <<body, process, drained, starts, age, lookups, productKilled>>
    BY <1>2 DEF RequestStep, Handler, Post, Bind, Cancelled, Fetched, NotFetched, Store, Numbered,
                CountOrder, CountRequest, Answer, clocks, productVars
  <2>3. pc' \in [Req -> Place]
    <3>1. PICK p \in Place : pc' = [pc EXCEPT ![r] = p]
      BY <1>2 DEF RequestStep, Handler, Post, Bind, Cancelled, Fetched, NotFetched, Store, Numbered,
                  CountOrder, CountRequest, Answer, Goes, Ends, Place, Handling
    <3>. QED BY <2>1, <3>1
  <2>4. /\ status' \in [Req -> Status \cup {0}] /\ life' \in [Req -> 0..MaxStarts]
        /\ call' \in [Req -> {"none", "sent", "found", "missing", "ok", "error", "dead"}]
    <3>1. \/ status' = status \/ \E t \in Status : status' = [status EXCEPT ![r] = t]
      BY <1>2, <2>1 DEF RequestStep, Handler, Post, Bind, Cancelled, Fetched, NotFetched, Store,
                  Numbered, CountOrder, CountRequest, Answer, Ends
    <3>2. life' = life \/ life' = [life EXCEPT ![r] = starts]
      BY <1>2 DEF RequestStep, Handler, Post, Bind, Cancelled, Fetched, NotFetched, Store, Numbered,
                  CountOrder, CountRequest, Answer
    <3>3. call' = call \/ call' = [call EXCEPT ![r] = "sent"]
      BY <1>2 DEF RequestStep, Handler, Post, Bind, Cancelled, Fetched, NotFetched, Store, Numbered,
                  CountOrder, CountRequest, Answer, productVars
    <3>4. status' \in [Req -> Status \cup {0}]
      BY <2>1, <3>1
    <3>5. life' \in [Req -> 0..MaxStarts]
      BY <2>1, <3>2
    <3>. QED BY <2>1, <3>3, <3>4, <3>5
  <2>5. /\ number' \in [Req -> 0..Cardinality(Req)] /\ orders' \in [1..orderSeq' -> Req]
        /\ orderSeq' \in Nat
    <3>1. CASE Store(r)
      <4>1. orderSeq + 1 \in 0..Cardinality(Req)
        BY <3>1, NumberFits
      <4>2. orders' \in [1..orderSeq' -> Req] /\ orderSeq' \in Nat
        BY <1>1, <3>1 DEF Store, Numbered, Types
      <4>3. number' = [number EXCEPT ![r] = orderSeq + 1]
        BY <3>1 DEF Store, Numbered
      <4>. QED BY <2>1, <4>1, <4>2, <4>3
    <3>2. CASE ~Store(r)
      <4>1. UNCHANGED <<number, orders, orderSeq>>
        BY <1>2, <3>2 DEF RequestStep, Handler, Post, Bind, Cancelled, Fetched, NotFetched,
                    CountOrder, CountRequest, Answer, storeVars
      <4>. QED BY <1>1, <4>1 DEF Types
    <3>. QED BY <3>1, <3>2
  <2>6. created' \in Nat
    <3>1. created' = created \/ created' = created + 1
      BY <1>2 DEF RequestStep, Handler, Post, Bind, Cancelled, Fetched, NotFetched, Store, Numbered,
                  CountOrder, CountRequest, Answer, storeVars
    <3>. QED BY <1>1, <3>1 DEF Types
  <2>7. requests' \in [Status -> Nat]
    <3>1. requests \in [Status -> Nat]
      BY <1>1 DEF Types
    <3>2. CASE CountRequest(r)
      <4>1. status[r] \in Status
        BY <3>2 DEF IInv, OrderedIsFound, CountRequest, Goes
      <4>. QED BY <3>1, <3>2, <4>1 DEF CountRequest
    <3>3. CASE ~CountRequest(r)
      BY <1>2, <3>1, <3>3 DEF RequestStep, Handler, Post, Bind, Cancelled, Fetched, NotFetched,
                  Store, Numbered, CountOrder, Answer
    <3>. QED BY <3>2, <3>3
  <2>. QED BY <1>1, <2>2, <2>3, <2>4, <2>5, <2>6, <2>7 DEF Types
<1>3. CASE ProductService
  <2>1. /\ call' \in [Req -> {"none", "sent", "found", "missing", "ok", "error", "dead"}]
        /\ lookups' \in [Status -> Nat] /\ productKilled' \in BOOLEAN
    <3>1. {200, 404} \subseteq Status /\ lookups \in [Status -> Nat] /\ productKilled \in BOOLEAN
          /\ call \in [Req -> {"none", "sent", "found", "missing", "ok", "error", "dead"}]
      BY <1>1 DEF Types, Status
    <3>2. CASE KillProduct
      BY <3>1, <3>2 DEF KillProduct, Zero
    <3>3. ASSUME NEW r \in Req, LookUp(r) \/ CountLookup(r)
          PROVE  /\ call' \in [Req ->
                       {"none", "sent", "found", "missing", "ok", "error", "dead"}]
                 /\ lookups' \in [Status -> Nat] /\ productKilled' \in BOOLEAN
      <4>1. call' \in [Req -> {"none", "sent", "found", "missing", "ok", "error", "dead"}]
        BY <3>1, <3>3 DEF LookUp, CountLookup, Calls
      <4>2. lookups' \in [Status -> Nat] /\ productKilled' = productKilled
        BY <3>1, <3>3 DEF LookUp, CountLookup
      <4>. QED BY <3>1, <4>1, <4>2
    <3>. QED BY <1>3, <3>2, <3>3 DEF ProductService
  <2>2. UNCHANGED <<body, clocks, orderVars, storeVars>>
    BY <1>3 DEF ProductService, KillProduct, LookUp, CountLookup, Calls
  <2>. QED BY <1>1, <2>1, <2>2 DEF Types, clocks, orderVars, storeVars
<1>4. CASE Boot
  <2>1. starts' \in 0..MaxStarts /\ process' = "up"
    BY <1>1, <1>4, BoundAssumption DEF Boot, Types
  <2>2. orders' \in [1..orderSeq' -> Req] /\ orderSeq' \in Nat /\ created' \in Nat
    <3>1. orderSeq' = 0 /\ created' = 0 /\ orders' = <<>>
      BY <1>4 DEF Boot
    <3>. QED BY <3>1, NoOrders
  <2>3. requests' \in [Status -> Nat]
    BY <1>4 DEF Boot, Zero
  <2>4. UNCHANGED <<body, drained, age, pc, status, number, life, call, lookups, productKilled>>
    BY <1>4 DEF Boot, clocks, productVars
  <2>. QED BY <1>1, <2>1, <2>2, <2>3, <2>4 DEF Types
<1>5. CASE Signal
  <2>1. drained' \in 0..Grace
    BY <1>5, TimeAssumption DEF Signal
  <2>. QED BY <1>1, <1>5, <2>1 DEF Signal, Types, storeVars, productVars
<1>6. CASE Exit \/ Kill
  <2>1. pc' \in [Req -> Place] /\ process' = "down"
    BY <1>1, <1>6 DEF Exit, Kill, Down, Types, Place, Handling
  <2>2. UNCHANGED <<body, clocks, starts, status, number, life, requests, storeVars, productVars>>
    BY <1>6 DEF Exit, Kill, Down
  <2>. QED BY <1>1, <2>1, <2>2 DEF Types, clocks, storeVars, productVars
<1>7. CASE Tick
  <2>1. drained' \in 0..Grace
    BY <1>1, <1>7, TimeAssumption DEF Tick, Types, Expired
  <2>2. age' \in [Req -> 0..Timeout]
    BY <1>1, <1>7, TimeAssumption DEF Tick, Types
  <2>. QED BY <1>1, <1>7, <2>1, <2>2 DEF Tick, Types, orderVars, storeVars, productVars
<1>. QED BY <1>2, <1>3, <1>4, <1>5, <1>6, <1>7 DEF Next, RequestStep

LEMMA InitInv == Init => IInv
<1> SUFFICES ASSUME Init PROVE IInv
  OBVIOUS
<1>2. Cardinality(Req) \in Nat /\ Cardinality({}) = 0
  BY ReqAssumption, FS_CardinalityType, FS_EmptySet
<1>3. /\ pc = [r \in Req |-> "idle"] /\ age = [r \in Req |-> 0] /\ number = age /\ life = age
      /\ status = age /\ call = [r \in Req |-> "none"]
  BY DEF Init
<1>4. /\ body \in [Req -> ProductID \cup {Malformed}]
      /\ process = "down" /\ drained = 0 /\ starts = 0 /\ orderSeq = 0 /\ created = 0
      /\ requests = Zero /\ lookups = Zero /\ productKilled = FALSE
  BY DEF Init
<1>5. orders \in [1..orderSeq -> Req]
  BY <1>4, NoOrders DEF Init
<1>6. Types
  <2>1. 0 \in 0..MaxStarts /\ 0 \in 0..Grace /\ 0 \in 0..Timeout /\ 0 \in 0..Cardinality(Req)
    BY <1>2, TimeAssumption, BoundAssumption
  <2>2. /\ pc \in [Req -> Place]
        /\ call \in [Req -> {"none", "sent", "found", "missing", "ok", "error", "dead"}]
    BY <1>3 DEF Place
  <2>3. /\ age \in [Req -> 0..Timeout] /\ status \in [Req -> Status \cup {0}]
        /\ number \in [Req -> 0..Cardinality(Req)] /\ life \in [Req -> 0..MaxStarts]
    BY <1>3, <2>1
  <2>4. requests \in [Status -> Nat] /\ lookups \in [Status -> Nat]
    BY <1>4 DEF Zero
  <2>. QED BY <1>4, <1>5, <2>1, <2>2, <2>3, <2>4 DEF Types
<1>7. LivesAreTrue /\ OrderedIsFound
  BY <1>3, <1>4 DEF LivesAreTrue, OrderedIsFound, Handling
<1>8. FoundOnce = {} /\ lookups[200] = 0
  BY <1>3, <1>4 DEF FoundOnce, Zero, Status
<1>9. FoundIsCounted
  BY <1>2, <1>8 DEF FoundIsCounted
<1>. QED BY <1>4, <1>6, <1>7, <1>9 DEF IInv

LEMMA NextInv == IInv /\ [Next]_vars => IInv'
<1> SUFFICES ASSUME IInv, [Next]_vars PROVE IInv'
  OBVIOUS
<1>2. CASE Next
  <2>1. Types' /\ LivesAreTrue' /\ OrderedIsFound' /\ FoundIsCounted'
    BY <1>2, TypesStep, LivesStep, OrderedStep, FoundStep
  <2>2. process' # "down" => NumbersAreOwn' /\ CountersAreTrue'
    BY <1>2, CountersStep
  <2>. QED BY <2>1, <2>2 DEF IInv
<1>3. CASE UNCHANGED vars
  <2>1. UNCHANGED <<body, process, drained, starts, pc, age, call, status, number, life, orders,
                    orderSeq, created, requests, lookups, productKilled>>
    BY <1>3 DEF vars, clocks, orderVars, storeVars, productVars
  <2>2. /\ Stored' = Stored /\ At({"stored"})' = At({"stored"})
        /\ Numbers({"done"})' = Numbers({"done"}) /\ FoundOnce' = FoundOnce
    BY <2>1 DEF Stored, At, Numbers, FoundOnce
  <2>3. Types' /\ LivesAreTrue' /\ OrderedIsFound' /\ FoundIsCounted'
    BY <2>1, <2>2 DEF IInv, Types, LivesAreTrue, OrderedIsFound, FoundIsCounted
  <2>4. process' # "down" => NumbersAreOwn' /\ CountersAreTrue'
    BY <2>1, <2>2 DEF IInv, NumbersAreOwn, CountersAreTrue
  <2>. QED BY <2>3, <2>4 DEF IInv
<1>. QED BY <1>2, <1>3

\* The counters, the numbers and the requests agree at every step.
THEOREM Invariance == Spec => []IInv
<1>. QED BY InitInv, NextInv, PTL DEF Spec

\* Every variable has its type; no order has a number beyond the number of
\* requests, although the service may be started again and again.
THEOREM TypeCorrect == Spec => []TypeOK
<1>1. ASSUME IInv PROVE TypeOK
  <2>1. Types
    BY <1>1 DEF IInv
  <2>2. DOMAIN orders = 1..orderSeq /\ orderSeq \in Nat
    BY <2>1 DEF Types
  <2>3. Cardinality(DOMAIN orders) = orderSeq
    BY <2>2, FS_Interval
  <2>. QED BY <2>1, <2>3 DEF Types, TypeOK
<1>. QED BY <1>1, Invariance, PTL

\* While the order service lives, its orders, their numbers and its counters
\* agree, and the product service has counted at least as many products found.
THEOREM OrdersAddUpHolds == Spec => []OrdersAddUp
<1>1. ASSUME IInv PROVE OrdersAddUp
  <2>1. SUFFICES ASSUME process # "down" PROVE OrdersAddUp
    BY DEF OrdersAddUp
  <2>2. /\ Types /\ OrderedIsFound /\ FoundIsCounted /\ NumbersAreOwn /\ CountersAreTrue
        /\ DOMAIN orders = 1..orderSeq
    BY <1>1, <2>1 DEF IInv, Types
  <2>3. ~productKilled => orderSeq <= lookups[200]
    <3>1. Stored \in SUBSET FoundOnce /\ FoundOnce \in SUBSET Req
      BY <2>2, SetsAre DEF OrderedIsFound, Stored, At, Numbers, FoundOnce
    <3>2. IsFiniteSet(FoundOnce) /\ Cardinality(FoundOnce) \in Nat
      BY <3>1, ReqSets
    <3>3. Cardinality(Stored) <= Cardinality(FoundOnce) /\ Cardinality(Stored) \in Nat
      BY <3>1, <3>2, SetsAre, ReqSets, FS_Subset
    <3>4. lookups[200] \in Nat
      BY <2>2 DEF Types, Status
    <3>. QED BY <2>2, <3>2, <3>3, <3>4 DEF CountersAreTrue, FoundIsCounted
  <2>. QED BY <2>2, <2>3 DEF OrdersAddUp, NumbersAreOwn, CountersAreTrue, Stored
<1>. QED BY <1>1, Invariance, PTL
=============================================================================
