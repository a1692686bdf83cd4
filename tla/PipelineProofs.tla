--------------------------- MODULE PipelineProofs ---------------------------
(***************************************************************************)
(* What holds of the pipeline for any number of workers, partitions, keys  *)
(* and events, any number of changes and kills, and with or without        *)
(* failing requests.                                                       *)
(*                                                                         *)
(* The argument is about one partition at a time: how far each reader has  *)
(* been given it, where the group has been sent back to, and who has which *)
(* event in hand.  A reader returns an event only to empty hands; that is  *)
(* what makes an offset put aside, or committed, speak for all the events  *)
(* below it.  A reader outside a generation can be behind the group, and   *)
(* the group behind it: the order and the uniqueness hold as long as such  *)
(* a reader's commit has not taken the offset back.                        *)
(***************************************************************************)
EXTENDS EventPipeline, TLAPS

HasInHand(w, p, o) == hand[w] # None /\ hand[w].of = p /\ hand[w].offset = o
Done(p, o)         == <<p, o>> \in handled
Seen(p, o)         == Done(p, o) \/ \E w \in Worker : HasInHand(w, p, o)
Accounted(p, o)    == Seen(p, o) \/ <<p, o>> \in lost

\* w's reader fetches p in a generation that runs.
Serves(w, p) == w \in running /\ owner[p] = w

\* x is an offset above o.
Above(x, o) == x # None /\ o < x

RunningFetchTheirs ==
  \A w \in running, p \in Partition : fetch[w][p] # None <=> owner[p] = w

InLog ==
  \A p \in Partition :
    /\ begin[p] <= end[p] /\ (committed[p] # None => committed[p] <= end[p])
    /\ \A w \in Worker : /\ fetch[w][p] # None => fetch[w][p] <= end[p]
                         /\ stash[w][p] # None => stash[w][p] <= end[p]
    /\ \A o \in Offset : Seen(p, o) => o < end[p]

\* What is below the offset, an offset put aside or the position of a reader is
\* accounted for.
PassedIsAccounted ==
  \A p \in Partition, o \in Offset : begin[p] <= o =>
    /\ Above(committed[p], o) => Accounted(p, o)
    /\ \A w \in Worker : Above(fetch[w][p], o) \/ Above(stash[w][p], o) => Accounted(p, o)

-----------------------------------------------------------------------------
(***************************************************************************)
(* Partitions whose offset has never been taken back.                      *)
(***************************************************************************)
Steady == Partition \ back

\* What a reader has returned beyond the offset is done or in its worker's hands.
ReturnedIsDone ==
  \A w \in Worker, p \in Steady, q \in Offset :
    Passed(p) <= q /\ Above(fetch[w][p], q) => Done(p, q) \/ HasInHand(w, p, q)

\* Beyond the offset, whoever has seen an event has left none behind undone.
NoGaps ==
  \A p \in Steady, o, q \in Offset : Passed(p) <= q /\ q < o /\ Seen(p, o) => Done(p, q)

\* The same beyond the position of the reader that serves the partition, which may
\* be behind one that does not.
AheadIsDone ==
  \A w, u \in Worker, p \in Steady, q \in Offset :
    Serves(w, p) /\ fetch[w][p] <= q /\ Above(fetch[u][p], q)
      => Done(p, q) \/ HasInHand(u, p, q)

NoGapsAhead ==
  \A w \in Worker, p \in Steady, o, q \in Offset :
    Serves(w, p) /\ fetch[w][p] <= q /\ q < o /\ Seen(p, o) => Done(p, q)

KeptIsOwned ==
  \A w \in Worker, p \in Partition, o \in Offset :
    HasInHand(w, p, o) /\ hand[w].kept => owner[p] = w

\* No other reader gets past an event that its worker has kept, before it is done,
\* without having been given it as well.
KeptIsPassedByNone ==
  \A w, v \in Worker, p \in Steady, o \in Offset :
    HasInHand(w, p, o) /\ hand[w].kept /\ v # w /\ Above(fetch[v][p], o)
      => Done(p, o) \/ HasInHand(v, p, o)

\* Of a partition nobody has seen more than the worker that has kept it, until its
\* event is done.
KeptIsLast ==
  \A w \in Worker, p \in Steady, o, q \in Offset :
    HasInHand(w, p, o) /\ hand[w].kept /\ ~Done(p, o) /\ Seen(p, q) => q <= o

\* Without failures and kills, an event that no reader returned outside its
\* generation is behind the offset, or behind what the serving reader has put
\* aside, and in one place.
SeenOnce ==
  ~failing /\ kills = 0 =>
    \A p \in Steady, o \in Offset : <<p, o>> \notin late /\ Seen(p, o) =>
      /\ \/ Above(committed[p], o)
         \/ \E w \in Worker : Serves(w, p) /\ Above(stash[w][p], o)
      /\ \A w \in Worker : Serves(w, p) => o < fetch[w][p]
      /\ \A w \in Worker : HasInHand(w, p, o) =>
           /\ ~Done(p, o) /\ \A v \in Worker : HasInHand(v, p, o) => v = w

\* Where no event was returned outside a generation, only the serving reader has
\* put an offset aside, which is its position and beyond the group's offset.
Punctual(p) == \A o \in Offset : <<p, o>> \notin late
OffsetIsServed ==
  \A p \in Partition : Punctual(p) =>
    /\ p \notin back
    /\ \A w \in Worker :
         /\ stash[w][p] # None => Serves(w, p) /\ stash[w][p] = fetch[w][p]
         /\ Serves(w, p) => Passed(p) <= fetch[w][p]

GroupInv ==
  /\ RunningFetchTheirs /\ InLog /\ PassedIsAccounted /\ ReturnedIsDone /\ NoGaps
  /\ AheadIsDone /\ NoGapsAhead /\ KeptIsOwned /\ KeptIsPassedByNone /\ KeptIsLast
  /\ SeenOnce /\ OffsetIsServed

IInv == TypeOK /\ kills \in Nat /\ GroupInv

-----------------------------------------------------------------------------
USE NoneAssumption, FirstAssumption DEF Offset

LEMMA NoneIsNothing ==
  /\ None \notin Worker /\ None \notin Int
  /\ \A m \in Message : m # None
  OBVIOUS

LEMMA HandType ==
  ASSUME TypeOK, NEW w \in Worker, hand[w] # None
  PROVE  hand[w] \in Message /\ hand[w].of \in Partition /\ hand[w].offset \in Nat
<1>1. hand[w] \in Message
  BY DEF TypeOK
<1>. QED BY <1>1 DEF Message

LEMMA OffsetTypes ==
  ASSUME TypeOK, NEW p \in Partition
  PROVE  /\ end[p] \in Nat /\ begin[p] \in Nat /\ committed[p] \in Nat \cup {None}
         /\ Passed(p) \in Nat
         /\ \A w \in Worker : /\ fetch[w][p] \in Nat \cup {None}
                              /\ stash[w][p] \in Nat \cup {None}
  BY DEF TypeOK, Passed

\* Whether an event is done, seen or accounted for is read from three variables.
LEMMA SameEvents ==
  ASSUME UNCHANGED <<handled, lost>>,
         \A w \in Worker, p \in Partition, o \in Offset :
           HasInHand(w, p, o)' <=> HasInHand(w, p, o)
  PROVE  \A p \in Partition, o \in Offset :
           /\ Done(p, o)' <=> Done(p, o)
           /\ Seen(p, o)' <=> Seen(p, o)
           /\ Accounted(p, o)' <=> Accounted(p, o)
  BY DEF Done, Seen, Accounted

\* Of all that the group and its workers have, a step lets nothing but the
\* partitions grow.
coreVars == <<failing, kills, owner, running, fetch, stash, committed, back, begin,
              hand, handled, late, lost>>

LEMMA GrowthKeepsInv ==
  ASSUME TypeOK, GroupInv, UNCHANGED coreVars,
         end' \in [Partition -> Offset], \A p \in Partition : end'[p] >= end[p]
  PROVE  GroupInv'
<1>. USE DEF coreVars
<1>1. \A p \in Partition, o \in Offset :
        /\ Done(p, o)' <=> Done(p, o)
        /\ Seen(p, o)' <=> Seen(p, o)
        /\ Accounted(p, o)' <=> Accounted(p, o)
  BY DEF Done, Seen, Accounted, HasInHand
<1>2. /\ \A w \in Worker, p \in Partition, o \in Offset :
           HasInHand(w, p, o)' <=> HasInHand(w, p, o)
      /\ \A w \in Worker, p \in Partition : Serves(w, p)' <=> Serves(w, p)
      /\ \A p \in Partition : Passed(p)' = Passed(p) /\ (Punctual(p)' <=> Punctual(p))
      /\ Steady' = Steady
  BY DEF HasInHand, Serves, Passed, Punctual, Steady
<1>3. InLog'
  <2>. SUFFICES ASSUME NEW p \in Partition
       PROVE  /\ begin[p] <= end'[p] /\ (committed[p] # None => committed[p] <= end'[p])
              /\ \A w \in Worker : /\ fetch[w][p] # None => fetch[w][p] <= end'[p]
                                   /\ stash[w][p] # None => stash[w][p] <= end'[p]
              /\ \A o \in Offset : Seen(p, o) => o < end'[p]
    BY <1>1 DEF InLog
  <2>1. end'[p] \in Nat /\ end'[p] >= end[p]
    OBVIOUS
  <2>. QED BY <2>1, OffsetTypes DEF GroupInv, InLog
<1>4. RunningFetchTheirs' /\ KeptIsOwned'
  BY <1>2 DEF GroupInv, RunningFetchTheirs, KeptIsOwned
<1>5. PassedIsAccounted'
  BY <1>1 DEF GroupInv, PassedIsAccounted, Above
<1>6. ReturnedIsDone' /\ NoGaps' /\ AheadIsDone' /\ NoGapsAhead'
  BY <1>1, <1>2 DEF GroupInv, ReturnedIsDone, NoGaps, AheadIsDone, NoGapsAhead, Above, Steady
<1>7. KeptIsPassedByNone' /\ KeptIsLast'
  BY <1>1, <1>2 DEF GroupInv, KeptIsPassedByNone, KeptIsLast, Above, Steady
<1>8. SeenOnce'
  BY <1>1, <1>2 DEF GroupInv, SeenOnce, Above, Steady
<1>9. OffsetIsServed'
  BY <1>2 DEF GroupInv, OffsetIsServed
<1>. QED BY <1>3, <1>4, <1>5, <1>6, <1>7, <1>8, <1>9 DEF GroupInv

-----------------------------------------------------------------------------
(***************************************************************************)
(* A reader commits, ends its generation, or leaves.                       *)
(***************************************************************************)
\* What these steps have in common.
Commits(w, done) ==
  /\ CommitsOf(w, done)
  /\ stash' \in {stash, [stash EXCEPT ![w] = Nothing]}
  /\ running' \in {running, running \ {w}}
  /\ fetch' \in {fetch, [fetch EXCEPT ![w] = Nothing]}
  /\ fetch' # fetch => w \notin running'
  /\ w \notin running' => stash' = [stash EXCEPT ![w] = Nothing]
  /\ failing \/ w \notin running \/ done = Partition
  /\ UNCHANGED <<failing, kills, end, owner, begin, hand, handled, late, lost>>

LEMMA CommitsEffect ==
  ASSUME TypeOK, NEW w \in Worker, NEW done \in SUBSET Partition, Commits(w, done)
  PROVE  /\ fetch' \in [Worker -> [Partition -> Offset \cup {None}]]
         /\ stash' \in [Worker -> [Partition -> Offset \cup {None}]]
         /\ committed' \in [Partition -> Offset \cup {None}] /\ back' \subseteq Partition
         /\ running' \subseteq running
         /\ \A p \in Partition :
              /\ \/ committed'[p] = committed[p] /\ (p \in back' => p \in back)
                 \/ committed'[p] = stash[w][p] /\ stash[w][p] # None
              /\ done = Partition /\ stash[w][p] # None => committed'[p] = stash[w][p]
              /\ p \in back' <=> p \in back \/ (committed'[p] # None /\ committed'[p] < Passed(p))
              /\ p \notin back' => p \notin back /\ Passed(p) <= Passed(p)'
              /\ \A v \in Worker :
                   /\ fetch'[v][p] = fetch[v][p] \/ (v \notin running' /\ fetch'[v][p] = None)
                   /\ v # w => stash'[v][p] = stash[v][p]
                   /\ stash'[v][p] = stash[v][p] \/ stash'[v][p] = None
                   /\ v \in running /\ v \notin running' => v = w /\ stash'[v][p] = None
                   /\ stash'[v][p] # None => v # w \/ w \in running'
<1>. USE DEF Commits
<1>1. /\ Nothing \in [Partition -> Offset \cup {None}]
      /\ \A p \in Partition : Nothing[p] = None
  BY DEF Nothing
<1>2. /\ fetch \in [Worker -> [Partition -> Offset \cup {None}]]
      /\ stash \in [Worker -> [Partition -> Offset \cup {None}]]
      /\ committed \in [Partition -> Offset \cup {None}] /\ back \subseteq Partition
      /\ begin \in [Partition -> Offset]
  BY DEF TypeOK
<1>3. /\ fetch' \in [Worker -> [Partition -> Offset \cup {None}]]
      /\ stash' \in [Worker -> [Partition -> Offset \cup {None}]]
  BY <1>1, <1>2
<1>4. /\ committed' = [p \in Partition |->
           IF p \in done /\ stash[w][p] # None THEN stash[w][p] ELSE committed[p]]
      /\ back' = back \cup {p \in Partition : committed'[p] # None /\ committed'[p] < Passed(p)}
  BY DEF CommitsOf
<1>5. committed' \in [Partition -> Offset \cup {None}] /\ back' \subseteq Partition
  BY <1>2, <1>4
<1>6. ASSUME NEW p \in Partition
      PROVE  /\ \/ committed'[p] = committed[p] /\ (p \in back' => p \in back)
                \/ committed'[p] = stash[w][p] /\ stash[w][p] # None
             /\ done = Partition /\ stash[w][p] # None => committed'[p] = stash[w][p]
             /\ p \in back' <=> p \in back \/ (committed'[p] # None /\ committed'[p] < Passed(p))
             /\ p \notin back' => p \notin back /\ Passed(p) <= Passed(p)'
  <2>1. /\ committed[p] \in Nat \cup {None} /\ committed'[p] \in Nat \cup {None}
        /\ begin[p] \in Nat /\ Passed(p) \in Nat
    BY <1>2, <1>5 DEF Passed
  <2>2. p \in back' <=> p \in back \/ (committed'[p] # None /\ committed'[p] < Passed(p))
    BY <1>4
  <2>3. \/ committed'[p] = committed[p]
        \/ committed'[p] = stash[w][p] /\ stash[w][p] # None
    BY <1>4
  <2>4. committed'[p] = committed[p] => ~(committed'[p] # None /\ committed'[p] < Passed(p))
    BY <2>1 DEF Passed
  <2>5. Passed(p)' = IF committed'[p] = None THEN begin[p] ELSE committed'[p]
    BY DEF Passed
  <2>6. committed'[p] = None => committed[p] = None
    BY <2>3
  <2>7. committed[p] = None => Passed(p) = begin[p]
    BY DEF Passed
  <2>8. p \notin back' => Passed(p) <= Passed(p)'
    BY <2>1, <2>2, <2>5, <2>6, <2>7
  <2>. QED BY <1>4, <2>2, <2>3, <2>4, <2>8
<1>7. ASSUME NEW p \in Partition, NEW v \in Worker
      PROVE  /\ fetch'[v][p] = fetch[v][p] \/ (v \notin running' /\ fetch'[v][p] = None)
             /\ v # w => stash'[v][p] = stash[v][p]
             /\ stash'[v][p] = stash[v][p] \/ stash'[v][p] = None
             /\ v \in running /\ v \notin running' => v = w /\ stash'[v][p] = None
             /\ stash'[v][p] # None => v # w \/ w \in running'
  <2>1. \/ fetch' = fetch
        \/ fetch' = [fetch EXCEPT ![w] = Nothing] /\ w \notin running'
    OBVIOUS
  <2>2. fetch'[v][p] = fetch[v][p] \/ (v \notin running' /\ fetch'[v][p] = None)
    BY <1>1, <1>2, <2>1
  <2>3. /\ v # w => stash'[v][p] = stash[v][p]
        /\ stash'[v][p] = stash[v][p] \/ stash'[v][p] = None
        /\ stash' = [stash EXCEPT ![w] = Nothing] => stash'[w][p] = None
    BY <1>1, <1>2
  <2>4. v \in running /\ v \notin running' => v = w /\ w \notin running'
    OBVIOUS
  <2>. QED BY <2>2, <2>3, <2>4
<1>. QED BY <1>3, <1>5, <1>6, <1>7

\* Of the events nothing changes.
SameHands ==
  /\ \A p \in Partition, o \in Offset :
       /\ Done(p, o)' <=> Done(p, o)
       /\ Seen(p, o)' <=> Seen(p, o)
       /\ Accounted(p, o)' <=> Accounted(p, o)
  /\ \A w \in Worker, p \in Partition, o \in Offset : HasInHand(w, p, o)' <=> HasInHand(w, p, o)
  /\ \A p \in Partition : Punctual(p)' <=> Punctual(p)

LEMMA HandsAside ==
  ASSUME UNCHANGED <<hand, handled, late, lost>>
  PROVE  SameHands
  BY DEF SameHands, Done, Seen, Accounted, HasInHand, Punctual

LEMMA CommitsKeepInv ==
  ASSUME TypeOK, GroupInv, NEW w \in Worker, NEW done \in SUBSET Partition, Commits(w, done)
  PROVE  GroupInv'
<1>1. SameHands
  BY HandsAside DEF Commits
<1>2. /\ UNCHANGED <<failing, kills, end, owner, begin, hand, late>>
      /\ failing \/ w \notin running \/ done = Partition
  BY DEF Commits
<1>3. /\ running' \subseteq running
      /\ \A p \in Partition :
           /\ \/ committed'[p] = committed[p] /\ (p \in back' => p \in back)
              \/ committed'[p] = stash[w][p] /\ stash[w][p] # None
           /\ done = Partition /\ stash[w][p] # None => committed'[p] = stash[w][p]
           /\ p \in back' <=> p \in back \/ (committed'[p] # None /\ committed'[p] < Passed(p))
           /\ p \notin back' => p \notin back /\ Passed(p) <= Passed(p)'
           /\ \A v \in Worker :
                /\ fetch'[v][p] = fetch[v][p] \/ (v \notin running' /\ fetch'[v][p] = None)
                /\ v # w => stash'[v][p] = stash[v][p]
                /\ stash'[v][p] = stash[v][p] \/ stash'[v][p] = None
                /\ v \in running /\ v \notin running' => v = w /\ stash'[v][p] = None
                /\ stash'[v][p] # None => v # w \/ w \in running'
  BY CommitsEffect
<1>4. \A p \in Partition :
        /\ Passed(p) \in Nat /\ Passed(p)' \in Nat
        /\ committed[p] \in Nat \cup {None} /\ committed'[p] \in Nat \cup {None}
        /\ \A v \in Worker : /\ fetch[v][p] \in Nat \cup {None}
                             /\ stash[v][p] \in Nat \cup {None}
  <2>1. /\ committed' \in [Partition -> Offset \cup {None}]
        /\ begin' \in [Partition -> Offset]
    BY CommitsEffect, <1>2 DEF TypeOK
  <2>. QED BY <2>1, OffsetTypes DEF Passed
<1>5. /\ \A v \in Worker, p \in Partition :
           Serves(v, p)' => Serves(v, p) /\ fetch'[v][p] = fetch[v][p]
      /\ \A v \in Worker, p \in Partition, q \in Offset :
           Above(fetch'[v][p], q) => Above(fetch[v][p], q)
      /\ Steady' \subseteq Steady
      /\ \A p \in Steady' : p \in Partition /\ Passed(p) <= Passed(p)'
  BY <1>2, <1>3 DEF Serves, Above, Steady
<1>6. RunningFetchTheirs' /\ InLog' /\ PassedIsAccounted'
  <2>1. RunningFetchTheirs'
    <3>1. running \subseteq Worker
      BY DEF TypeOK
    <3>. QED BY <1>2, <1>3, <3>1 DEF GroupInv, RunningFetchTheirs
  <2>2. InLog'
    <3>1. ASSUME NEW p \in Partition
          PROVE  /\ begin[p] <= end[p] /\ (committed'[p] # None => committed'[p] <= end[p])
                 /\ \A v \in Worker : /\ fetch'[v][p] # None => fetch'[v][p] <= end[p]
                                      /\ stash'[v][p] # None => stash'[v][p] <= end[p]
                 /\ \A o \in Offset : Seen(p, o) => o < end[p]
      BY <1>3 DEF GroupInv, InLog
    <3>. QED BY <1>1, <1>2, <3>1 DEF InLog, SameHands
  <2>3. ASSUME NEW p \in Partition, NEW o \in Offset, begin[p] <= o
        PROVE  /\ Above(committed'[p], o) => Accounted(p, o)
               /\ \A v \in Worker : Above(fetch'[v][p], o) \/ Above(stash'[v][p], o)
                                      => Accounted(p, o)
    BY <1>3, <2>3 DEF GroupInv, PassedIsAccounted, Above
  <2>4. PassedIsAccounted'
    BY <1>1, <1>2, <2>3 DEF PassedIsAccounted, SameHands, Above
  <2>. QED BY <2>1, <2>2, <2>4
<1>7. ReturnedIsDone' /\ NoGaps'
  <2>1. ASSUME NEW p \in Steady', NEW q \in Offset, Passed(p)' <= q
        PROVE  p \in Steady /\ p \in Partition /\ Passed(p) <= q
    <3>1. p \in Partition /\ p \in Steady /\ Passed(p) <= Passed(p)'
      BY <1>5
    <3>2. Passed(p) \in Nat /\ Passed(p)' \in Nat
      BY <1>4, <3>1
    <3>. QED BY <2>1, <3>1, <3>2
  <2>2. ReturnedIsDone'
    BY <1>1, <1>5, <2>1 DEF GroupInv, ReturnedIsDone, SameHands, Above
  <2>3. NoGaps'
    BY <1>1, <2>1 DEF GroupInv, NoGaps, SameHands
  <2>. QED BY <2>2, <2>3
<1>8. AheadIsDone' /\ NoGapsAhead'
  BY <1>1, <1>5 DEF GroupInv, AheadIsDone, NoGapsAhead, SameHands, Above, Steady
<1>9. KeptIsOwned' /\ KeptIsPassedByNone' /\ KeptIsLast'
  BY <1>1, <1>2, <1>5 DEF GroupInv, KeptIsOwned, KeptIsPassedByNone, KeptIsLast, SameHands,
                          Above, Steady
<1>10. SeenOnce'
  <2>. SUFFICES ASSUME ~failing, kills = 0, NEW p \in Steady', NEW o \in Offset,
                       <<p, o>> \notin late, Seen(p, o)
       PROVE  /\ \/ Above(committed'[p], o)
                 \/ \E v \in Worker : Serves(v, p)' /\ Above(stash'[v][p], o)
              /\ \A v \in Worker : Serves(v, p)' => o < fetch'[v][p]
              /\ \A v \in Worker : HasInHand(v, p, o) =>
                   /\ ~Done(p, o) /\ \A u \in Worker : HasInHand(u, p, o) => u = v
    BY <1>1, <1>2, <1>5 DEF SeenOnce, SameHands, Above, Steady
  <2>1. p \in Partition /\ p \in Steady /\ Passed(p) <= Passed(p)'
    BY <1>5
  <2>2. /\ \/ Above(committed[p], o)
           \/ \E v \in Worker : Serves(v, p) /\ Above(stash[v][p], o)
        /\ \A v \in Worker : Serves(v, p) => o < fetch[v][p]
        /\ \A v \in Worker : HasInHand(v, p, o) =>
             /\ ~Done(p, o) /\ \A u \in Worker : HasInHand(u, p, o) => u = v
    BY <2>1 DEF GroupInv, SeenOnce
  <2>3. \/ Above(committed'[p], o)
        \/ \E v \in Worker : Serves(v, p)' /\ Above(stash'[v][p], o)
    <3>1. CASE Above(committed[p], o)
      <4>1. committed'[p] # None
        BY <1>3, <2>1, <3>1 DEF Above
      <4>2. committed[p] <= committed'[p]
        BY <2>1, <3>1, <4>1 DEF Passed, Above
      <4>3. committed[p] \in Nat /\ committed'[p] \in Nat
        BY <1>4, <2>1, <3>1, <4>1 DEF Above
      <4>. QED BY <3>1, <4>1, <4>2, <4>3 DEF Above
    <3>2. ASSUME NEW v \in Worker, Serves(v, p), Above(stash[v][p], o)
          PROVE  \/ Above(committed'[p], o)
                 \/ \E u \in Worker : Serves(u, p)' /\ Above(stash'[u][p], o)
      <4>1. CASE v \in running' /\ stash'[v][p] = stash[v][p]
        BY <1>2, <3>2, <4>1 DEF Serves
      <4>2. CASE v = w
        <5>1. done = Partition
          BY <1>2, <3>2, <4>2 DEF Serves
        <5>2. committed'[p] = stash[w][p]
          BY <1>3, <2>1, <3>2, <4>2, <5>1 DEF Above
        <5>. QED BY <3>2, <4>2, <5>2
      <4>. QED BY <1>3, <2>1, <3>2, <4>1, <4>2 DEF Serves
    <3>. QED BY <2>2, <3>1, <3>2
  <2>. QED BY <1>5, <2>1, <2>2, <2>3
<1>11. OffsetIsServed'
  <2>. SUFFICES ASSUME NEW p \in Partition, Punctual(p)
       PROVE  /\ p \notin back'
              /\ \A v \in Worker :
                   /\ stash'[v][p] # None => Serves(v, p)' /\ stash'[v][p] = fetch'[v][p]
                   /\ Serves(v, p)' => Passed(p)' <= fetch'[v][p]
    BY <1>1 DEF OffsetIsServed, SameHands
  <2>1. /\ p \notin back
        /\ \A v \in Worker :
             /\ stash[v][p] # None => Serves(v, p) /\ stash[v][p] = fetch[v][p]
             /\ Serves(v, p) => Passed(p) <= fetch[v][p]
    BY DEF GroupInv, OffsetIsServed
  <2>2. committed'[p] # None => Passed(p) <= committed'[p]
    <3>1. CASE committed'[p] = committed[p]
      BY <1>4, <3>1 DEF Passed
    <3>2. CASE committed'[p] = stash[w][p] /\ stash[w][p] # None
      BY <2>1, <3>2
    <3>. QED BY <1>3, <3>1, <3>2
  <2>3. p \notin back'
    <3>1. Passed(p) \in Nat /\ committed'[p] \in Nat \cup {None}
      BY <1>4
    <3>. QED BY <1>3, <2>1, <2>2, <3>1
  <2>4. ASSUME NEW v \in Worker, stash'[v][p] # None
        PROVE  Serves(v, p)' /\ stash'[v][p] = fetch'[v][p]
    <3>1. stash'[v][p] = stash[v][p] /\ v \in running'
      BY <1>3, <2>1, <2>4 DEF Serves
    <3>. QED BY <1>2, <1>3, <2>1, <2>4, <3>1 DEF Serves
  <2>5. ASSUME NEW v \in Worker, Serves(v, p)'
        PROVE  Passed(p)' <= fetch'[v][p]
    <3>1. Serves(v, p) /\ fetch'[v][p] = fetch[v][p] /\ Passed(p) <= fetch[v][p]
      BY <1>5, <2>1, <2>5
    <3>2. CASE committed'[p] = committed[p]
      BY <1>2, <3>1, <3>2 DEF Passed
    <3>3. CASE committed'[p] = stash[w][p] /\ stash[w][p] # None
      <4>1. Serves(w, p) /\ stash[w][p] = fetch[w][p] /\ v = w
        BY <2>1, <3>1, <3>3 DEF Serves
      <4>2. Passed(p)' = committed'[p]
        BY <3>3 DEF Passed
      <4>3. fetch[w][p] \in Nat
        BY <1>4, <3>3, <4>1
      <4>. QED BY <3>1, <3>3, <4>1, <4>2, <4>3
    <3>. QED BY <1>3, <3>2, <3>3
  <2>. QED BY <2>3, <2>4, <2>5
<1>. QED BY <1>6, <1>7, <1>8, <1>9, <1>10, <1>11 DEF GroupInv

-----------------------------------------------------------------------------
(***************************************************************************)
(* A generation is made, and its readers start.                            *)
(***************************************************************************)
LEMMA NewGenerationEffect ==
  ASSUME TypeOK, NewGeneration
  PROVE  /\ owner' \in [Partition -> Worker \cup {None}]
         /\ hand' \in [Worker -> Message \cup {None}]
         /\ \A w \in Worker, p \in Partition, o \in Offset :
              /\ HasInHand(w, p, o)' <=> HasInHand(w, p, o)
              /\ HasInHand(w, p, o) /\ hand'[w].kept => hand[w].kept /\ owner'[p] = w
<1>1. /\ owner' \in Assignment(Members)
      /\ hand' = [w \in Worker |->
           IF hand[w] = None THEN None
           ELSE [hand[w] EXCEPT !.kept = @ /\ owner'[hand[w].of] = w]]
  BY DEF NewGeneration
<1>2. owner' \in [Partition -> Worker \cup {None}]
  BY <1>1 DEF Assignment, Members
<1>3. ASSUME NEW w \in Worker, hand[w] # None
      PROVE  /\ hand'[w] \in Message
             /\ hand'[w].of = hand[w].of /\ hand'[w].offset = hand[w].offset
             /\ hand'[w].kept = (hand[w].kept /\ owner'[hand[w].of] = w)
  <2>1. hand[w] \in Message
    BY <1>3, HandType
  <2>2. hand'[w] = [hand[w] EXCEPT !.kept = hand[w].kept /\ owner'[hand[w].of] = w]
    BY <1>1, <1>3
  <2>. QED BY <2>1, <2>2 DEF Message
<1>4. \A w \in Worker : hand[w] = None => hand'[w] = None
  BY <1>1
<1>5. hand' \in [Worker -> Message \cup {None}]
  <2>1. \A w \in Worker : hand'[w] \in Message \cup {None}
    BY <1>3, <1>4
  <2>2. hand' = [w \in Worker |-> hand'[w]]
    BY <1>1
  <2>. QED BY <2>1, <2>2
<1>6. \A w \in Worker, p \in Partition, o \in Offset :
        HasInHand(w, p, o)' <=> HasInHand(w, p, o)
  BY <1>3, <1>4, NoneIsNothing DEF HasInHand
<1>7. \A w \in Worker, p \in Partition, o \in Offset :
        HasInHand(w, p, o) /\ hand'[w].kept => hand[w].kept /\ owner'[p] = w
  BY <1>3 DEF HasInHand
<1>. QED BY <1>2, <1>5, <1>6, <1>7

LEMMA NewGenerationKeepsInv ==
  ASSUME TypeOK, GroupInv, NewGeneration
  PROVE  GroupInv'
<1>1. /\ UNCHANGED <<failing, kills, end, running, fetch, stash, committed, back, begin,
                     handled, late, lost>>
      /\ running = {}
  BY DEF NewGeneration, producerVars, givens, boundVars, offsetVars
<1>2. \A w \in Worker, p \in Partition, o \in Offset :
        /\ HasInHand(w, p, o)' <=> HasInHand(w, p, o)
        /\ HasInHand(w, p, o) /\ hand'[w].kept => hand[w].kept /\ owner'[p] = w
  BY NewGenerationEffect
<1>3. SameHands
  BY <1>1, <1>2, SameEvents DEF SameHands, Punctual
<1>4. /\ \A w \in Worker, p \in Partition : ~Serves(w, p) /\ ~Serves(w, p)'
      /\ \A p \in Partition : Passed(p)' = Passed(p)
      /\ Steady' = Steady
  BY <1>1 DEF Serves, Passed, Steady
<1>5. RunningFetchTheirs' /\ InLog' /\ PassedIsAccounted'
  BY <1>1, <1>3 DEF GroupInv, RunningFetchTheirs, InLog, PassedIsAccounted, SameHands, Above
<1>6. ReturnedIsDone' /\ NoGaps' /\ AheadIsDone' /\ NoGapsAhead'
  BY <1>1, <1>3, <1>4 DEF GroupInv, ReturnedIsDone, NoGaps, AheadIsDone, NoGapsAhead,
                          SameHands, Above, Steady
<1>7. KeptIsOwned' /\ KeptIsPassedByNone' /\ KeptIsLast'
  BY <1>1, <1>2, <1>3, <1>4
     DEF GroupInv, KeptIsOwned, KeptIsPassedByNone, KeptIsLast, SameHands, Above, Steady
<1>8. SeenOnce'
  BY <1>1, <1>3, <1>4 DEF GroupInv, SeenOnce, SameHands, Above, Steady
<1>9. OffsetIsServed'
  BY <1>1, <1>3, <1>4 DEF GroupInv, OffsetIsServed, SameHands
<1>. QED BY <1>5, <1>6, <1>7, <1>8, <1>9 DEF GroupInv

\* Where a partition has no offset yet, the group begins at its end.
LEMMA StartEffect ==
  ASSUME TypeOK, InLog, NEW w \in Worker, StartGeneration(w)
  PROVE  /\ fetch' \in [Worker -> [Partition -> Offset \cup {None}]]
         /\ begin' \in [Partition -> Offset]
         /\ running' = running \cup {w} /\ w \notin running
         /\ \A p \in Partition :
              /\ fetch'[w][p] = IF owner[p] = w THEN Passed(p)' ELSE None
              /\ \A v \in Worker : v # w => fetch'[v][p] = fetch[v][p]
              /\ \/ begin'[p] = begin[p] /\ Passed(p)' = Passed(p)
                 \/ owner[p] = w /\ committed[p] = None /\ begin'[p] = end[p]
                    /\ Passed(p)' = end[p]
<1>1. /\ running' = running \cup {w} /\ w \notin running
      /\ fetch' = [fetch EXCEPT ![w] = [p \in Partition |->
           IF p \notin {r \in Partition : owner[r] = w} THEN None
           ELSE IF committed[p] = None THEN end[p] ELSE committed[p]]]
      /\ begin' = [p \in Partition |->
           IF p \in {r \in Partition : owner[r] = w} /\ committed[p] = None
           THEN end[p] ELSE begin[p]]
      /\ committed' = committed
  BY DEF StartGeneration, Starts, StartOffset, offsetVars
<1>2. \A p \in Partition :
        end[p] \in Nat /\ begin[p] \in Nat /\ committed[p] \in Nat \cup {None}
  BY OffsetTypes
<1>3. begin' \in [Partition -> Offset]
  BY <1>1, <1>2
<1>4. fetch \in [Worker -> [Partition -> Offset \cup {None}]]
  BY DEF TypeOK
<1>5. fetch' \in [Worker -> [Partition -> Offset \cup {None}]]
  <2>1. [p \in Partition |->
           IF p \notin {r \in Partition : owner[r] = w} THEN None
           ELSE IF committed[p] = None THEN end[p] ELSE committed[p]]
          \in [Partition -> Offset \cup {None}]
    BY <1>2
  <2>. QED BY <1>1, <1>4, <2>1
<1>6. \A p \in Partition :
        /\ fetch'[w][p] = IF owner[p] # w THEN None
                          ELSE IF committed[p] = None THEN end[p] ELSE committed[p]
        /\ begin'[p] = IF owner[p] = w /\ committed[p] = None THEN end[p] ELSE begin[p]
        /\ \A v \in Worker : v # w => fetch'[v][p] = fetch[v][p]
  BY <1>1, <1>4
<1>7. \A p \in Partition : Passed(p)' = IF committed[p] = None THEN begin'[p] ELSE committed[p]
  BY <1>1 DEF Passed
<1>. QED BY <1>1, <1>3, <1>5, <1>6, <1>7 DEF Passed

LEMMA StartKeepsInv ==
  ASSUME TypeOK, GroupInv, NEW w \in Worker, StartGeneration(w)
  PROVE  GroupInv'
<1>1. /\ UNCHANGED <<failing, kills, end, owner, stash, committed, back, hand, handled,
                     late, lost>>
  BY DEF StartGeneration, Starts, producerVars, givens, boundVars, offsetVars, workerVars,
         handVars
<1>2. /\ running' = running \cup {w} /\ w \notin running
      /\ \A p \in Partition :
           /\ fetch'[w][p] = IF owner[p] = w THEN Passed(p)' ELSE None
           /\ \A v \in Worker : v # w => fetch'[v][p] = fetch[v][p]
           /\ \/ begin'[p] = begin[p] /\ Passed(p)' = Passed(p)
              \/ owner[p] = w /\ committed[p] = None /\ begin'[p] = end[p]
                 /\ Passed(p)' = end[p]
  BY StartEffect DEF GroupInv
<1>3. SameHands
  BY <1>1, HandsAside
<1>4. \A p \in Partition :
        /\ Passed(p) \in Nat /\ Passed(p)' \in Nat /\ end[p] \in Nat /\ begin[p] \in Nat
        /\ begin'[p] \in Nat /\ committed[p] \in Nat \cup {None}
        /\ \A v \in Worker : /\ fetch[v][p] \in Nat \cup {None}
                             /\ stash[v][p] \in Nat \cup {None}
                             /\ fetch[v][p] # None => fetch[v][p] <= end[p]
                             /\ stash[v][p] # None => stash[v][p] <= end[p]
        /\ Passed(p) <= end[p] /\ begin[p] <= end[p]
        /\ committed[p] # None => committed[p] <= end[p] /\ Passed(p) = committed[p]
        /\ \A o \in Offset : Seen(p, o) => o < end[p]
  <2>1. begin' \in [Partition -> Offset]
    BY StartEffect DEF GroupInv
  <2>2. \A p \in Partition : Passed(p)' \in Nat
    BY <1>1, <2>1, OffsetTypes DEF Passed
  <2>. QED BY <2>1, <2>2, OffsetTypes DEF GroupInv, InLog, Passed
<1>5. \A v \in Worker, p \in Partition :
        Serves(v, p)' <=> Serves(v, p) \/ (v = w /\ owner[p] = w)
  BY <1>1, <1>2 DEF Serves
<1>6. \A p \in Partition : /\ Passed(p) <= Passed(p)' /\ Passed(p)' <= end[p]
                           /\ begin[p] <= begin'[p] /\ begin'[p] <= end[p]
  BY <1>2, <1>4
<1>7. RunningFetchTheirs'
  <2>1. running \subseteq Worker
    BY DEF TypeOK
  <2>2. ASSUME NEW v \in running', NEW p \in Partition
        PROVE  fetch'[v][p] # None <=> owner[p] = v
    <3>1. CASE v = w
      BY <1>2, <1>4, <3>1
    <3>2. CASE v # w
      BY <1>2, <2>1, <3>2 DEF GroupInv, RunningFetchTheirs
    <3>. QED BY <3>1, <3>2
  <2>. QED BY <1>1, <2>2 DEF RunningFetchTheirs
<1>8. InLog'
  <2>1. ASSUME NEW p \in Partition, NEW v \in Worker
        PROVE  fetch'[v][p] # None => fetch'[v][p] <= end[p]
    BY <1>2, <1>4, <1>6
  <2>. QED BY <1>1, <1>3, <1>4, <1>6, <2>1 DEF InLog, SameHands
<1>9. PassedIsAccounted'
  <2>1. ASSUME NEW p \in Partition, NEW o \in Offset, begin'[p] <= o
        PROVE  /\ Above(committed[p], o) => Accounted(p, o)
               /\ \A v \in Worker : Above(fetch'[v][p], o) \/ Above(stash[v][p], o)
                                      => Accounted(p, o)
    <3>1. begin[p] <= o
      BY <1>4, <1>6, <2>1
    <3>2. /\ Above(committed[p], o) => Accounted(p, o)
          /\ \A v \in Worker : Above(fetch[v][p], o) \/ Above(stash[v][p], o)
                                 => Accounted(p, o)
      BY <3>1 DEF GroupInv, PassedIsAccounted
    <3>3. Above(fetch'[w][p], o) => Above(committed[p], o)
      <4>1. CASE committed[p] = None
        <5>1. Above(fetch'[w][p], o) => owner[p] = w
          BY <1>2 DEF Above
        <5>2. Passed(p)' = begin'[p]
          BY <1>1, <4>1 DEF Passed
        <5>3. Passed(p)' \in Nat
          BY <1>4
        <5>. QED BY <1>2, <2>1, <5>1, <5>2, <5>3 DEF Above
      <4>2. CASE committed[p] # None
        BY <1>2, <1>4, <4>2 DEF Above
      <4>. QED BY <4>1, <4>2
    <3>4. \A v \in Worker : Above(fetch'[v][p], o) => Above(fetch[v][p], o) \/ Above(committed[p], o)
      BY <1>2, <3>3
    <3>. QED BY <3>2, <3>4
  <2>. QED BY <1>1, <1>3, <2>1 DEF PassedIsAccounted, SameHands, Above
<1>10. /\ Steady' = Steady /\ Steady \subseteq Partition
       /\ \A p \in Partition, q \in Offset : Passed(p)' <= q => Passed(p) <= q
  BY <1>1, <1>4, <1>6 DEF Steady
<1>11. \A v \in Worker, p \in Partition, q \in Offset :
         Above(fetch'[v][p], q) =>
           \/ v # w /\ Above(fetch[v][p], q)
           \/ v = w /\ owner[p] = w /\ q < Passed(p)'
  BY <1>2 DEF Above
<1>12. ReturnedIsDone' /\ NoGaps'
  <2>1. ASSUME NEW v \in Worker, NEW p \in Steady, NEW q \in Offset,
               Passed(p)' <= q, Above(fetch'[v][p], q)
        PROVE  Done(p, q) \/ HasInHand(v, p, q)
    <3>1. p \in Partition /\ Passed(p)' \in Nat
      BY <1>4, <1>10
    <3>2. Passed(p) <= q /\ Above(fetch[v][p], q)
      BY <1>10, <1>11, <2>1, <3>1
    <3>. QED BY <3>2 DEF GroupInv, ReturnedIsDone
  <2>2. ReturnedIsDone'
    BY <1>3, <1>10, <2>1 DEF ReturnedIsDone, SameHands, Above
  <2>3. NoGaps'
    BY <1>3, <1>10 DEF GroupInv, NoGaps, SameHands
  <2>. QED BY <2>2, <2>3
<1>13. AheadIsDone'
  <2>1. ASSUME NEW v \in Worker, NEW u \in Worker, NEW p \in Steady, NEW q \in Offset,
               Serves(v, p)', fetch'[v][p] <= q, Above(fetch'[u][p], q)
        PROVE  Done(p, q) \/ HasInHand(u, p, q)
    <3>1. p \in Partition /\ Passed(p)' \in Nat
      BY <1>4, <1>10
    <3>2. CASE v = w
      <4>1. owner[p] = w /\ Passed(p)' <= q
        BY <1>1, <1>2, <2>1, <3>1, <3>2 DEF Serves
      <4>2. Passed(p) <= q /\ Above(fetch[u][p], q)
        BY <1>10, <1>11, <2>1, <3>1, <4>1
      <4>. QED BY <4>2 DEF GroupInv, ReturnedIsDone
    <3>3. CASE v # w
      <4>1. Serves(v, p) /\ owner[p] # w
        BY <1>5, <2>1, <3>1, <3>3 DEF Serves
      <4>2. fetch[v][p] <= q /\ Above(fetch[u][p], q)
        BY <1>2, <1>11, <2>1, <3>1, <3>3, <4>1
      <4>. QED BY <4>1, <4>2 DEF GroupInv, AheadIsDone
    <3>. QED BY <3>2, <3>3
  <2>. QED BY <1>3, <1>10, <2>1 DEF AheadIsDone, SameHands, Above
<1>14. NoGapsAhead'
  <2>1. ASSUME NEW v \in Worker, NEW p \in Steady, NEW o \in Offset, NEW q \in Offset,
               Serves(v, p)', fetch'[v][p] <= q, q < o, Seen(p, o)
        PROVE  Done(p, q)
    <3>1. p \in Partition /\ Passed(p)' \in Nat
      BY <1>4, <1>10
    <3>2. CASE v = w
      <4>1. Passed(p)' <= q
        BY <1>1, <1>2, <2>1, <3>1, <3>2 DEF Serves
      <4>. QED BY <1>10, <2>1, <3>1, <4>1 DEF GroupInv, NoGaps
    <3>3. CASE v # w
      <4>1. Serves(v, p) /\ fetch[v][p] <= q
        BY <1>2, <1>5, <2>1, <3>1, <3>3
      <4>. QED BY <2>1, <4>1 DEF GroupInv, NoGapsAhead
    <3>. QED BY <3>2, <3>3
  <2>. QED BY <1>3, <1>10, <2>1 DEF NoGapsAhead, SameHands
<1>15. KeptIsOwned' /\ KeptIsPassedByNone' /\ KeptIsLast'
  <2>1. KeptIsOwned' /\ KeptIsLast'
    BY <1>1, <1>3, <1>10 DEF GroupInv, KeptIsOwned, KeptIsLast, SameHands
  <2>2. ASSUME NEW u \in Worker, NEW v \in Worker, NEW p \in Steady, NEW o \in Offset,
               HasInHand(u, p, o), hand[u].kept, v # u, Above(fetch'[v][p], o)
        PROVE  Done(p, o) \/ HasInHand(v, p, o)
    <3>1. owner[p] = u
      BY <1>10, <2>2 DEF GroupInv, KeptIsOwned
    <3>2. Above(fetch[v][p], o)
      BY <1>10, <1>11, <2>2, <3>1
    <3>. QED BY <2>2, <3>2 DEF GroupInv, KeptIsPassedByNone
  <2>. QED BY <1>1, <1>3, <1>10, <2>1, <2>2 DEF KeptIsPassedByNone, SameHands, Above
<1>16. SeenOnce'
  <2>. SUFFICES ASSUME ~failing, kills = 0, NEW p \in Steady, NEW o \in Offset,
                       <<p, o>> \notin late, Seen(p, o)
       PROVE  /\ \/ Above(committed[p], o)
                 \/ \E v \in Worker : Serves(v, p)' /\ Above(stash[v][p], o)
              /\ \A v \in Worker : Serves(v, p)' => o < fetch'[v][p]
              /\ \A v \in Worker : HasInHand(v, p, o) =>
                   /\ ~Done(p, o) /\ \A u \in Worker : HasInHand(u, p, o) => u = v
    BY <1>1, <1>3, <1>10 DEF SeenOnce, SameHands, Above
  <2>1. p \in Partition
    BY <1>10
  <2>2. /\ \/ Above(committed[p], o)
           \/ \E v \in Worker : Serves(v, p) /\ Above(stash[v][p], o)
        /\ \A v \in Worker : Serves(v, p) => o < fetch[v][p]
        /\ \A v \in Worker : HasInHand(v, p, o) =>
             /\ ~Done(p, o) /\ \A u \in Worker : HasInHand(u, p, o) => u = v
    BY DEF GroupInv, SeenOnce
  <2>3. ASSUME NEW v \in Worker, Serves(v, p)' PROVE o < fetch'[v][p]
    <3>1. CASE v = w
      <4>1. owner[p] = w
        BY <1>1, <2>3, <3>1 DEF Serves
      <4>2. Above(committed[p], o)
        BY <1>2, <2>2, <4>1 DEF Serves
      <4>3. Passed(p)' = committed[p]
        BY <1>1, <4>2 DEF Passed, Above
      <4>. QED BY <1>2, <2>1, <3>1, <4>1, <4>2, <4>3 DEF Above
    <3>2. CASE v # w
      BY <1>2, <1>5, <2>1, <2>2, <2>3, <3>2
    <3>. QED BY <3>1, <3>2
  <2>. QED BY <1>5, <2>1, <2>2, <2>3
<1>17. OffsetIsServed'
  <2>. SUFFICES ASSUME NEW p \in Partition, Punctual(p)
       PROVE  /\ p \notin back
              /\ \A v \in Worker :
                   /\ stash[v][p] # None => Serves(v, p)' /\ stash[v][p] = fetch'[v][p]
                   /\ Serves(v, p)' => Passed(p)' <= fetch'[v][p]
    BY <1>1, <1>3 DEF OffsetIsServed, SameHands
  <2>1. /\ p \notin back
        /\ \A v \in Worker :
             /\ stash[v][p] # None => Serves(v, p) /\ stash[v][p] = fetch[v][p]
             /\ Serves(v, p) => Passed(p) <= fetch[v][p]
    BY DEF GroupInv, OffsetIsServed
  <2>2. ASSUME NEW v \in Worker, stash[v][p] # None
        PROVE  Serves(v, p)' /\ stash[v][p] = fetch'[v][p]
    BY <1>2, <1>5, <2>1, <2>2 DEF Serves
  <2>3. ASSUME NEW v \in Worker, Serves(v, p)' PROVE Passed(p)' <= fetch'[v][p]
    <3>1. CASE v = w
      <4>1. owner[p] = w
        BY <1>1, <2>3, <3>1 DEF Serves
      <4>. QED BY <1>2, <1>4, <3>1, <4>1
    <3>2. CASE v # w
      <4>1. Serves(v, p) /\ owner[p] # w
        BY <1>5, <2>3, <3>2 DEF Serves
      <4>. QED BY <1>2, <2>1, <3>2, <4>1
    <3>. QED BY <3>1, <3>2
  <2>. QED BY <2>1, <2>2, <2>3
<1>. QED BY <1>7, <1>8, <1>9, <1>12, <1>13, <1>14, <1>15, <1>16, <1>17 DEF GroupInv
-----------------------------------------------------------------------------
(***************************************************************************)
(* A reader returns an event, and its worker processes it.                 *)
(***************************************************************************)
LEMMA ReceiveEffect ==
  ASSUME TypeOK, NEW w \in Worker, NEW p \in Partition, Receive(w, p)
  PROVE  /\ UNCHANGED <<failing, kills, end, owner, running, committed, back, begin,
                        handled, lost>>
         /\ hand' \in [Worker -> Message \cup {None}]
         /\ fetch' \in [Worker -> [Partition -> Offset \cup {None}]]
         /\ stash' \in [Worker -> [Partition -> Offset \cup {None}]]
         /\ late' \subseteq Event
         /\ hand[w] = None /\ fetch[w][p] \in Nat /\ fetch[w][p] < end[p]
         /\ \A v \in Worker, r \in Partition, o \in Offset :
              HasInHand(v, r, o)' <=>
                IF v = w THEN r = p /\ o = fetch[w][p] ELSE HasInHand(v, r, o)
         /\ hand'[w].kept => w \in running
         /\ \A v \in Worker : v # w => hand'[v] = hand[v]
         /\ \A v \in Worker, r \in Partition :
              IF v = w /\ r = p
              THEN /\ fetch'[v][r] = fetch[w][p] + 1 /\ stash'[v][r] # None
                   /\ \/ stash'[v][r] = fetch[w][p] + 1
                      \/ /\ stash[w][p] # None /\ stash[w][p] > fetch[w][p] + 1
                         /\ stash'[v][r] = stash[w][p]
                   /\ stash[v][r] # None => stash[v][r] <= stash'[v][r]
              ELSE fetch'[v][r] = fetch[v][r] /\ stash'[v][r] = stash[v][r]
         /\ late' = IF w \in running THEN late ELSE late \cup {<<p, fetch[w][p]>>}
<1>1. /\ hand[w] = None /\ fetch[w][p] # None /\ fetch[w][p] < end[p]
      /\ hand' = [hand EXCEPT ![w] =
                    [of |-> p, offset |-> fetch[w][p], kept |-> w \in running]]
      /\ fetch' = [fetch EXCEPT ![w][p] = @ + 1]
      /\ stash' = [stash EXCEPT ![w][p] = Aside(@, fetch[w][p] + 1)]
      /\ late' = late \cup (IF w \in running THEN {} ELSE {<<p, fetch[w][p]>>})
      /\ UNCHANGED <<failing, kills, end, owner, running, committed, back, begin,
                     handled, lost>>
  BY DEF Receive, Returns, producerVars, givens, boundVars, offsetVars
<1>2. /\ fetch[w][p] \in Nat /\ stash[w][p] \in Nat \cup {None}
  BY <1>1, OffsetTypes
<1>3. /\ hand \in [Worker -> Message \cup {None}] /\ late \subseteq Event
      /\ fetch \in [Worker -> [Partition -> Offset \cup {None}]]
      /\ stash \in [Worker -> [Partition -> Offset \cup {None}]]
  BY DEF TypeOK
<1>4. PICK m \in Message : /\ m.of = p /\ m.offset = fetch[w][p]
                           /\ m.kept = (w \in running)
                           /\ hand' = [hand EXCEPT ![w] = m]
  <2>1. [of |-> p, offset |-> fetch[w][p], kept |-> w \in running] \in Message
    BY <1>2 DEF Message
  <2>. QED BY <1>1, <2>1
<1>5. PICK s \in Nat : /\ s = Aside(stash[w][p], fetch[w][p] + 1)
                       /\ \/ s = fetch[w][p] + 1
                          \/ /\ stash[w][p] # None /\ stash[w][p] > fetch[w][p] + 1
                             /\ s = stash[w][p]
                       /\ stash[w][p] # None => stash[w][p] <= s
  BY <1>2 DEF Aside
<1>6. /\ fetch' \in [Worker -> [Partition -> Offset \cup {None}]]
      /\ \A v \in Worker, r \in Partition :
           fetch'[v][r] = IF v = w /\ r = p THEN fetch[w][p] + 1 ELSE fetch[v][r]
  BY <1>1, <1>2, <1>3
<1>7. /\ stash' \in [Worker -> [Partition -> Offset \cup {None}]]
      /\ \A v \in Worker, r \in Partition :
           stash'[v][r] = IF v = w /\ r = p THEN s ELSE stash[v][r]
  <2>1. stash' = [stash EXCEPT ![w][p] = s]
    BY <1>1, <1>5
  <2>. QED BY <1>3, <2>1
<1>8. /\ hand' \in [Worker -> Message \cup {None}] /\ hand'[w] = m
      /\ \A v \in Worker : v # w => hand'[v] = hand[v]
  BY <1>3, <1>4
<1>9. \A v \in Worker, r \in Partition, o \in Offset :
        HasInHand(v, r, o)' <=>
          IF v = w THEN r = p /\ o = fetch[w][p] ELSE HasInHand(v, r, o)
  BY <1>4, <1>8, NoneIsNothing DEF HasInHand
<1>10. late' \subseteq Event
  BY <1>1, <1>2, <1>3 DEF Event
<1>11. s # None
  BY NoneIsNothing
<1>12. \A v \in Worker, r \in Partition :
         IF v = w /\ r = p
         THEN /\ fetch'[v][r] = fetch[w][p] + 1 /\ stash'[v][r] # None
              /\ \/ stash'[v][r] = fetch[w][p] + 1
                 \/ /\ stash[w][p] # None /\ stash[w][p] > fetch[w][p] + 1
                    /\ stash'[v][r] = stash[w][p]
              /\ stash[v][r] # None => stash[v][r] <= stash'[v][r]
         ELSE fetch'[v][r] = fetch[v][r] /\ stash'[v][r] = stash[v][r]
  BY <1>5, <1>6, <1>7, <1>11
<1>. QED BY <1>1, <1>2, <1>4, <1>6, <1>7, <1>8, <1>9, <1>10, <1>12

LEMMA ReceiveKeepsInv ==
  ASSUME TypeOK, GroupInv, NEW w \in Worker, NEW p \in Partition, Receive(w, p)
  PROVE  GroupInv'
<1>0. PICK f \in Nat : f = fetch[w][p]
  BY ReceiveEffect
<1>1. /\ UNCHANGED <<failing, kills, end, owner, running, committed, back, begin,
                     handled, lost>>
      /\ hand[w] = None /\ f \in Nat /\ f < end[p]
      /\ \A v \in Worker, r \in Partition, o \in Offset :
           HasInHand(v, r, o)' <=> IF v = w THEN r = p /\ o = f ELSE HasInHand(v, r, o)
      /\ hand'[w].kept => w \in running
      /\ \A v \in Worker : v # w => hand'[v] = hand[v]
      /\ late' = IF w \in running THEN late ELSE late \cup {<<p, f>>}
  BY <1>0, ReceiveEffect
<1>2. \A v \in Worker, r \in Partition :
        IF v = w /\ r = p
        THEN /\ fetch'[v][r] = f + 1 /\ stash'[v][r] # None
             /\ \/ stash'[v][r] = f + 1
                \/ /\ stash[w][p] # None /\ stash[w][p] > f + 1
                   /\ stash'[v][r] = stash[w][p]
             /\ stash[v][r] # None => stash[v][r] <= stash'[v][r]
        ELSE fetch'[v][r] = fetch[v][r] /\ stash'[v][r] = stash[v][r]
  BY <1>0, ReceiveEffect
<1>3. \A r \in Partition :
        /\ end[r] \in Nat /\ Passed(r) \in Nat
        /\ \A v \in Worker : /\ fetch[v][r] \in Nat \cup {None}
                             /\ stash[v][r] \in Nat \cup {None}
                             /\ stash'[v][r] \in Nat \cup {None}
  <2>1. stash' \in [Worker -> [Partition -> Offset \cup {None}]]
    BY ReceiveEffect
  <2>. QED BY <2>1, OffsetTypes
<1>4. f # None /\ f + 1 # None /\ f + 1 \in Nat /\ fetch[w][p] = f
  BY <1>0, NoneIsNothing
<1>5. \A r \in Partition, o \in Offset :
        /\ ~HasInHand(w, r, o)
        /\ Done(r, o)' <=> Done(r, o)
        /\ Seen(r, o)' <=> Seen(r, o) \/ (r = p /\ o = f)
        /\ Accounted(r, o)' <=> Accounted(r, o) \/ (r = p /\ o = f)
  <2>1. \A r \in Partition, o \in Offset : ~HasInHand(w, r, o) /\ (Done(r, o)' <=> Done(r, o))
    BY <1>1 DEF HasInHand, Done
  <2>2. \A r \in Partition, o \in Offset : Seen(r, o)' <=> Seen(r, o) \/ (r = p /\ o = f)
    BY <1>1, <2>1 DEF Seen
  <2>. QED BY <1>1, <2>1, <2>2 DEF Accounted
<1>6. /\ \A v \in Worker, r \in Partition : Serves(v, r)' <=> Serves(v, r)
      /\ \A r \in Partition : Passed(r)' = Passed(r)
      /\ Steady' = Steady /\ Steady \subseteq Partition
  BY <1>1 DEF Serves, Passed, Steady
<1>7. \A v \in Worker, r \in Partition, o \in Offset :
        Above(fetch'[v][r], o) => Above(fetch[v][r], o) \/ (v = w /\ r = p /\ o = f)
  BY <1>2, <1>4, <1>3 DEF Above
<1>8. \A v \in Worker, r \in Partition, o \in Offset :
        fetch'[v][r] <= o /\ Serves(v, r) => fetch[v][r] <= o
  <2>1. ASSUME NEW v \in Worker, NEW r \in Partition, NEW o \in Offset,
               fetch'[v][r] <= o
        PROVE  fetch[v][r] <= o
    <3>1. CASE v = w /\ r = p
      <4>1. f + 1 <= o
        BY <1>2, <2>1, <3>1
      <4>2. f <= o
        BY <1>1, <4>1
      <4>. QED BY <1>4, <3>1, <4>2
    <3>2. CASE ~(v = w /\ r = p)
      BY <1>2, <2>1, <3>2
    <3>. QED BY <3>1, <3>2
  <2>. QED BY <2>1
<1>9. \A v \in Worker, r \in Partition, o \in Offset :
        v # w => (HasInHand(v, r, o)' <=> HasInHand(v, r, o))
  BY <1>1
<1>10. HasInHand(w, p, f)' /\ \A r \in Partition, o \in Offset :
         HasInHand(w, r, o)' => r = p /\ o = f
  BY <1>1
<1>11. RunningFetchTheirs'
  <2>1. running \subseteq Worker
    BY DEF TypeOK
  <2>2. ASSUME NEW v \in running, NEW r \in Partition
        PROVE  fetch'[v][r] # None <=> owner[r] = v
    <3>1. fetch[v][r] # None <=> owner[r] = v
      BY DEF GroupInv, RunningFetchTheirs
    <3>2. fetch'[v][r] # None <=> fetch[v][r] # None
      BY <1>2, <1>4, <2>1
    <3>. QED BY <3>1, <3>2
  <2>. QED BY <1>1, <2>2 DEF RunningFetchTheirs
<1>12. InLog'
  <2>1. ASSUME NEW r \in Partition, NEW v \in Worker
        PROVE  /\ fetch'[v][r] # None => fetch'[v][r] <= end[r]
               /\ stash'[v][r] # None => stash'[v][r] <= end[r]
    <3>1. /\ fetch[v][r] # None => fetch[v][r] <= end[r]
          /\ stash[v][r] # None => stash[v][r] <= end[r]
      BY DEF GroupInv, InLog
    <3>2. CASE v = w /\ r = p
      <4>1. end[p] \in Nat
        BY <1>3
      <4>2. f + 1 <= end[p]
        BY <1>1, <4>1
      <4>. QED BY <1>2, <3>1, <3>2, <4>2
    <3>3. CASE ~(v = w /\ r = p)
      BY <1>2, <3>1, <3>3
    <3>. QED BY <3>2, <3>3
  <2>2. ASSUME NEW r \in Partition, NEW o \in Offset, Seen(r, o)' PROVE o < end[r]
    BY <1>1, <1>5, <2>2 DEF GroupInv, InLog
  <2>3. \A r \in Partition : /\ begin[r] <= end[r]
                             /\ committed[r] # None => committed[r] <= end[r]
    BY DEF GroupInv, InLog
  <2>. QED BY <1>1, <2>1, <2>2, <2>3 DEF InLog
<1>13. PassedIsAccounted'
  <2>1. ASSUME NEW r \in Partition, NEW o \in Offset, begin[r] <= o
        PROVE  /\ Above(committed[r], o) => Accounted(r, o)'
               /\ \A v \in Worker : Above(fetch'[v][r], o) \/ Above(stash'[v][r], o)
                                      => Accounted(r, o)'
    <3>1. /\ Above(committed[r], o) => Accounted(r, o)
          /\ \A v \in Worker : Above(fetch[v][r], o) \/ Above(stash[v][r], o)
                                 => Accounted(r, o)
      BY <2>1 DEF GroupInv, PassedIsAccounted
    <3>2. ASSUME NEW v \in Worker, Above(stash'[v][r], o)
          PROVE  Above(stash[v][r], o) \/ Above(fetch[v][r], o) \/ (r = p /\ o = f)
      <4>1. CASE stash'[v][r] = f + 1 /\ v = w /\ r = p
        BY <1>4, <3>2, <4>1 DEF Above
      <4>2. CASE stash'[v][r] = stash[v][r]
        BY <3>2, <4>2
      <4>. QED BY <1>2, <4>1, <4>2
    <3>. QED BY <1>5, <1>7, <3>1, <3>2
  <2>. QED BY <1>1, <2>1 DEF PassedIsAccounted, Above
<1>14. ReturnedIsDone'
  <2>1. ASSUME NEW v \in Worker, NEW r \in Steady, NEW q \in Offset,
               Passed(r) <= q, Above(fetch'[v][r], q)
        PROVE  Done(r, q) \/ HasInHand(v, r, q)'
    <3>1. r \in Partition
      BY <1>6
    <3>2. CASE v = w /\ r = p /\ q = f
      BY <1>10, <3>2
    <3>3. CASE Above(fetch[v][r], q)
      <4>1. Done(r, q) \/ HasInHand(v, r, q)
        BY <2>1, <3>3 DEF GroupInv, ReturnedIsDone
      <4>. QED BY <1>5, <1>9, <3>1, <4>1
    <3>. QED BY <1>7, <2>1, <3>1, <3>2, <3>3
  <2>. QED BY <1>5, <1>6, <2>1 DEF ReturnedIsDone, Above
<1>15. NoGaps'
  <2>1. ASSUME NEW r \in Steady, NEW o \in Offset, NEW q \in Offset,
               Passed(r) <= q, q < o, Seen(r, o)'
        PROVE  Done(r, q)
    <3>1. r \in Partition
      BY <1>6
    <3>2. CASE Seen(r, o)
      BY <2>1, <3>2 DEF GroupInv, NoGaps
    <3>3. CASE r = p /\ o = f
      <4>1. Above(fetch[w][r], q)
        BY <1>4, <2>1, <3>3 DEF Above
      <4>. QED BY <1>5, <2>1, <3>1, <4>1 DEF GroupInv, ReturnedIsDone
    <3>. QED BY <1>5, <2>1, <3>1, <3>2, <3>3
  <2>. QED BY <1>5, <1>6, <2>1 DEF NoGaps
<1>16. AheadIsDone'
  <2>1. ASSUME NEW v \in Worker, NEW u \in Worker, NEW r \in Steady, NEW q \in Offset,
               Serves(v, r), fetch'[v][r] <= q, Above(fetch'[u][r], q)
        PROVE  Done(r, q) \/ HasInHand(u, r, q)'
    <3>1. r \in Partition /\ fetch[v][r] <= q
      BY <1>6, <1>8, <2>1
    <3>2. CASE u = w /\ r = p /\ q = f
      BY <1>10, <3>2
    <3>3. CASE Above(fetch[u][r], q)
      <4>1. Done(r, q) \/ HasInHand(u, r, q)
        BY <2>1, <3>1, <3>3 DEF GroupInv, AheadIsDone
      <4>. QED BY <1>5, <1>9, <3>1, <4>1
    <3>. QED BY <1>7, <2>1, <3>1, <3>2, <3>3
  <2>. QED BY <1>5, <1>6, <2>1 DEF AheadIsDone, Above
<1>17. NoGapsAhead'
  <2>1. ASSUME NEW v \in Worker, NEW r \in Steady, NEW o \in Offset, NEW q \in Offset,
               Serves(v, r), fetch'[v][r] <= q, q < o, Seen(r, o)'
        PROVE  Done(r, q)
    <3>1. r \in Partition /\ fetch[v][r] <= q
      BY <1>6, <1>8, <2>1
    <3>2. CASE Seen(r, o)
      BY <2>1, <3>1, <3>2 DEF GroupInv, NoGapsAhead
    <3>3. CASE r = p /\ o = f
      <4>1. Above(fetch[w][r], q)
        BY <1>4, <2>1, <3>3 DEF Above
      <4>. QED BY <1>5, <2>1, <3>1, <4>1 DEF GroupInv, AheadIsDone
    <3>. QED BY <1>5, <2>1, <3>1, <3>2, <3>3
  <2>. QED BY <1>5, <1>6, <2>1 DEF NoGapsAhead
<1>18. w \in running => Serves(w, p) /\ owner[p] = w
  BY <1>4 DEF GroupInv, RunningFetchTheirs, Serves
<1>19. KeptIsOwned'
  <2>1. ASSUME NEW v \in Worker, NEW r \in Partition, NEW o \in Offset,
               HasInHand(v, r, o)', hand'[v].kept
        PROVE  owner[r] = v
    <3>1. CASE v = w
      BY <1>1, <1>10, <1>18, <2>1, <3>1
    <3>2. CASE v # w
      BY <1>1, <1>9, <2>1, <3>2 DEF GroupInv, KeptIsOwned
    <3>. QED BY <3>1, <3>2
  <2>. QED BY <1>1, <2>1 DEF KeptIsOwned
<1>20. KeptIsPassedByNone'
  <2>1. ASSUME NEW u \in Worker, NEW v \in Worker, NEW r \in Steady, NEW o \in Offset,
               HasInHand(u, r, o)', hand'[u].kept, v # u, Above(fetch'[v][r], o)
        PROVE  Done(r, o) \/ HasInHand(v, r, o)'
    <3>1. r \in Partition
      BY <1>6
    <3>2. CASE u = w
      <4>1. r = p /\ o = f /\ Serves(w, p)
        BY <1>1, <1>10, <1>18, <2>1, <3>1, <3>2
      <4>2. Above(fetch[v][p], f) /\ fetch[w][p] <= f
        BY <1>4, <1>7, <2>1, <3>2, <4>1
      <4>3. Done(p, f) \/ HasInHand(v, p, f)
        BY <2>1, <4>1, <4>2 DEF GroupInv, AheadIsDone
      <4>. QED BY <1>9, <2>1, <3>2, <4>1, <4>3
    <3>3. CASE u # w
      <4>1. HasInHand(u, r, o) /\ hand[u].kept
        BY <1>1, <1>9, <2>1, <3>1, <3>3
      <4>2. CASE v = w /\ r = p /\ o = f
        BY <1>10, <4>2
      <4>3. CASE Above(fetch[v][r], o)
        <5>1. Done(r, o) \/ HasInHand(v, r, o)
          BY <2>1, <4>1, <4>3 DEF GroupInv, KeptIsPassedByNone
        <5>. QED BY <1>5, <1>9, <3>1, <5>1
      <4>. QED BY <1>7, <2>1, <3>1, <4>2, <4>3
    <3>. QED BY <3>2, <3>3
  <2>. QED BY <1>5, <1>6, <2>1 DEF KeptIsPassedByNone, Above
<1>21. KeptIsLast'
  <2>1. ASSUME NEW u \in Worker, NEW r \in Steady, NEW o \in Offset, NEW q \in Offset,
               HasInHand(u, r, o)', hand'[u].kept, ~Done(r, o), Seen(r, q)'
        PROVE  ~(o < q)
    <3>. SUFFICES ASSUME o < q PROVE FALSE
      OBVIOUS
    <3>1. r \in Partition
      BY <1>6
    <3>2. CASE u = w
      <4>1. r = p /\ o = f /\ Serves(w, p)
        BY <1>1, <1>10, <1>18, <2>1, <3>1, <3>2
      <4>2. Seen(p, q) /\ fetch[w][p] <= f
        BY <1>4, <1>5, <2>1, <4>1
      <4>. QED BY <2>1, <4>1, <4>2 DEF GroupInv, NoGapsAhead
    <3>3. CASE u # w
      <4>1. HasInHand(u, r, o) /\ hand[u].kept
        BY <1>1, <1>9, <2>1, <3>1, <3>3
      <4>2. CASE r = p /\ q = f
        <5>1. Above(fetch[w][r], o)
          BY <1>4, <4>2 DEF Above
        <5>. QED BY <1>5, <2>1, <3>1, <3>3, <4>1, <5>1 DEF GroupInv, KeptIsPassedByNone
      <4>3. CASE Seen(r, q)
        <5>1. q <= o
          BY <2>1, <4>1, <4>3 DEF GroupInv, KeptIsLast
        <5>. QED BY <5>1
      <4>. QED BY <1>5, <2>1, <3>1, <4>2, <4>3
    <3>. QED BY <3>2, <3>3
  <2>2. \A o, q \in Offset : ~(o < q) => q <= o
    OBVIOUS
  <2>. QED BY <1>5, <1>6, <2>1, <2>2 DEF KeptIsLast
<1>22. SeenOnce'
  <2>. SUFFICES ASSUME ~failing, kills = 0, NEW r \in Steady, NEW o \in Offset,
                       <<r, o>> \notin late', Seen(r, o)'
       PROVE  /\ \/ Above(committed[r], o)
                 \/ \E v \in Worker : Serves(v, r) /\ Above(stash'[v][r], o)
              /\ \A v \in Worker : Serves(v, r) => o < fetch'[v][r]
              /\ \A v \in Worker : HasInHand(v, r, o)' =>
                   /\ ~Done(r, o) /\ \A u \in Worker : HasInHand(u, r, o)' => u = v
    BY <1>1, <1>5, <1>6 DEF SeenOnce, Above
  <2>1. r \in Partition /\ <<r, o>> \notin late
    BY <1>1, <1>6
  <2>2. Seen(r, o) =>
          /\ \/ Above(committed[r], o)
             \/ \E v \in Worker : Serves(v, r) /\ Above(stash[v][r], o)
          /\ \A v \in Worker : Serves(v, r) => o < fetch[v][r]
          /\ \A v \in Worker : HasInHand(v, r, o) =>
               /\ ~Done(r, o) /\ \A u \in Worker : HasInHand(u, r, o) => u = v
    BY <2>1 DEF GroupInv, SeenOnce
  <2>3. CASE r = p /\ o = f
    <3>1. Serves(w, p) /\ owner[p] = w
      BY <1>1, <1>18, <2>3
    <3>2. Above(stash'[w][p], f)
      <4>1. CASE stash'[w][p] = f + 1
        BY <1>4, <4>1 DEF Above
      <4>2. CASE /\ stash[w][p] # None /\ stash[w][p] > f + 1
                 /\ stash'[w][p] = stash[w][p]
        <5>1. stash[w][p] \in Nat
          BY <1>3, <4>2
        <5>. QED BY <4>2, <5>1 DEF Above
      <4>. QED BY <1>2, <4>1, <4>2
    <3>3. \A v \in Worker : Serves(v, p) => v = w
      BY <3>1 DEF Serves
    <3>4. f < fetch'[w][p]
      BY <1>2, <1>4
    <3>5. ~Seen(p, f)
      BY <1>4, <2>2, <2>3, <3>1
    <3>6. ~Done(p, f) /\ \A v \in Worker : HasInHand(v, p, f)' => v = w
      BY <1>9, <3>5 DEF Seen
    <3>. QED BY <2>3, <3>1, <3>2, <3>3, <3>4, <3>6
  <2>4. CASE Seen(r, o) /\ ~(r = p /\ o = f)
    <3>1. ASSUME NEW v \in Worker, Above(stash[v][r], o) PROVE Above(stash'[v][r], o)
      <4>1. CASE v = w /\ r = p
        <5>1. /\ stash[v][r] \in Nat /\ stash'[v][r] \in Nat
              /\ stash[v][r] <= stash'[v][r] /\ o < stash[v][r] /\ stash'[v][r] # None
          BY <1>2, <1>3, <3>1, <4>1 DEF Above
        <5>. QED BY <5>1 DEF Above
      <4>. QED BY <1>2, <2>1, <3>1, <4>1
    <3>2. ASSUME NEW v \in Worker, Serves(v, r) PROVE o < fetch'[v][r]
      <4>1. o < fetch[v][r]
        BY <2>2, <2>4, <3>2
      <4>2. CASE v = w /\ r = p
        BY <1>2, <1>4, <4>1, <4>2
      <4>. QED BY <1>2, <2>1, <4>1, <4>2
    <3>3. \A v \in Worker : HasInHand(v, r, o)' => HasInHand(v, r, o)
      BY <1>9, <1>10, <2>1, <2>4
    <3>. QED BY <2>2, <2>4, <3>1, <3>2, <3>3
  <2>. QED BY <1>5, <2>1, <2>3, <2>4
<1>23. OffsetIsServed'
  <2>. SUFFICES ASSUME NEW r \in Partition, Punctual(r)'
       PROVE  /\ r \notin back
              /\ \A v \in Worker :
                   /\ stash'[v][r] # None => Serves(v, r) /\ stash'[v][r] = fetch'[v][r]
                   /\ Serves(v, r) => Passed(r) <= fetch'[v][r]
    BY <1>1, <1>6 DEF OffsetIsServed
  <2>1. Punctual(r)
    BY <1>1 DEF Punctual
  <2>2. /\ r \notin back
        /\ \A v \in Worker :
             /\ stash[v][r] # None => Serves(v, r) /\ stash[v][r] = fetch[v][r]
             /\ Serves(v, r) => Passed(r) <= fetch[v][r]
    BY <2>1 DEF GroupInv, OffsetIsServed
  <2>3. r = p => w \in running
    BY <1>1 DEF Punctual
  <2>4. ASSUME NEW v \in Worker, v = w, r = p
        PROVE  /\ Serves(v, r) /\ stash'[v][r] = fetch'[v][r]
               /\ Passed(r) <= fetch'[v][r]
    <3>1. Serves(w, p)
      BY <1>18, <2>3, <2>4
    <3>2. stash[w][p] # None => stash[w][p] = f
      BY <1>4, <2>2, <2>4
    <3>3. stash'[w][p] = f + 1 /\ fetch'[w][p] = f + 1
      BY <1>1, <1>2, <3>2
    <3>4. Passed(p) <= f /\ Passed(p) \in Nat
      BY <1>3, <1>4, <2>2, <2>4, <3>1
    <3>. QED BY <2>4, <3>1, <3>3, <3>4
  <2>5. ASSUME NEW v \in Worker, ~(v = w /\ r = p)
        PROVE  /\ stash'[v][r] # None => Serves(v, r) /\ stash'[v][r] = fetch'[v][r]
               /\ Serves(v, r) => Passed(r) <= fetch'[v][r]
    BY <1>2, <2>2, <2>5
  <2>. QED BY <2>2, <2>4, <2>5
<1>. QED BY <1>11, <1>12, <1>13, <1>14, <1>15, <1>16, <1>17, <1>19, <1>20, <1>21, <1>22,
            <1>23 DEF GroupInv
LEMMA HandleKeepsInv ==
  ASSUME TypeOK, GroupInv, NEW w \in Worker, Handle(w)
  PROVE  TypeOK' /\ GroupInv'
<1>1. /\ hand[w] # None
      /\ handled' = handled \cup {<<hand[w].of, hand[w].offset>>}
      /\ hand' = [hand EXCEPT ![w] = None]
      /\ UNCHANGED <<producerVars, groupVars, bootVars, boundVars, reader, late, lost>>
  BY DEF Handle, Ends, Held
<1>2. hand[w].of \in Partition /\ hand[w].offset \in Nat
  BY <1>1, HandType
<1>3. hand' \in [Worker -> Message \cup {None}] /\ handled' \subseteq Event
  BY <1>1, <1>2 DEF TypeOK, Event
<1>4. UNCHANGED <<failing, kills, end, owner, running, fetch, stash, committed, back,
                  begin, late, lost>>
  BY <1>1 DEF producerVars, givens, groupVars, offsetVars, boundVars
<1>5. TypeOK'
  BY <1>1, <1>3 DEF TypeOK, producerVars, givens, groupVars, offsetVars, bootVars
<1>6. \A v \in Worker : hand'[v] = IF v = w THEN None ELSE hand[v]
  BY <1>1 DEF TypeOK
<1>7. \A v \in Worker, p \in Partition, o \in Offset :
        HasInHand(v, p, o)' <=> (v # w /\ HasInHand(v, p, o))
  BY <1>6 DEF HasInHand
<1>8. \A p \in Partition, o \in Offset :
        /\ Done(p, o)' <=> (Done(p, o) \/ HasInHand(w, p, o))
        /\ Seen(p, o)' <=> Seen(p, o)
        /\ Accounted(p, o)' <=> Accounted(p, o)
  <2>1. \A p \in Partition, o \in Offset :
          Done(p, o)' <=> (Done(p, o) \/ HasInHand(w, p, o))
    BY <1>1 DEF Done, HasInHand
  <2>. QED BY <1>4, <1>7, <2>1 DEF Seen, Accounted
<1>9. /\ \A v \in Worker, p \in Partition : Serves(v, p)' <=> Serves(v, p)
      /\ \A p \in Partition : Passed(p)' = Passed(p) /\ (Punctual(p)' <=> Punctual(p))
      /\ Steady' = Steady /\ Steady \subseteq Partition
  BY <1>4 DEF Serves, Passed, Punctual, Steady
<1>10. RunningFetchTheirs' /\ InLog' /\ PassedIsAccounted'
  BY <1>4, <1>8 DEF GroupInv, RunningFetchTheirs, InLog, PassedIsAccounted, Above
<1>11. ReturnedIsDone' /\ NoGaps' /\ AheadIsDone' /\ NoGapsAhead'
  BY <1>4, <1>7, <1>8, <1>9
     DEF GroupInv, ReturnedIsDone, NoGaps, AheadIsDone, NoGapsAhead, Above
<1>12. KeptIsOwned' /\ KeptIsPassedByNone' /\ KeptIsLast'
  BY <1>4, <1>6, <1>7, <1>8, <1>9
     DEF GroupInv, KeptIsOwned, KeptIsPassedByNone, KeptIsLast, Above
<1>13. SeenOnce'
  BY <1>4, <1>7, <1>8, <1>9 DEF GroupInv, SeenOnce, Above
<1>14. OffsetIsServed'
  BY <1>4, <1>9 DEF GroupInv, OffsetIsServed
<1>. QED BY <1>5, <1>10, <1>11, <1>12, <1>13, <1>14 DEF GroupInv

LEMMA KillKeepsInv ==
  ASSUME TypeOK, kills \in Nat, GroupInv, Kill
  PROVE  TypeOK' /\ kills' \in Nat /\ GroupInv'
<1>1. /\ kills' = kills + 1
      /\ lost' = lost \cup {e \in InHand : committed[e[1]] # None /\ e[2] < committed[e[1]]}
      /\ reader' = [v \in Worker |-> "closed"] /\ hand' = [v \in Worker |-> None]
      /\ rebalancing' = TRUE /\ running' = {} /\ owner' = Nothing
      /\ fetch' = [v \in Worker |-> Nothing] /\ stash' = fetch'
      /\ queued' = [p \in Partition |-> 0] /\ boot' = "probing" /\ toBoot' = Worker
      /\ UNCHANGED <<givens, end, committed, back, begin, topic, handled, late>>
  BY DEF Kill, offsetVars
<1>2. InHand \subseteq Event
  BY HandType DEF InHand, Held, Event
<1>3. TypeOK'
  BY <1>1, <1>2 DEF TypeOK, givens, Nothing
<1>4. /\ UNCHANGED <<failing, end, committed, back, begin, handled, late>>
      /\ \A v \in Worker, p \in Partition : fetch'[v][p] = None /\ stash'[v][p] = None
      /\ \A v \in Worker, p \in Partition : ~Serves(v, p)'
  BY <1>1 DEF givens, Nothing, Serves
<1>5. \A v \in Worker, p \in Partition, o \in Offset : ~HasInHand(v, p, o)'
  BY <1>1 DEF HasInHand
<1>6. \A p \in Partition, o \in Offset :
        /\ Done(p, o)' <=> Done(p, o)
        /\ Seen(p, o)' => Seen(p, o)
  BY <1>4, <1>5 DEF Done, Seen
<1>7. \A p \in Partition, o \in Offset :
        Accounted(p, o) /\ Above(committed[p], o) => Accounted(p, o)'
  <2>. SUFFICES ASSUME NEW p \in Partition, NEW o \in Offset, Accounted(p, o),
                       Above(committed[p], o)
                PROVE  Accounted(p, o)'
    OBVIOUS
  <2>1. CASE \E v \in Worker : HasInHand(v, p, o)
    <3>1. <<p, o>> \in InHand
      BY <2>1 DEF InHand, Held, HasInHand
    <3>. QED BY <1>1, <3>1 DEF Accounted, Above
  <2>2. CASE Done(p, o) \/ <<p, o>> \in lost
    BY <1>1, <2>2 DEF Accounted, Seen, Done
  <2>. QED BY <2>1, <2>2 DEF Accounted, Seen
<1>8. /\ \A p \in Partition : Passed(p)' = Passed(p) /\ (Punctual(p)' <=> Punctual(p))
      /\ Steady' = Steady /\ Steady \subseteq Partition
  BY <1>4 DEF Passed, Punctual, Steady
<1>9. RunningFetchTheirs' /\ InLog'
  BY <1>1, <1>4, <1>6 DEF GroupInv, RunningFetchTheirs, InLog
<1>10. PassedIsAccounted'
  BY <1>4, <1>7 DEF GroupInv, PassedIsAccounted, Above
<1>11. ReturnedIsDone' /\ NoGaps' /\ AheadIsDone' /\ NoGapsAhead'
  BY <1>4, <1>6, <1>8 DEF GroupInv, ReturnedIsDone, NoGaps, AheadIsDone, NoGapsAhead, Above
<1>12. KeptIsOwned' /\ KeptIsPassedByNone' /\ KeptIsLast'
  BY <1>5, <1>8 DEF KeptIsOwned, KeptIsPassedByNone, KeptIsLast
<1>13. SeenOnce'
  BY <1>1 DEF SeenOnce
<1>14. OffsetIsServed'
  BY <1>4, <1>8 DEF GroupInv, OffsetIsServed
<1>. QED BY <1>1, <1>3, <1>9, <1>10, <1>11, <1>12, <1>13, <1>14 DEF GroupInv
-----------------------------------------------------------------------------
(***************************************************************************)
(* All steps.                                                              *)
(***************************************************************************)
\* What TypeOK says of the variables that no theorem is about.
OthersType ==
  /\ topic \in BOOLEAN /\ boot \in {"probing", "starting", "done"}
  /\ toBoot \subseteq Worker /\ rebalancing \in BOOLEAN
  /\ reader \in [Worker -> {"closed", "open", "stopping"}]

LEMMA ProducerKeepsInv ==
  ASSUME IInv, Producer \/ \E p \in Partition : WriteBatch(p)
  PROVE  IInv'
<1>1. /\ end \in [Partition -> Nat] /\ queued \in [Partition -> Nat]
      /\ hash \in [Key -> Partition]
  BY DEF IInv, TypeOK
<1>2. ASSUME NEW p \in Partition, NEW k \in Nat
      PROVE  /\ [end EXCEPT ![p] = @ + k] \in [Partition -> Nat]
             /\ \A q \in Partition : [end EXCEPT ![p] = @ + k][q] >= end[q]
             /\ [queued EXCEPT ![p] = @ + k] \in [Partition -> Nat]
             /\ [queued EXCEPT ![p] = 0] \in [Partition -> Nat]
  <2>1. end[p] + k \in Nat /\ end[p] + k >= end[p] /\ queued[p] + k \in Nat
    BY <1>1
  <2>. QED BY <1>1, <2>1
<1>. DEFINE Grows == /\ end' \in [Partition -> Nat] /\ queued' \in [Partition -> Nat]
                     /\ \A p \in Partition : end'[p] >= end[p]
<1>3. Grows
  <2>1. ASSUME NEW p \in Partition, WriteBatch(p) PROVE Grows
    <3>1. queued[p] \in Nat
      BY <1>1
    <3>2. queued' \in [Partition -> Nat]
      BY <1>2, <2>1, <3>1 DEF WriteBatch
    <3>3. CASE end' = [end EXCEPT ![p] = @ + queued[p]]
      BY <1>2, <3>1, <3>2, <3>3
    <3>4. CASE end' = end
      BY <1>1, <3>2, <3>4
    <3>. QED BY <2>1, <3>3, <3>4 DEF WriteBatch
  <2>2. ASSUME NEW k \in Key, Bulk(k) PROVE Grows
    <3>1. hash[k] \in Partition /\ end' = end
          /\ queued' = [queued EXCEPT ![hash[k]] = @ + 1]
      BY <1>1, <2>2 DEF Bulk
    <3>. QED BY <1>1, <1>2, <3>1
  <2>3. ASSUME NEW st, NEW k \in Key \cup {None}, Produce(st, k) PROVE Grows
    <3>1. PICK p \in Partition : p = Target(st, k)
      BY <1>1 DEF Target
    <3>2. queued' = queued /\ (end' = end \/ end' = [end EXCEPT ![p] = @ + 1])
      BY <2>3, <3>1 DEF Produce, Appends
    <3>3. CASE end' = end
      BY <1>1, <3>2, <3>3
    <3>4. CASE end' = [end EXCEPT ![p] = @ + 1]
      BY <1>1, <1>2, <3>2, <3>4
    <3>. QED BY <3>2, <3>3, <3>4
  <2>. QED BY <2>1, <2>2, <2>3 DEF Producer
<1>4. UNCHANGED <<givens, groupVars, bootVars, boundVars, workerVars>>
  BY DEF Producer, Produce, Bulk, WriteBatch
<1>5. UNCHANGED coreVars
  BY <1>4 DEF coreVars, givens, groupVars, offsetVars, boundVars, workerVars, handVars
<1>6. GroupInv'
  BY <1>3, <1>5, GrowthKeepsInv DEF IInv
<1>. QED BY <1>3, <1>4, <1>6
         DEF IInv, TypeOK, givens, groupVars, offsetVars, bootVars, boundVars, workerVars,
             handVars

\* A step of which the readers and their workers see nothing.
LEMMA AsideKeepsInv ==
  ASSUME IInv, OthersType', UNCHANGED <<producerVars, coreVars>>
  PROVE  IInv'
<1>1. end' \in [Partition -> Nat] /\ \A p \in Partition : end'[p] >= end[p]
  BY DEF IInv, TypeOK, producerVars
<1>2. GroupInv'
  BY <1>1, GrowthKeepsInv DEF IInv
<1>. QED BY <1>2 DEF IInv, TypeOK, OthersType, producerVars, givens, coreVars

LEMMA CommitsStep ==
  ASSUME IInv, OthersType', NEW w \in Worker, NEW done \in SUBSET Partition, Commits(w, done),
         UNCHANGED <<hash, queued>>
  PROVE  IInv'
<1>1. GroupInv'
  BY CommitsKeepInv DEF IInv
<1>2. /\ fetch' \in [Worker -> [Partition -> Offset \cup {None}]]
      /\ stash' \in [Worker -> [Partition -> Offset \cup {None}]]
      /\ committed' \in [Partition -> Offset \cup {None}] /\ back' \subseteq Partition
      /\ running' \subseteq running
  BY CommitsEffect DEF IInv
<1>. QED BY <1>1, <1>2 DEF IInv, TypeOK, OthersType, Commits

\* A commit that ends a generation, or a reader.
LEMMA FinalCommits ==
  ASSUME NEW w \in Worker, FinalCommit(w), running' = running \ {w},
         fetch' \in {fetch, [fetch EXCEPT ![w] = Nothing]},
         UNCHANGED <<failing, kills, end, owner, begin, hand, handled, late, lost>>
  PROVE  \E done \in SUBSET Partition : Commits(w, done)
<1>1. PICK done \in IF failing THEN SUBSET Partition ELSE {Partition} : CommitsOf(w, done)
  BY DEF FinalCommit
<1>2. done \in SUBSET Partition /\ (failing \/ done = Partition)
  BY <1>1
<1>3. Commits(w, done)
  BY <1>1, <1>2 DEF Commits, FinalCommit
<1>. QED BY <1>2, <1>3

LEMMA CommitKeepsInv ==
  ASSUME IInv, NEW w \in Worker, Commit(w)
  PROVE  IInv'
<1>1. /\ w \in running
      /\ UNCHANGED <<producerVars, bootVars, boundVars, workerVars, rebalancing, owner,
                     running, fetch, begin>>
  BY DEF Commit
<1>2. UNCHANGED <<failing, kills, end, owner, begin, hand, handled, late, lost, hash, queued>>
      /\ OthersType'
  BY <1>1 DEF producerVars, givens, bootVars, boundVars, workerVars, handVars, IInv, TypeOK,
              OthersType
<1>3. \E done \in SUBSET Partition : Commits(w, done)
  <2>1. CASE CommitsOf(w, Partition) /\ stash' = [stash EXCEPT ![w] = Nothing]
    <3>1. Commits(w, Partition)
      BY <1>1, <1>2, <2>1 DEF Commits
    <3>. QED BY <3>1
  <2>2. ASSUME failing, stash' = stash, NEW done \in SUBSET Partition, CommitsOf(w, done)
        PROVE  Commits(w, done)
    BY <1>1, <1>2, <2>2 DEF Commits
  <2>. QED BY <2>1, <2>2 DEF Commit
<1>. QED BY <1>2, <1>3, CommitsStep

LEMMA EndGenerationKeepsInv ==
  ASSUME IInv, NEW w \in Worker, EndGeneration(w)
  PROVE  IInv'
<1>1. UNCHANGED <<failing, kills, end, owner, begin, hand, handled, late, lost, hash, queued>>
      /\ OthersType'
  BY DEF EndGeneration, producerVars, givens, bootVars, boundVars, workerVars, handVars,
         IInv, TypeOK, OthersType
<1>2. FinalCommit(w) /\ running' = running \ {w} /\ fetch' = fetch
  BY DEF EndGeneration
<1>. QED BY <1>1, <1>2, FinalCommits, CommitsStep

LEMMA LeaveKeepsInv ==
  ASSUME IInv, NEW w \in Worker, Leave(w)
  PROVE  IInv'
<1>1. UNCHANGED <<failing, kills, end, owner, begin, hand, handled, late, lost, hash, queued>>
      /\ OthersType'
  BY DEF Leave, producerVars, givens, bootVars, boundVars, handVars, IInv, TypeOK, OthersType
<1>2. running' = running \ {w} /\ fetch' = [fetch EXCEPT ![w] = Nothing]
  BY DEF Leave
<1>3. CASE w \in running
  <2>1. FinalCommit(w)
    BY <1>3 DEF Leave
  <2>. QED BY <1>1, <1>2, <2>1, FinalCommits, CommitsStep
<1>4. CASE w \notin running
  <2>1. stash' = [stash EXCEPT ![w] = Nothing] /\ committed' = committed /\ back' = back
    BY <1>4 DEF Leave, offsetVars
  <2>2. CommitsOf(w, {})
    <3>1. committed \in [Partition -> Offset \cup {None}]
      BY DEF IInv, TypeOK
    <3>2. committed' = [p \in Partition |->
            IF p \in {} /\ stash[w][p] # None THEN stash[w][p] ELSE committed[p]]
      BY <2>1, <3>1
    <3>3. \A p \in Partition : ~(committed'[p] # None /\ committed'[p] < Passed(p))
      BY <2>1, <3>1 DEF Passed
    <3>. QED BY <2>1, <3>2, <3>3 DEF CommitsOf
  <2>3. Commits(w, {})
    BY <1>1, <1>2, <1>4, <2>1, <2>2 DEF Commits
  <2>. QED BY <1>1, <2>3, CommitsStep
<1>. QED BY <1>3, <1>4

LEMMA NewGenerationStep ==
  ASSUME IInv, NewGeneration
  PROVE  IInv'
<1>1. GroupInv'
  BY NewGenerationKeepsInv DEF IInv
<1>2. /\ owner' \in [Partition -> Worker \cup {None}]
      /\ hand' \in [Worker -> Message \cup {None}]
  BY NewGenerationEffect DEF IInv
<1>. QED BY <1>1, <1>2 DEF IInv, TypeOK, NewGeneration, producerVars, givens, bootVars,
                           boundVars, offsetVars

LEMMA StartStep ==
  ASSUME IInv, NEW w \in Worker, StartGeneration(w)
  PROVE  IInv'
<1>1. GroupInv'
  BY StartKeepsInv DEF IInv
<1>2. /\ fetch' \in [Worker -> [Partition -> Offset \cup {None}]]
      /\ begin' \in [Partition -> Offset] /\ running' = running \cup {w}
  BY StartEffect DEF IInv, GroupInv
<1>. QED BY <1>1, <1>2 DEF IInv, TypeOK, StartGeneration, Starts, producerVars, givens,
                           bootVars, boundVars, workerVars, handVars, offsetVars

LEMMA ReceiveStep ==
  ASSUME IInv, NEW w \in Worker, NEW p \in Partition, Receive(w, p)
  PROVE  IInv'
<1>1. GroupInv'
  BY ReceiveKeepsInv DEF IInv
<1>2. /\ hand' \in [Worker -> Message \cup {None}]
      /\ fetch' \in [Worker -> [Partition -> Offset \cup {None}]]
      /\ stash' \in [Worker -> [Partition -> Offset \cup {None}]]
      /\ late' \subseteq Event
      /\ UNCHANGED <<failing, kills, end, owner, running, committed, back, begin,
                     handled, lost>>
  BY ReceiveEffect DEF IInv
<1>3. UNCHANGED <<hash, queued, topic, boot, toBoot, reader, rebalancing>>
  BY DEF Receive, Returns, producerVars, givens, bootVars
<1>. QED BY <1>1, <1>2, <1>3 DEF IInv, TypeOK

LEMMA BootKeepsInv ==
  ASSUME IInv, Boot
  PROVE  IInv'
<1>1. CASE EnsureTopicExists
  <2>1. OthersType' /\ UNCHANGED <<producerVars, coreVars>>
    BY <1>1 DEF EnsureTopicExists, IInv, TypeOK, OthersType, workerVars, handVars, groupVars,
                offsetVars, boundVars, producerVars, givens, coreVars
  <2>. QED BY <2>1, AsideKeepsInv
<1>2. ASSUME NEW w \in Worker, BootStarts(w) PROVE IInv'
  <2>1. OthersType' /\ UNCHANGED <<producerVars, coreVars>>
    BY <1>2 DEF BootStarts, Opens, IInv, TypeOK, OthersType, workerVars, handVars, groupVars,
                offsetVars, boundVars, producerVars, givens, coreVars
  <2>. QED BY <2>1, AsideKeepsInv
<1>. QED BY <1>1, <1>2 DEF Boot

LEMMA ToggleKeepsInv ==
  ASSUME IInv, NEW w \in Worker, Toggle(w)
  PROVE  IInv'
<1>1. OthersType' /\ UNCHANGED <<producerVars, coreVars>>
  BY DEF Toggle, Opens, IInv, TypeOK, OthersType, handVars, groupVars, offsetVars, boundVars,
         bootVars, producerVars, givens, coreVars
<1>. QED BY <1>1, AsideKeepsInv

LEMMA DisturbKeepsInv ==
  ASSUME IInv, Disturb
  PROVE  IInv'
<1>1. OthersType' /\ UNCHANGED <<producerVars, coreVars>>
  BY DEF Disturb, IInv, TypeOK, OthersType, workerVars, handVars, offsetVars, bootVars,
         producerVars, givens, coreVars
<1>. QED BY <1>1, AsideKeepsInv

LEMMA WorkKeepsInv ==
  ASSUME IInv, NEW w \in Worker, Work(w)
  PROVE  IInv'
<1>1. CASE Handle(w)
  <2>1. TypeOK' /\ GroupInv' /\ kills' = kills
    BY <1>1, HandleKeepsInv DEF IInv, Handle, Ends, boundVars
  <2>. QED BY <2>1 DEF IInv
<1>. QED BY <1>1, ReceiveStep, LeaveKeepsInv, CommitKeepsInv DEF Work

LEMMA InitIInv == Init => IInv
<1>. SUFFICES ASSUME Init PROVE IInv
  OBVIOUS
<1>1. TypeOK
  BY MayFailAssumption DEF Init, TypeOK, Nothing
<1>2. \A p \in Partition, o \in Offset :
        ~Seen(p, o) /\ \A w \in Worker : ~HasInHand(w, p, o)
  BY DEF Init, Seen, Done, HasInHand
<1>3. /\ \A p \in Partition : /\ committed[p] = None /\ begin[p] = 0 /\ end[p] = 0
                              /\ \A w \in Worker : fetch[w][p] = None /\ stash[w][p] = None
      /\ kills = 0 /\ back = {} /\ running = {}
  BY DEF Init, Nothing
<1>4. GroupInv
  BY <1>2, <1>3 DEF GroupInv, RunningFetchTheirs, InLog, PassedIsAccounted, ReturnedIsDone,
                    NoGaps, AheadIsDone, NoGapsAhead, KeptIsOwned, KeptIsPassedByNone,
                    KeptIsLast, SeenOnce, OffsetIsServed, Above, Serves, Steady
<1>. QED BY <1>1, <1>3, <1>4 DEF IInv

LEMMA IInvStep == IInv /\ [Next]_vars => IInv'
<1>. SUFFICES ASSUME IInv, [Next]_vars PROVE IInv'
  OBVIOUS
<1>1. CASE Producer \/ \E p \in Partition : WriteBatch(p)
  BY <1>1, ProducerKeepsInv
<1>2. CASE Boot
  BY <1>2, BootKeepsInv
<1>3. CASE Group
  BY <1>3, NewGenerationStep, EndGenerationKeepsInv, StartStep DEF Group
<1>4. CASE Disturb
  BY <1>4, DisturbKeepsInv
<1>5. CASE Kill
  BY <1>5, KillKeepsInv DEF IInv
<1>6. ASSUME NEW w \in Worker, Work(w) PROVE IInv'
  BY <1>6, WorkKeepsInv
<1>7. ASSUME NEW w \in Worker, Toggle(w) PROVE IInv'
  BY <1>7, ToggleKeepsInv
<1>8. CASE UNCHANGED vars
  <2>1. OthersType' /\ UNCHANGED <<producerVars, coreVars>>
    BY <1>8 DEF vars, IInv, TypeOK, OthersType, workerVars, handVars, groupVars, offsetVars,
                bootVars, boundVars, producerVars, givens, coreVars
  <2>. QED BY <2>1, AsideKeepsInv
<1>. QED BY <1>1, <1>2, <1>3, <1>4, <1>5, <1>6, <1>7, <1>8 DEF Next

LEMMA Invariance == Spec => []IInv
  BY InitIInv, IInvStep, PTL DEF Spec

-----------------------------------------------------------------------------
\* Every value a variable of the pipeline takes is of its type.
THEOREM TypeCorrect == Spec => []TypeOK
<1>1. IInv => TypeOK
  BY DEF IInv
<1>. QED BY <1>1, Invariance, PTL

\* No event that the group's offset has passed is forgotten by a rebalance, a
\* stop, a failing or belated commit, or a restart: only a kill takes it out of a
\* hand.
THEOREM NothingSlipsThroughHolds == Spec => []NothingSlipsThrough
<1>1. ASSUME IInv, NEW p \in Partition, committed[p] # None,
             NEW o \in begin[p]..(committed[p] - 1)
      PROVE  <<p, o>> \in handled \cup InHand \cup lost
  <2>1. begin[p] \in Nat /\ committed[p] \in Nat
    BY <1>1 DEF IInv, TypeOK
  <2>2. o \in Nat /\ begin[p] <= o /\ Above(committed[p], o)
    BY <1>1, <2>1 DEF Above
  <2>3. Accounted(p, o)
    BY <1>1, <2>2 DEF IInv, GroupInv, PassedIsAccounted
  <2>. QED BY <2>3 DEF Accounted, Seen, Done, HasInHand, InHand, Held
<1>2. IInv => NothingSlipsThrough
  BY <1>1 DEF NothingSlipsThrough
<1>. QED BY <1>2, Invariance, PTL

\* While no request fails and no process dies, an event is processed twice only if
\* a reader has returned it outside its generation, or the commit of such a reader
\* has taken the offset of its partition back.
THEOREM HandledOnceHolds == Spec => []HandledOnce
<1>1. ASSUME IInv, ~failing, kills = 0, NEW w \in Worker, hand[w] # None,
             hand[w].of \notin back, Held(w) \notin late
      PROVE  /\ Held(w) \notin handled
             /\ \A v \in Worker : hand[v] # None /\ Held(v) = Held(w) => v = w
  <2>1. hand[w].of \in Steady /\ hand[w].offset \in Nat
    BY <1>1, HandType DEF IInv, Steady
  <2>2. HasInHand(w, hand[w].of, hand[w].offset) /\ Seen(hand[w].of, hand[w].offset)
    BY <1>1 DEF HasInHand, Seen
  <2>3. /\ ~Done(hand[w].of, hand[w].offset)
        /\ \A v \in Worker : HasInHand(v, hand[w].of, hand[w].offset) => v = w
    BY <1>1, <2>1, <2>2 DEF IInv, GroupInv, SeenOnce, Held
  <2>. QED BY <2>3 DEF Done, HasInHand, Held
<1>2. IInv => HandledOnce
  BY <1>1 DEF HandledOnce
<1>. QED BY <1>2, Invariance, PTL

\* No rebalance, failing commit, stop or kill takes the offset of a partition back,
\* but the commit of an event that was returned outside a generation.
THEOREM OffsetAdvancesHolds == Spec => []OffsetAdvances
<1>1. ASSUME IInv, NEW p \in back PROVE \E e \in late : e[1] = p
  <2>1. p \in Partition
    BY <1>1 DEF IInv, TypeOK
  <2>2. PICK o \in Offset : <<p, o>> \in late
    BY <1>1, <2>1 DEF IInv, GroupInv, OffsetIsServed, Punctual
  <2>. QED BY <2>2
<1>2. IInv => OffsetAdvances
  BY <1>1 DEF OffsetAdvances
<1>. QED BY <1>2, Invariance, PTL

\* The events of a partition are processed in their order as long as its offset is
\* not taken back, but for one whose worker has lost the partition in the middle of
\* it, or was given it outside a generation.
THEOREM InOrderHolds == Spec => []InOrder
<1>1. ASSUME IInv, NEW w \in Worker, hand[w] # None, hand[w].kept, hand[w].of \notin back,
             Held(w) \notin handled, NEW e \in handled \cup InHand, e[1] = hand[w].of
      PROVE  e[2] <= hand[w].offset
  <2>1. hand[w].of \in Steady /\ hand[w].of \in Partition /\ hand[w].offset \in Nat
    BY <1>1, HandType DEF IInv, Steady
  <2>2. HasInHand(w, hand[w].of, hand[w].offset) /\ ~Done(hand[w].of, hand[w].offset)
    BY <1>1 DEF HasInHand, Done, Held
  <2>3. e \in Event
    BY <1>1, HandType DEF IInv, TypeOK, InHand, Held, Event
  <2>4. e[2] \in Nat /\ e = <<e[1], e[2]>>
    BY <2>3 DEF Event
  <2>5. Seen(e[1], e[2])
    BY <1>1, <2>4 DEF Seen, Done, HasInHand, InHand, Held
  <2>. QED BY <1>1, <2>1, <2>2, <2>4, <2>5 DEF IInv, GroupInv, KeptIsLast
<1>2. IInv => InOrder
  BY <1>1 DEF InOrder
<1>. QED BY <1>2, Invariance, PTL
=============================================================================
