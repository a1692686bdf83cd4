------------------------ MODULE MonolithicTransfer ------------------------
(***************************************************************************)
(* The monolithic transaction demo: transfers between accounts, each one   *)
(* database transaction that locks the two rows one after the other.  The  *)
(* application works with copies of the rows, read under the locks, and    *)
(* saves whole rows; PostgreSQL makes a transaction wait for a lock, and   *)
(* ends one of those that wait for each other in a circle.                 *)
(***************************************************************************)
EXTENDS CheckoutBase

CONSTANTS
  Seed,  \* the accounts SeedAccounts creates, with their balances
  None   \* no transfer

ASSUME SeedAssumption == Seed \in [Account -> Nat]
ASSUME NoneAssumption == None \notin Tx

VARIABLES
  up,       \* does the process run?
  seeded,   \* has the table its rows?
  balance,  \* the committed rows
  holder,   \* holder[a], the transfer whose transaction has locked row a
  req,      \* req[t], the body of transfer t
  pc,       \* pc[t], the step its transaction takes next
  copy,     \* copy[t], the rows in the hands of its handler
  reply     \* reply[t], what its client has been told

rows    == <<balance, holder>>
process == <<up, seeded>>
vars    == <<process, rows, req, pc, copy, reply>>

\* An amount of zero or less passes the JSON decoder.
Transfer == [from : Name, to : Name, amount : Amount \cup {0}]
Place    == {"idle", "lockFrom", "lockTo", "check", "saveFrom", "saveTo", "commit",
             "over"}
Open     == Place \ {"idle", "over"}
Waiting  == {"lockFrom", "lockTo"}

TypeOK ==
  /\ up \in BOOLEAN /\ seeded \in BOOLEAN
  /\ balance \in [Account -> Int]
  /\ holder \in [Account -> Tx \cup {None}]
  /\ req \in [Tx -> Transfer]
  /\ pc \in [Tx -> Place]
  /\ copy \in [Tx -> [from : Int, to : Int]]
  /\ reply \in [Tx -> {"none", "completed", "error"}]

Init ==
  /\ up = FALSE /\ seeded = FALSE
  /\ balance = [a \in Account |-> 0]
  /\ holder = [a \in Account |-> None]
  /\ req \in [Tx -> Transfer]
  /\ pc = [t \in Tx |-> "idle"]
  /\ copy = [t \in Tx |-> [from |-> 0, to |-> 0]]
  /\ reply = [t \in Tx |-> "none"]

-----------------------------------------------------------------------------
\* The rows are created in a table that has none.
SeedAccounts ==
  /\ seeded' = TRUE
  /\ balance' = IF seeded THEN balance ELSE Seed

\* main: connect and seed; a process that cannot gives up.
Boot ==
  /\ ~up
  /\ \/ /\ up' = TRUE
        /\ SeedAccounts
     \/ "db" \in Faults /\ UNCHANGED <<process, balance>>
  /\ UNCHANGED <<holder, req, pc, copy, reply>>

Goto(t, from, to) ==
  /\ pc[t] = from
  /\ pc' = [pc EXCEPT ![t] = to]

\* The transaction is over, its locks are free, and the client is told.
Unlocked(t) == [a \in Account |-> IF holder[a] = t THEN None ELSE holder[a]]

Ends(t, answer) ==
  /\ pc' = [pc EXCEPT ![t] = "over"]
  /\ reply' = [reply EXCEPT ![t] = answer]

Valid(t) == req[t].amount > 0 /\ req[t].from # req[t].to

\* POST /transfer: refused, or a transaction is begun.
Begin(t) ==
  /\ up
  /\ pc[t] = "idle"
  /\ \/ Valid(t) /\ Goto(t, "idle", "lockFrom") /\ UNCHANGED reply
     \/ ~Valid(t) /\ Ends(t, "error")
  /\ UNCHANGED <<process, rows, req, copy>>

\* Slip to rule out: the row is read without FOR UPDATE.
FreeUnlocked(t, a) == TRUE

Free(t, a) == holder[a] \in {t, None}

\* SELECT ... FOR UPDATE reads the row as the transaction finds it when the
\* lock is its own.
LockFrom(t) ==
  LET a == req[t].from IN
  /\ Goto(t, "lockFrom", "lockTo")
  /\ a \in Account /\ Free(t, a)
  /\ holder' = [holder EXCEPT ![a] = t]
  /\ copy' = [copy EXCEPT ![t].from = balance[a]]
  /\ UNCHANGED <<process, balance, req, reply>>

LockTo(t) ==
  LET a == req[t].to IN
  /\ Goto(t, "lockTo", "check")
  /\ a \in Account /\ Free(t, a)
  /\ holder' = [holder EXCEPT ![a] = t]
  /\ copy' = [copy EXCEPT ![t].to = balance[a]]
  /\ UNCHANGED <<process, balance, req, reply>>

Covered(t) == copy[t].from >= req[t].amount

\* The amounts are moved in the copies.
Check(t) ==
  /\ Goto(t, "check", "saveFrom")
  /\ Covered(t)
  /\ copy' = [copy EXCEPT ![t] = [from |-> @.from - req[t].amount,
                                  to   |-> @.to + req[t].amount]]
  /\ UNCHANGED <<process, rows, req, reply>>

\* The two saves of rows nobody else can read yet.
Save(t) ==
  /\ Goto(t, "saveFrom", "saveTo") \/ Goto(t, "saveTo", "commit")
  /\ UNCHANGED <<process, rows, req, copy, reply>>

\* Of one row saved twice, the second save is the one that stays.
Commit(t) ==
  /\ pc[t] = "commit"
  /\ balance' = [[balance EXCEPT ![req[t].from] = copy[t].from]
                          EXCEPT ![req[t].to] = copy[t].to]
  /\ holder' = Unlocked(t)
  /\ \/ Ends(t, "completed")
     \/ "lost" \in Faults /\ Ends(t, "error")
  /\ UNCHANGED <<process, req, copy>>

\* An account without a row, too low a balance.
Refused(t) ==
  \/ pc[t] = "lockFrom" /\ req[t].from \notin Account
  \/ pc[t] = "lockTo" /\ req[t].to \notin Account
  \/ pc[t] = "check" /\ ~Covered(t)

\* u holds what t waits for.
WaitsFor(t, u) ==
  \/ pc[t] = "lockFrom" /\ req[t].from \in Account /\ holder[req[t].from] = u
  \/ pc[t] = "lockTo" /\ req[t].to \in Account /\ holder[req[t].to] = u

\* Each holds at most one row while it waits, and waits for one.
Deadlocked(t) ==
  \E cycle \in SUBSET Tx :
    t \in cycle /\ \A u \in cycle : \E v \in cycle \ {u} : WaitsFor(u, v)

\* Slips to rule out: an error leaves the transaction open, or has a word of its
\* own.
RollbackKeepsLocks(t) ==
  /\ pc[t] \in Open
  /\ Refused(t) \/ Deadlocked(t) \/ Faults \cap {"db", "lost"} # {}
  /\ Ends(t, "error")
  /\ UNCHANGED <<process, rows, req, copy>>

RollbackMisspelt(t) ==
  /\ pc[t] \in Open
  /\ Refused(t) \/ Deadlocked(t) \/ Faults \cap {"db", "lost"} # {}
  /\ holder' = Unlocked(t)
  /\ Ends(t, "failed")
  /\ UNCHANGED <<process, balance, req, copy>>

\* The error of a statement, of whatever reason, rolls everything back: a
\* refusal, a deadlock, a failed statement or a client that has gone.
Rollback(t) ==
  /\ pc[t] \in Open
  /\ Refused(t) \/ Deadlocked(t) \/ Faults \cap {"db", "lost"} # {}
  /\ holder' = Unlocked(t)
  /\ Ends(t, "error")
  /\ UNCHANGED <<process, balance, req, copy>>

\* The process dies, and its transactions with it; nobody is told.
Crash ==
  /\ "crash" \in Faults
  /\ up
  /\ up' = FALSE
  /\ holder' = [a \in Account |-> None]
  /\ pc' = [t \in Tx |-> IF pc[t] \in Open THEN "over" ELSE pc[t]]
  /\ UNCHANGED <<seeded, balance, req, copy, reply>>

Statement(t) ==
  \/ LockFrom(t) \/ LockTo(t) \/ Check(t) \/ Save(t) \/ Commit(t) \/ Rollback(t)

\* A step that needs no fault.
DueStatement(t) ==
  /\ Statement(t)
  /\ reply'[t] = "error" => Refused(t) \/ Deadlocked(t)

Quiet ==
  /\ up
  /\ \A t \in Tx : pc[t] = "over"
  /\ UNCHANGED vars

Next ==
  \/ Boot
  \/ \E t \in Tx : Begin(t) \/ Statement(t)
  \/ Crash
  \/ Quiet

Spec == Init /\ [][Next]_vars

\* A handler goes on when it can, and a row that is free again and again goes to
\* everyone who waits for it in the end: PostgreSQL queues them.  No transfer
\* may count on a fault to end it.
FairSpec == Spec /\ \A t \in Tx : SF_vars(DueStatement(t))

-----------------------------------------------------------------------------
\* A step of the whole system changes the rows by one transfer, to the full
\* amount, covered, and between two accounts, or not at all: no update is lost,
\* nothing is half done or overdrawn, a second start creates no money.
Moves(t) ==
  /\ {req[t].from, req[t].to} \subseteq Account
  /\ req[t].amount > 0
  /\ balance[req[t].from] >= req[t].amount
  /\ balance' = [balance EXCEPT ![req[t].from] = @ - req[t].amount,
                                ![req[t].to] = @ + req[t].amount]

TransfersOnly == [][seeded => \E t \in Tx : Moves(t)]_balance

\* Transfers in opposite directions do not wait for each other for ever.
TransferEnds == \A t \in Tx : pc[t] \in Open ~> pc[t] = "over"
=============================================================================
