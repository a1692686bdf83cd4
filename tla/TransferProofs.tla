--------------------------- MODULE TransferProofs ---------------------------
(***************************************************************************)
(* What holds of the transfers for any number of them, any accounts,       *)
(* balances and amounts, and every set of faults.                          *)
(*                                                                         *)
(* The argument: a transaction reads a row when the row is its own and     *)
(* keeps it until it is over, so its copies are those of the committed     *)
(* rows, or these moved by the amount, until it commits.                   *)
(***************************************************************************)
EXTENDS MonolithicTransfer, TLAPS

HasFrom == {"lockTo", "check", "saveFrom", "saveTo", "commit"}
HasTo   == HasFrom \ {"lockTo"}
Moved   == {"saveFrom", "saveTo", "commit"}

\* Rows a transaction has locked are rows of the table, and its own.
OwnsRows(t) ==
  /\ pc[t] \in HasFrom => req[t].from \in Account /\ holder[req[t].from] = t
  /\ pc[t] \in HasTo => req[t].to \in Account /\ holder[req[t].to] = t

\* Before the check its copies are the rows; after it the amount is moved.
CopiesAreRows(t) ==
  /\ pc[t] \in {"lockTo", "check"} => copy[t].from = balance[req[t].from]
  /\ pc[t] = "check" => copy[t].to = balance[req[t].to]
  /\ pc[t] \in Moved =>
       /\ balance[req[t].from] >= req[t].amount
       /\ copy[t].from = balance[req[t].from] - req[t].amount
       /\ copy[t].to = balance[req[t].to] + req[t].amount

\* Transactions belong to a running process and to valid requests.
TransferInv(t) ==
  /\ pc[t] \in Open => up /\ Valid(t)
  /\ OwnsRows(t)
  /\ CopiesAreRows(t)

IInv ==
  /\ TypeOK
  /\ up => seeded
  /\ \A t \in Tx : TransferInv(t)

-----------------------------------------------------------------------------
USE AccountAssumption, AmountAssumption, SeedAssumption, NoneAssumption
USE DEF TypeOK, Transfer, Place, Open, rows, process, vars, HasFrom, HasTo, Moved,
        OwnsRows, CopiesAreRows, TransferInv

LEMMA InitIInv == Init => IInv
<1>. SUFFICES ASSUME Init PROVE IInv
  OBVIOUS
<1>1. [from |-> 0, to |-> 0] \in [from : Int, to : Int]
  OBVIOUS
<1>2. /\ copy \in [Tx -> [from : Int, to : Int]]
      /\ balance \in [Account -> Int] /\ holder \in [Account -> Tx \cup {None}]
      /\ pc \in [Tx -> Place] /\ reply \in [Tx -> {"none", "completed", "error"}]
  BY <1>1 DEF Init
<1>3. /\ up = FALSE /\ seeded = FALSE /\ req \in [Tx -> Transfer]
      /\ \A t \in Tx : pc[t] = "idle"
  BY DEF Init
<1>. QED BY <1>2, <1>3 DEF IInv

\* What a handler has been asked for.
LEMMA RequestType ==
  ASSUME IInv, NEW t \in Tx
  PROVE  /\ req[t].from \in Name /\ req[t].to \in Name /\ req[t].amount \in Int
         /\ copy[t].from \in Int /\ copy[t].to \in Int
<1>1. req[t] \in Transfer /\ copy[t] \in [from : Int, to : Int]
  BY DEF IInv
<1>2. req[t].amount \in Amount \cup {0}
  BY <1>1
<1>3. \A x \in Amount \cup {0} : x \in Int
  OBVIOUS
<1>4. req[t].from \in Name /\ req[t].to \in Name /\ copy[t].from \in Int /\ copy[t].to \in Int
  BY <1>1
<1>. QED BY <1>2, <1>3, <1>4

\* A step that leaves the rows, the owners and the copies of u alone, and does
\* not take u further, keeps what holds of u.
LEMMA OthersUntouched ==
  ASSUME IInv, NEW u \in Tx,
         UNCHANGED <<up, req>>, pc'[u] = pc[u], copy'[u] = copy[u],
         \A a \in Account : holder[a] = u => holder'[a] = u /\ balance'[a] = balance[a]
  PROVE  TransferInv(u)'
  BY DEF IInv, Valid

LEMMA BootKeepsInv ==
  ASSUME IInv, Boot
  PROVE  IInv'
<1>1. \A t \in Tx : pc[t] \notin Open
  BY DEF Boot, IInv
<1>2. UNCHANGED <<holder, req, pc, copy, reply>>
  BY DEF Boot
<1>3. balance' \in [Account -> Int]
  <2>1. Seed \in [Account -> Int]
    OBVIOUS
  <2>. QED BY <2>1 DEF Boot, SeedAccounts, IInv
<1>4. up' \in BOOLEAN /\ seeded' \in BOOLEAN /\ (up' => seeded')
  <2>1. up \in BOOLEAN /\ seeded \in BOOLEAN /\ ~up
    BY DEF Boot, IInv
  <2>2. (up' = TRUE /\ seeded' = TRUE) \/ (up' = up /\ seeded' = seeded)
    BY Zenon DEF Boot, SeedAccounts
  <2>3. CASE up' = TRUE /\ seeded' = TRUE
    BY <2>3
  <2>4. CASE up' = up /\ seeded' = seeded
    BY <2>1, <2>4, Zenon
  <2>. QED BY <2>2, <2>3, <2>4
<1>5. TypeOK'
  BY <1>2, <1>3, <1>4 DEF IInv
<1>6. ASSUME NEW t \in Tx PROVE TransferInv(t)'
  <2>1. pc'[t] \notin Open
    BY <1>1, <1>2
  <2>. QED BY <2>1
<1>. QED BY <1>4, <1>5, <1>6 DEF IInv

LEMMA BeginKeepsInv ==
  ASSUME IInv, NEW t \in Tx, Begin(t)
  PROVE  IInv'
<1>1. /\ UNCHANGED <<process, rows, req, copy>>
      /\ up
      /\ \/ Valid(t) /\ pc' = [pc EXCEPT ![t] = "lockFrom"]
         \/ pc' = [pc EXCEPT ![t] = "over"]
  BY DEF Begin, Goto, Ends
<1>2. TypeOK'
  BY DEF Begin, Goto, Ends, IInv
<1>3. ASSUME NEW u \in Tx, u # t PROVE TransferInv(u)'
  BY <1>1, <1>3, OthersUntouched DEF IInv
<1>4. TransferInv(t)'
  BY <1>1 DEF IInv, Valid
<1>. QED BY <1>1, <1>2, <1>3, <1>4 DEF IInv

LEMMA LockKeepsInv ==
  ASSUME IInv, NEW t \in Tx, LockFrom(t) \/ LockTo(t)
  PROVE  IInv'
<1>1. PICK a \in Account :
        /\ a = IF pc[t] = "lockFrom" THEN req[t].from ELSE req[t].to
        /\ Free(t, a)
        /\ holder' = [holder EXCEPT ![a] = t]
  BY DEF LockFrom, LockTo, Goto
<1>2. /\ UNCHANGED <<process, balance, req, reply>>
      /\ \/ /\ pc[t] = "lockFrom" /\ pc' = [pc EXCEPT ![t] = "lockTo"]
            /\ copy' = [copy EXCEPT ![t].from = balance[a]]
         \/ /\ pc[t] = "lockTo" /\ pc' = [pc EXCEPT ![t] = "check"]
            /\ copy' = [copy EXCEPT ![t].to = balance[a]]
  BY <1>1 DEF LockFrom, LockTo, Goto
<1>3. balance[a] \in Int /\ copy[t] \in [from : Int, to : Int]
  BY DEF IInv
<1>4. copy' \in [Tx -> [from : Int, to : Int]]
  BY <1>2, <1>3 DEF IInv
<1>5. TypeOK'
  BY <1>1, <1>2, <1>4 DEF IInv
<1>6. ASSUME NEW u \in Tx, u # t PROVE TransferInv(u)'
  <2>1. pc'[u] = pc[u] /\ copy'[u] = copy[u]
    BY <1>2, <1>6 DEF IInv
  <2>2. \A b \in Account : holder[b] = u => holder'[b] = u
    BY <1>1, <1>6 DEF Free, IInv
  <2>. QED BY <1>2, <2>1, <2>2, OthersUntouched
<1>7. TransferInv(t)'
  <2>1. CASE pc[t] = "lockFrom"
    <3>1. copy'[t].from = balance[a] /\ pc'[t] = "lockTo"
      BY <1>2, <1>3, <2>1 DEF IInv
    <3>. QED BY <1>1, <1>2, <2>1, <3>1 DEF IInv, Valid
  <2>2. CASE pc[t] = "lockTo"
    <3>1. copy'[t].from = copy[t].from /\ copy'[t].to = balance[a] /\ pc'[t] = "check"
      BY <1>2, <1>3, <2>2 DEF IInv
    <3>2. holder'[a] = t /\ holder'[req[t].from] = t
      BY <1>1, <2>2 DEF IInv
    <3>. QED BY <1>1, <1>2, <2>2, <3>1, <3>2 DEF IInv, Valid
  <2>. QED BY <1>2, <2>1, <2>2
<1>. QED BY <1>2, <1>5, <1>6, <1>7 DEF IInv

LEMMA CheckKeepsInv ==
  ASSUME IInv, NEW t \in Tx, Check(t)
  PROVE  IInv'
<1>1. /\ pc[t] = "check" /\ pc' = [pc EXCEPT ![t] = "saveFrom"]
      /\ copy[t].from >= req[t].amount
      /\ copy' = [copy EXCEPT ![t] = [from |-> copy[t].from - req[t].amount,
                                      to   |-> copy[t].to + req[t].amount]]
      /\ UNCHANGED <<process, rows, req, reply>>
  BY DEF Check, Goto, Covered, IInv
<1>2. copy' \in [Tx -> [from : Int, to : Int]]
  BY <1>1, RequestType DEF IInv
<1>3. TypeOK'
  BY <1>1, <1>2 DEF IInv
<1>4. ASSUME NEW u \in Tx, u # t PROVE TransferInv(u)'
  <2>1. pc'[u] = pc[u] /\ copy'[u] = copy[u]
    BY <1>1, <1>4 DEF IInv
  <2>. QED BY <1>1, <2>1, OthersUntouched
<1>5. TransferInv(t)'
  <2>1. copy'[t].from = copy[t].from - req[t].amount
        /\ copy'[t].to = copy[t].to + req[t].amount /\ pc'[t] = "saveFrom"
    BY <1>1 DEF IInv
  <2>2. /\ req[t].from \in Account /\ holder[req[t].from] = t
        /\ req[t].to \in Account /\ holder[req[t].to] = t
        /\ copy[t].from = balance[req[t].from] /\ copy[t].to = balance[req[t].to]
        /\ up /\ Valid(t)
    BY <1>1 DEF IInv
  <2>. QED BY <1>1, <2>1, <2>2 DEF Valid
<1>. QED BY <1>1, <1>3, <1>4, <1>5 DEF IInv

LEMMA SaveKeepsInv ==
  ASSUME IInv, NEW t \in Tx, Save(t)
  PROVE  IInv'
<1>1. /\ UNCHANGED <<process, rows, req, copy, reply>>
      /\ \/ pc[t] = "saveFrom" /\ pc' = [pc EXCEPT ![t] = "saveTo"]
         \/ pc[t] = "saveTo" /\ pc' = [pc EXCEPT ![t] = "commit"]
  BY DEF Save, Goto
<1>2. ASSUME NEW u \in Tx PROVE TransferInv(u)'
  BY <1>1 DEF IInv, Valid
<1>. QED BY <1>1, <1>2 DEF IInv

\* A transaction that ends gives up its own rows and no other.
LEMMA EndKeepsInv ==
  ASSUME IInv, NEW t \in Tx, holder' = Unlocked(t),
         pc' = [pc EXCEPT ![t] = "over"],
         reply' \in [Tx -> {"none", "completed", "error"}],
         balance' \in [Account -> Int],
         \A a \in Account : holder[a] # t => balance'[a] = balance[a],
         UNCHANGED <<process, req, copy>>
  PROVE  IInv'
<1>1. TypeOK'
  BY DEF IInv, Unlocked
<1>2. ASSUME NEW u \in Tx, u # t PROVE TransferInv(u)'
  <2>1. \A a \in Account : holder[a] = u => holder'[a] = u /\ balance'[a] = balance[a]
    BY <1>2 DEF IInv, Unlocked
  <2>2. pc'[u] = pc[u]
    BY <1>2 DEF IInv
  <2>. QED BY <2>1, <2>2, OthersUntouched
<1>3. TransferInv(t)'
  BY DEF IInv
<1>. QED BY <1>1, <1>2, <1>3 DEF IInv

\* A commit moves the amount in the rows the transaction owns.
LEMMA CommitMoves ==
  ASSUME IInv, NEW t \in Tx, Commit(t)
  PROVE  /\ Moves(t)
         /\ holder[req[t].from] = t /\ holder[req[t].to] = t
         /\ balance' \in [Account -> Int]
<1>1. /\ req[t].from \in Account /\ holder[req[t].from] = t
      /\ req[t].to \in Account /\ holder[req[t].to] = t
      /\ balance[req[t].from] >= req[t].amount
      /\ copy[t].from = balance[req[t].from] - req[t].amount
      /\ copy[t].to = balance[req[t].to] + req[t].amount
      /\ req[t].amount > 0 /\ req[t].from # req[t].to
  BY DEF Commit, IInv, Valid
<1>2. balance' = [balance EXCEPT ![req[t].from] = copy[t].from, ![req[t].to] = copy[t].to]
  BY DEF Commit
<1>3. balance' = [balance EXCEPT ![req[t].from] = @ - req[t].amount,
                                 ![req[t].to] = @ + req[t].amount]
  BY <1>1, <1>2 DEF IInv
<1>4. copy[t].from \in Int /\ copy[t].to \in Int
  BY RequestType
<1>5. balance' \in [Account -> Int]
  BY <1>2, <1>4 DEF IInv
<1>. QED BY <1>1, <1>3, <1>5 DEF Moves

LEMMA CommitKeepsInv ==
  ASSUME IInv, NEW t \in Tx, Commit(t)
  PROVE  IInv'
<1>1. \A a \in Account : holder[a] # t => balance'[a] = balance[a]
  <2>1. balance' = [balance EXCEPT ![req[t].from] = copy[t].from,
                                   ![req[t].to] = copy[t].to]
    BY DEF Commit
  <2>. QED BY <2>1, CommitMoves DEF IInv
<1>2. /\ holder' = Unlocked(t) /\ pc' = [pc EXCEPT ![t] = "over"]
      /\ reply' \in [Tx -> {"none", "completed", "error"}]
      /\ UNCHANGED <<process, req, copy>>
  BY DEF Commit, Ends, IInv
<1>. QED BY <1>1, <1>2, CommitMoves, EndKeepsInv

LEMMA RollbackKeepsInv ==
  ASSUME IInv, NEW t \in Tx, Rollback(t)
  PROVE  IInv'
<1>1. /\ holder' = Unlocked(t) /\ pc' = [pc EXCEPT ![t] = "over"]
      /\ reply' \in [Tx -> {"none", "completed", "error"}]
      /\ UNCHANGED <<process, balance, req, copy>>
  BY DEF Rollback, Ends, IInv
<1>2. balance' \in [Account -> Int]
  BY <1>1 DEF IInv
<1>. QED BY <1>1, <1>2, EndKeepsInv

LEMMA CrashKeepsInv ==
  ASSUME IInv, Crash
  PROVE  IInv'
<1>1. \A t \in Tx : pc'[t] \notin Open
  BY DEF Crash, IInv
<1>2. TypeOK' /\ ~up'
  BY DEF Crash, IInv
<1>. QED BY <1>1, <1>2 DEF IInv

LEMMA StatementKeepsInv ==
  ASSUME IInv, NEW t \in Tx, Statement(t)
  PROVE  IInv'
  BY LockKeepsInv, CheckKeepsInv, SaveKeepsInv, CommitKeepsInv, RollbackKeepsInv
     DEF Statement

LEMMA IInvStep == IInv /\ [Next]_vars => IInv'
<1>. SUFFICES ASSUME IInv, [Next]_vars PROVE IInv'
  OBVIOUS
<1>1. CASE Boot
  BY <1>1, BootKeepsInv
<1>2. ASSUME NEW t \in Tx, Begin(t) PROVE IInv'
  BY <1>2, BeginKeepsInv
<1>3. ASSUME NEW t \in Tx, Statement(t) PROVE IInv'
  BY <1>3, StatementKeepsInv
<1>4. CASE Crash
  BY <1>4, CrashKeepsInv
<1>5. CASE UNCHANGED vars
  BY <1>5 DEF IInv, Valid
<1>. QED BY <1>1, <1>2, <1>3, <1>4, <1>5 DEF Next, Quiet

LEMMA Invariance == Spec => []IInv
  BY InitIInv, IInvStep, PTL DEF Spec

-----------------------------------------------------------------------------
\* Every value a variable of the demo takes is of its type.
THEOREM TypeCorrect == Spec => []TypeOK
<1>1. IInv => TypeOK
  BY DEF IInv
<1>. QED BY <1>1, Invariance, PTL

\* Only a commit, and the first start, change a row.
LEMMA RowsChange ==
  ASSUME IInv, [Next]_vars, balance' # balance, seeded
  PROVE  \E t \in Tx : Commit(t)
  BY DEF IInv, Next, Boot, SeedAccounts, Begin, Statement, LockFrom, LockTo, Check, Save,
         Rollback, Crash, Quiet

\* Once the rows exist, they change by one whole transfer at a time, covered
\* and between two accounts, whatever transactions overlap, fail or are cut off.
THEOREM TransfersOnlyHolds == Spec => TransfersOnly
<1>1. IInv /\ [Next]_vars => [seeded => \E t \in Tx : Moves(t)]_balance
  BY RowsChange, CommitMoves
<1>. QED BY <1>1, Invariance, PTL DEF Spec, TransfersOnly
=============================================================================
