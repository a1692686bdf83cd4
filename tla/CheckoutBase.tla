--------------------------- MODULE CheckoutBase ---------------------------
(***************************************************************************)
(* What the distributed-transaction demos share: the checkouts a client    *)
(* posts, the accounts the payment service holds, and the kinds of fault   *)
(* the environment of the services may exhibit.                            *)
(***************************************************************************)
EXTENDS Integers

CONSTANTS
  Tx,       \* identities of the checkouts (the coordinator's uuid per request)
  Name,     \* account names a request may carry
  Account,  \* the names that have a row in the accounts table
  Amount,   \* amounts a request may carry
  Faults    \* the kinds of fault that may happen, a subset of FaultKind

(***************************************************************************)
(* "db"    a database statement may fail without any effect;               *)
(* "lost"  a caller may see its connection break at any moment of a call,  *)
(*         whatever the callee has done or will still do;                  *)
(* "crash" a process may die; its memory is lost, the database is not;      *)
(* "dup"   a producer that retries may write an event twice.               *)
(***************************************************************************)
FaultKind == {"db", "lost", "crash", "dup"}

\* The names with a row are names; binding:"required" refuses an amount of
\* zero and nothing else, so a request may well carry a negative one.
ASSUME AccountAssumption == Account \subseteq Name
ASSUME AmountAssumption  == Amount \subseteq Int \ {0}
ASSUME FaultsAssumption  == Faults \subseteq FaultKind

\* The JSON body of a checkout.
Request == [account : Name, amount : Amount]
=============================================================================
