------------------------ MODULE TwoPCPaymentClients ------------------------
(***************************************************************************)
(* The payment service of the two-phase commit demo on its own, with the   *)
(* callers its three endpoints were made for: a caller prepares once and,  *)
(* when told that the payment is prepared, asks once for one of /commit    *)
(* and /rollback.  (The coordinator never gets to ask for /rollback.)      *)
(***************************************************************************)
EXTENDS TwoPCPaymentService, FiniteSets

ClientRequest(t, op) ==
  /\ op # "prepare" => /\ payCall[t]["prepare"] = "ok"
                       /\ \A o \in PayOp \ {"prepare"} : payCall[t][o] = "idle"
  /\ PayRequest(t, op)
  /\ UNCHANGED <<req, balance, lockedBalance, capturedErr, payResult>>

Done ==
  /\ \A t \in Tx : /\ payCall[t]["prepare"] # "idle"
                   /\ \A op \in PayOp : payCall[t][op] \notin InService
  /\ UNCHANGED payVars

PayNext ==
  \/ \E t \in Tx, op \in PayOp : ClientRequest(t, op) \/ LoseRequest(t, op)
  \/ \E t \in Tx : PayHandler(t)
  \/ PaymentCrash
  \/ Done

PaymentSpec == PayInit /\ [][PayNext]_payVars

-----------------------------------------------------------------------------
\* The reservations of an account that are neither charged nor released.
OpenOf(a) ==
  {t \in Tx : req[t].account = a /\ Reserved(t) /\ ~Charged(t) /\ ~Released(t)}

\* The sum of their amounts, counted in units: an amount n has n of them, and a
\* negative one takes -n away.
Units(ts, n) == UNION {{t} \X (1..n[t]) : t \in ts}
Plus  == [t \in Tx |-> req[t].amount]
Minus == [t \in Tx |-> -req[t].amount]
Sum(ts) == Cardinality(Units(ts, Plus)) - Cardinality(Units(ts, Minus))

\* locked_balance is the sum of the reservations that are still open: none is
\* counted twice, and none is forgotten when a call or the process dies.
LockedIsHeld == \A a \in Account : lockedBalance[a] = Sum(OpenOf(a))
=============================================================================
