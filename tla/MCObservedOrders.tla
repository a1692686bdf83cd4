-------------------------- MODULE MCObservedOrders --------------------------
(***************************************************************************)
(* Requests for a product, for one that does not exist, and without sense. *)
(***************************************************************************)
EXTENDS ObservedOrders

CONSTANTS r1, r2, laptop, nothing
=============================================================================
