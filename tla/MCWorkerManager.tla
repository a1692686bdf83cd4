-------------------------- MODULE MCWorkerManager --------------------------
(***************************************************************************)
(* One or two workers, of which initializeKafka starts the first, and up   *)
(* to two HTTP requests at a time.                                         *)
(***************************************************************************)
EXTENDS WorkerManager

CONSTANTS w1, w2, c1, c2

OneWorker  == {w1}
TwoWorkers == {w1, w2}
TwoClients == {c1, c2}
OneClient  == {c1}
BootFirst  == <<w1>>
=============================================================================
