-------------------------- MODULE MCEventPipeline --------------------------
(***************************************************************************)
(* Two workers and two partitions.                                         *)
(***************************************************************************)
EXTENDS EventPipeline

CONSTANTS w1, w2, p0, p1, k1

TwoWorkers    == {w1, w2}
TwoPartitions == {p0, p1}
=============================================================================
