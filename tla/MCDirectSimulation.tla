------------------------- MODULE MCDirectSimulation -------------------------
(***************************************************************************)
(* Two browsers that watch a simulation.                                   *)
(***************************************************************************)
EXTENDS DirectSimulation, TLC

CONSTANTS c1, c2

TwoClients == {c1, c2}
=============================================================================
