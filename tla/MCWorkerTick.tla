---------------------------- MODULE MCWorkerTick ----------------------------
(* The goroutines of the observation loop for TLC. *)
EXTENDS WorkerTick

CONSTANTS l1, l2

MCLoops == {l1, l2}
=============================================================================
