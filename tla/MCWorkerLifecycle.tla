------------------------ MODULE MCWorkerLifecycle ------------------------
(* The worker lifecycle for TLC; the constants are given by the configs. *)
EXTENDS WorkerLifecycle
==========================================================================
