------------------------- MODULE MCActionExecutor -------------------------
(* Small instances of the action executor for TLC. *)
EXTENDS ActionExecutor

CONSTANTS stop, start_a, w1, w2, tick

MCActionIDs == {start_a, stop}
MCWorkers == {w1, w2}
MCCallers == {tick}
===========================================================================
