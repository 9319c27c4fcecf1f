------------------------------ MODULE Collector ------------------------------
(***************************************************************************)
(* The collector of one worker                                             *)
(* (fsmv2/supervisor/internal/collection/collector.go).                    *)
(*                                                                         *)
(* An observation loop goroutine collects and saves the worker's observed  *)
(* state under collectionMu, periodically or when triggered.  Restart      *)
(* stops the loop and starts another one; Stop waits for the loop at most  *)
(* five seconds, so a loop that is inside a slow collection outlives it.   *)
(* The calls run on the supervisor's tick goroutine, which is at "call".   *)
(*                                                                         *)
(* A definition named Op_Suffix is a mutant of Op.                         *)
(***************************************************************************)
EXTENDS Naturals, FiniteSets

CONSTANT Loops    \* bound: loop goroutines alive at a time

\* The other two values of collectionMu's holder are not goroutines.
ASSUME CollectorAssumption == Loops # {} /\ "free" \notin Loops /\ "final" \notin Loops

VARIABLES
    state,          \* c.state
    running,        \* c.running
    loop,           \* per goroutine: where it is
    cur,            \* the goroutine behind c.ctx, c.cancel and c.goroutineDone
    cancelled,      \* the live goroutines whose context is cancelled
    collectionMu,   \* holder of c.collectionMu
    restartChan,    \* the channel holds a trigger
    parentDone,     \* the supervisor's context is cancelled
    call,           \* where the tick goroutine is in a call of the collector
    overran         \* history: a Stop gave up waiting for a loop

cvars == <<state, running, loop, cur, cancelled, collectionMu, restartChan,
           parentDone, call, overran>>

Live(g) == loop[g] # "exited"
Calls == {"none", "restart_stop", "restart_wait", "restart_reset",
          "restart_start", "final", "final_lock", "final_collect", "stop",
          "stop_wait", "stopped"}

CollectorTypeOK ==
    /\ state \in {"created", "running", "stopped"}
    /\ running \in BOOLEAN
    /\ loop \in [Loops -> {"select", "lock", "collect", "exited"}]
    /\ cur \in Loops
    /\ cancelled \in SUBSET Loops
    /\ collectionMu \in Loops \cup {"free", "final"}
    /\ restartChan \in BOOLEAN
    /\ parentDone \in BOOLEAN
    /\ call \in Calls
    /\ overran \in BOOLEAN

\* Start has been called once; the first loop is running.
CollectorInit ==
    /\ state = "running"
    /\ running = TRUE
    /\ cur = CHOOSE g \in Loops : TRUE
    /\ loop = [g \in Loops |-> IF g = cur THEN "select" ELSE "exited"]
    /\ cancelled = {}
    /\ collectionMu = "free"
    /\ restartChan = FALSE
    /\ parentDone = FALSE
    /\ call = "none"
    /\ overran = FALSE

-----------------------------------------------------------------------------
(* observationLoop.                                                        *)

\* The ticker or a trigger wakes the loop.  A cancelled loop may still be woken:
\* select takes any ready case, and the channel it reads is the collector's
\* current one.
LoopWakes(g, triggered) ==
    /\ loop[g] = "select"
    /\ triggered => restartChan
    /\ restartChan' = (restartChan /\ ~triggered)
    /\ loop' = [loop EXCEPT ![g] = "lock"]
    /\ UNCHANGED <<state, running, cur, cancelled, collectionMu, parentDone, call, overran>>

\* The desired state was loaded and the context is alive: into the worker.
LoopCollects(g) ==
    /\ loop[g] = "lock"
    /\ collectionMu = "free"
    /\ g \notin cancelled
    /\ collectionMu' = g
    /\ loop' = [loop EXCEPT ![g] = "collect"]
    /\ UNCHANGED <<state, running, cur, cancelled, restartChan, parentDone, call, overran>>

\* No desired state, a store error or a cancelled context: the cycle is skipped.
LoopSkips(g) ==
    /\ loop[g] = "lock"
    /\ collectionMu = "free"
    /\ loop' = [loop EXCEPT ![g] = "select"]
    /\ UNCHANGED <<state, running, cur, cancelled, collectionMu, restartChan,
                   parentDone, call, overran>>

\* A return that skips the Unlock.
LoopReturns_KeepsMutex(g) ==
    /\ loop[g] = "collect"
    /\ loop' = [loop EXCEPT ![g] = "select"]
    /\ UNCHANGED <<state, running, cur, cancelled, collectionMu, restartChan,
                   parentDone, call, overran>>

\* The worker returned; the observation was saved, or the cycle failed or
\* panicked, which the caller of this action decides.
LoopReturns(g) ==
    /\ loop[g] = "collect"
    /\ collectionMu' = "free"
    /\ loop' = [loop EXCEPT ![g] = "select"]
    /\ UNCHANGED <<state, running, cur, cancelled, restartChan, parentDone, call, overran>>

\* A deferred cleanup that leaves the flag of IsRunning alone.
LoopExits_KeepsRunning(g) ==
    /\ loop[g] = "select"
    /\ g \in cancelled
    /\ loop' = [loop EXCEPT ![g] = "exited"]
    /\ cancelled' = cancelled \ {g}
    /\ state' = "stopped"
    /\ UNCHANGED <<running, cur, collectionMu, restartChan, parentDone, call, overran>>

\* The deferred cleanup writes the collector's state, whichever loop is current.
LoopExits(g) ==
    /\ loop[g] = "select"
    /\ g \in cancelled
    /\ loop' = [loop EXCEPT ![g] = "exited"]
    /\ cancelled' = cancelled \ {g}
    /\ state' = "stopped"
    /\ running' = FALSE
    /\ UNCHANGED <<cur, collectionMu, restartChan, parentDone, call, overran>>

-----------------------------------------------------------------------------
(* Stop, Restart, TriggerNow, CollectFinalObservation.                     *)

\* What a call's first critical section leaves alone.
Loopside == <<running, loop, cur, collectionMu, restartChan, parentDone, overran>>

\* Restart's own check, before it calls Stop.
RestartBegins ==
    /\ call = "none"
    /\ call' = IF state = "running" THEN "restart_stop" ELSE "none"
    /\ UNCHANGED <<state, cancelled, Loopside>>

\* Stop cancels the current loop and waits, unless nothing is running.
Stop(from, wait, next) ==
    /\ call = from
    /\ IF state = "running" THEN cancelled' = cancelled \cup {cur} /\ call' = wait
                            ELSE cancelled' = cancelled /\ call' = next
    /\ UNCHANGED <<state, Loopside>>

\* The loop is gone, or five seconds or the caller's context are over.
StopReturns(wait, next) ==
    /\ call = wait
    /\ call' = next
    /\ overran' = (overran \/ Live(cur))
    /\ UNCHANGED <<state, running, loop, cur, cancelled, collectionMu,
                   restartChan, parentDone>>

\* A restart that relies on the loop to have reset the state.
RestartResets_Not ==
    /\ call = "restart_reset"
    /\ call' = "restart_start"
    /\ restartChan' = FALSE
    /\ UNCHANGED <<state, running, loop, cur, cancelled, collectionMu, parentDone, overran>>

RestartResets ==
    /\ call = "restart_reset"
    /\ call' = "restart_start"
    /\ state' = "created"
    /\ restartChan' = FALSE
    /\ UNCHANGED <<running, loop, cur, cancelled, collectionMu, parentDone, overran>>

\* Start, as Restart calls it.  The new context descends from the supervisor's.
RestartStarts ==
    /\ call = "restart_start"
    /\ call' = "none"
    /\ \E g \in Loops :
        /\ ~Live(g)
        /\ cur' = g
        /\ loop' = [loop EXCEPT ![g] = "select"]
        /\ cancelled' = IF parentDone THEN cancelled \cup {g} ELSE cancelled
    /\ state' = "running"
    /\ running' = TRUE
    /\ UNCHANGED <<collectionMu, restartChan, parentDone, overran>>

\* TriggerNow: the channel holds one trigger at most.
TriggerNow ==
    /\ restartChan' = (restartChan \/ state = "running")
    /\ UNCHANGED <<state, running, loop, cur, cancelled, collectionMu,
                   parentDone, call, overran>>

\* A removal begins with the final observation, a restart of the worker with Stop.
RemovalBegins(restart) ==
    /\ call = "none"
    /\ call' = IF restart THEN "stop" ELSE "final"
    /\ UNCHANGED <<state, cancelled, Loopside>>

\* processSignal takes the final observation of a running collector only.
FinalBegins ==
    /\ call = "final"
    /\ call' = IF running /\ state = "running" THEN "final_lock" ELSE "stop"
    /\ UNCHANGED <<state, cancelled, Loopside>>

\* A final observation that does not take the mutex.
FinalCollects_Unlocked ==
    /\ call = "final_lock"
    /\ call' = "final_collect"
    /\ UNCHANGED <<state, cancelled, Loopside>>

FinalCollects ==
    /\ call = "final_lock"
    /\ collectionMu = "free"
    /\ collectionMu' = "final"
    /\ call' = "final_collect"
    /\ UNCHANGED <<state, running, loop, cur, cancelled, restartChan, parentDone, overran>>

\* The final observation was saved, skipped or failed.
FinalReturns ==
    /\ call = "final_collect"
    /\ collectionMu' = "free"
    /\ call' = "stop"
    /\ UNCHANGED <<state, running, loop, cur, cancelled, restartChan, parentDone, overran>>

\* Shutdown cancels the supervisor's context, and every loop's with it.  The Stop
\* that it calls on the remaining workers afterwards has nothing left to cancel.
ParentCancels ==
    /\ ~parentDone
    /\ parentDone' = TRUE
    /\ cancelled' = {g \in Loops : Live(g)}
    /\ UNCHANGED <<state, running, loop, cur, collectionMu, restartChan, call, overran>>
=============================================================================
