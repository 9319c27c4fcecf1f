-------------------------- MODULE WorkerLifecycle --------------------------
(***************************************************************************)
(* One worker of one FSMv2 supervisor, from registration to removal        *)
(* (fsmv2/supervisor/lifecycle.go, reconciliation.go, api.go).             *)
(*                                                                         *)
(* Two goroutines meet here.  "tick" is the root's tickLoop: it derives    *)
(* and saves the desired state, runs the state machine, and restarts or    *)
(* removes the worker.  "closer" is the caller of Shutdown.  They share    *)
(* the stored desired-state document, whose lifecycle flags every writer   *)
(* loads, changes and saves under lifecycleFlagMu, and the registry        *)
(* s.workers under s.mu.  One action is one critical section or one store  *)
(* access; store failures and elapsed timers are nondeterministic.         *)
(*                                                                         *)
(* A definition named Op_Suffix is a mutant of Op; no specification uses   *)
(* it.                                                                     *)
(***************************************************************************)
EXTENDS Naturals

CONSTANTS
    CanForce,     \* an operator may close the forceExit channel
    MaxAdds       \* bound: AddWorker calls by other goroutines

ASSUME LifecycleAssumption ==
    /\ CanForce \in BOOLEAN
    /\ MaxAdds \in Nat

VARIABLES
    isChild,         \* started by StartAsChild: no tickLoop of its own to join
    stored,          \* the lifecycle flags of the stored desired state
    flagMu,          \* holder of lifecycleFlagMu
    loaded,          \* per goroutine: the flags it loaded and has not saved
    workers,         \* the worker's entry in s.workers and s.removing
    tombstoned,      \* its documents carry a tombstone
    collecting,      \* its collector and executor were started
    started,         \* s.started
    pendingRestart,  \* s.pendingRestart[id]
    pendingReAdd,    \* s.pendingReAdds[id]
    tick,            \* where the tick goroutine is
    closer,          \* where Shutdown is
    atEntry,         \* Shutdown's workerIDs snapshot holds the worker
    drainEnd,        \* how Shutdown left its drain phase
    drainTimedOut,   \* s.drainTimedOut
    ctxDone,         \* Shutdown cancelled s.ctx
    forceExit,       \* the forceExit channel is closed
    adds,            \* bound: AddWorker calls by other goroutines so far
    committed,       \* history: Shutdown's request was saved in the document
    removalAsked,    \* history: someone other than a restart asked for shutdown
    lastRemoval      \* history: did the last removal take its final observation?

registry == <<workers, tombstoned, collecting>>
restart == <<pendingRestart, pendingReAdd>>
closing == <<started, closer, atEntry, drainEnd, drainTimedOut, ctxDone>>
document == <<stored, flagMu, loaded>>
history == <<committed, removalAsked, lastRemoval>>
vars == <<stored, flagMu, loaded, workers, tombstoned, collecting, started,
          pendingRestart, pendingReAdd, tick, closer, atEntry, drainEnd,
          drainTimedOut, ctxDone, forceExit, adds, committed, removalAsked,
          lastRemoval>>

Goroutines == {"tick", "closer"}
Flags == SUBSET {"shutdown", "disabled"}
NoFlags == {"unread"}

\* A freshly derived desired state: workers always derive both flags as false.
Derived == {}

\* The read-modify-write sequences on the document.
FlagOps == {"derive", "request", "clear", "disable", "enable"}

TickStates == FlagOps \cup
    {"idle", "worker", "remove_restart", "restart_check", "create", "add",
     "readd", "procs", "remove", "final", "delete", "exited"}

TypeOK ==
    /\ stored \in Flags
    /\ flagMu \in Goroutines \cup {"free"}
    /\ loaded \in [Goroutines -> Flags \cup {NoFlags}]
    /\ workers \in {"absent", "live", "removing"}
    /\ tombstoned \in BOOLEAN
    /\ collecting \in BOOLEAN
    /\ started \in BOOLEAN
    /\ pendingRestart \in BOOLEAN
    /\ pendingReAdd \in BOOLEAN
    /\ tick \in TickStates
    /\ closer \in {"none", "no_workers", "exists", "request", "drain", "cancel",
                   "join", "cleanup", "done"}
    /\ atEntry \in BOOLEAN
    /\ drainEnd \in {"open", "no_workers", "drained", "timeout", "forced"}
    /\ drainTimedOut \in BOOLEAN
    /\ ctxDone \in BOOLEAN
    /\ forceExit \in BOOLEAN
    /\ adds \in 0..MaxAdds
    /\ committed \in BOOLEAN
    /\ removalAsked \in BOOLEAN
    /\ lastRemoval \in {"none", "observed", "skipped"}

\* AddWorker and Start have run; the first tick has not.
Init ==
    /\ isChild \in BOOLEAN
    /\ stored = Derived
    /\ flagMu = "free"
    /\ loaded = [g \in Goroutines |-> NoFlags]
    /\ workers = "live"
    /\ tombstoned = FALSE
    /\ collecting = TRUE
    /\ started = TRUE
    /\ pendingRestart = FALSE
    /\ pendingReAdd = FALSE
    /\ tick = "idle"
    /\ closer = "none"
    /\ atEntry = FALSE
    /\ drainEnd = "open"
    /\ drainTimedOut = FALSE
    /\ ctxDone = FALSE
    /\ forceExit = FALSE
    /\ adds = 0
    /\ committed = FALSE
    /\ removalAsked = FALSE
    /\ lastRemoval = "none"

-----------------------------------------------------------------------------
(* The read-modify-write of the flags: saveDerivedDesiredState,            *)
(* requestShutdown, clearShutdownRequested, setDisabled.                   *)

\* The operation g is in the middle of, if any.
Op(g) == IF g = "tick" THEN tick ELSE closer

InFlagOp(g) == Op(g) \in FlagOps

\* What the operation makes of the flags it loaded.  A derive carries them
\* forward unchanged.
Modified(op, f) ==
    CASE op = "derive"  -> f
      [] op = "request" -> f \cup {"shutdown"}
      [] op = "clear"   -> f \ {"shutdown"}
      [] op = "disable" -> f \cup {"disabled"}
      [] op = "enable"  -> f \ {"disabled"}

\* Where the goroutine goes on, whether or not the store obeyed: every caller
\* logs a failed read or save and continues.
After(op) ==
    CASE op = "derive" -> "worker"
      [] op = "clear"  -> "create"
      [] OTHER         -> "idle"

Continue(g) ==
    IF g = "tick" THEN tick' = After(tick) /\ UNCHANGED closer
                  ELSE closer' = "drain" /\ UNCHANGED tick

\* A derive that dropped the mutex between its load and its save.
LoadFlags_Unlocked(g) ==
    /\ InFlagOp(g)
    /\ loaded[g] = NoFlags
    /\ loaded' = [loaded EXCEPT ![g] = stored]
    /\ UNCHANGED <<stored, flagMu, tick, closer, registry, restart, started,
                   atEntry, drainEnd, drainTimedOut, ctxDone, forceExit, adds,
                   history>>

LoadFlags(g) ==
    /\ InFlagOp(g)
    /\ loaded[g] = NoFlags
    /\ flagMu = "free"
    /\ flagMu' = g
    /\ loaded' = [loaded EXCEPT ![g] = stored]
    /\ UNCHANGED <<stored, tick, closer, registry, restart, started, atEntry,
                   drainEnd, drainTimedOut, ctxDone, forceExit, adds, history>>

\* The load failed: nothing is saved.
LoadFails(g) ==
    /\ InFlagOp(g)
    /\ loaded[g] = NoFlags
    /\ flagMu = "free"
    /\ Continue(g)
    /\ UNCHANGED <<document, registry, restart, started, atEntry, drainEnd,
                   drainTimedOut, ctxDone, forceExit, adds, history>>

\* A save that does not depend on a successful load.
SaveFlags_Unread(g) ==
    /\ InFlagOp(g)
    /\ stored' = Modified(Op(g), loaded[g])
    /\ loaded' = [loaded EXCEPT ![g] = NoFlags]
    /\ flagMu' = "free"
    /\ Continue(g)
    /\ committed' = (committed \/ g = "closer")
    /\ UNCHANGED <<registry, restart, started, atEntry, drainEnd, drainTimedOut,
                   ctxDone, forceExit, adds, removalAsked, lastRemoval>>

SaveFlags(g) ==
    /\ InFlagOp(g)
    /\ loaded[g] # NoFlags
    /\ stored' = Modified(Op(g), loaded[g])
    /\ loaded' = [loaded EXCEPT ![g] = NoFlags]
    /\ flagMu' = "free"
    /\ Continue(g)
    /\ committed' = (committed \/ g = "closer")
    /\ UNCHANGED <<registry, restart, started, atEntry, drainEnd, drainTimedOut,
                   ctxDone, forceExit, adds, removalAsked, lastRemoval>>

SaveFails(g) ==
    /\ InFlagOp(g)
    /\ loaded[g] # NoFlags
    /\ loaded' = [loaded EXCEPT ![g] = NoFlags]
    /\ flagMu' = "free"
    /\ Continue(g)
    /\ UNCHANGED <<stored, registry, restart, started, atEntry, drainEnd,
                   drainTimedOut, ctxDone, forceExit, adds, history>>

-----------------------------------------------------------------------------
(* The tick: checkRestartTimeouts, then either the derive of the first     *)
(* worker or, without one, the retry of a pending re-add.                  *)

\* timedOut: the restart request is older than DefaultGracefulRestartTimeout.
\* A force reset drops the request; the state machine's reset to its initial
\* state is below this model's grain.
TickBegin(timedOut) ==
    /\ tick = "idle"
    /\ timedOut => pendingRestart
    /\ pendingRestart' = (pendingRestart /\ ~timedOut)
    /\ tick' = IF workers # "absent" THEN "derive"
               ELSE IF started /\ pendingReAdd THEN "readd" ELSE "idle"
    /\ UNCHANGED <<document, registry, pendingReAdd, closing, forceExit, adds, history>>

\* tickWorker returns without a signal: paused, gated, or nothing to say.
TickQuiet ==
    /\ tick = "worker"
    /\ tick' = "idle"
    /\ UNCHANGED <<document, registry, restart, closing, forceExit, adds, history>>

\* SignalNeedsRestart.  States look at IsShutdownRequested first, so a worker
\* that is being shut down does not ask for a restart.
TickNeedsRestart ==
    /\ tick = "worker"
    /\ "shutdown" \notin stored
    /\ pendingRestart' = TRUE
    /\ tick' = "request"
    /\ UNCHANGED <<document, registry, pendingReAdd, closing, forceExit, adds, history>>

\* The collector stays unresponsive after the last restart attempt.
TickEscalate ==
    /\ tick = "worker"
    /\ "shutdown" \notin stored
    /\ tick' = "request"
    /\ removalAsked' = TRUE
    /\ UNCHANGED <<document, registry, restart, closing, forceExit, adds,
                   committed, lastRemoval>>

\* SignalNeedsRemoval, emitted by a stopped worker that is asked to shut down.
\* A pending restart turns it into a restart, unless Shutdown has begun.
TickNeedsRemoval ==
    /\ tick = "worker"
    /\ "shutdown" \in stored
    /\ pendingRestart' = FALSE
    /\ tick' = IF started /\ pendingRestart THEN "remove_restart" ELSE "remove"
    /\ UNCHANGED <<document, registry, pendingReAdd, closing, forceExit, adds, history>>

\* The tickLoop sees ctx.Done().
TickLoopExit ==
    /\ tick = "idle"
    /\ ctxDone
    /\ ~isChild
    /\ tick' = "exited"
    /\ UNCHANGED <<document, registry, restart, closing, forceExit, adds, history>>

-----------------------------------------------------------------------------
(* handleWorkerRestart and retryPendingReAdds.                             *)

RemoveWorkerForRestart ==
    /\ tick = "remove_restart"
    /\ workers' = "absent"
    /\ collecting' = FALSE
    /\ tick' = "restart_check"
    /\ UNCHANGED <<document, tombstoned, restart, closing, forceExit, adds, history>>

\* A restart that does not look at s.started again after the removal.
RestartCheck_Unchecked ==
    /\ tick = "restart_check"
    /\ tick' = "clear"
    /\ UNCHANGED <<document, registry, restart, closing, forceExit, adds, history>>

RestartCheck ==
    /\ tick = "restart_check"
    /\ tick' = IF started THEN "clear" ELSE "idle"
    /\ UNCHANGED <<document, registry, restart, closing, forceExit, adds, history>>

\* The factory fails: handleWorkerRestart returns the error.
RestartCreate(ok) ==
    /\ tick = "create"
    /\ tick' = IF ok THEN "add" ELSE "idle"
    /\ UNCHANGED <<document, registry, restart, closing, forceExit, adds, history>>

\* An AddWorker that leaves the tombstone of the id's earlier life in place.
AddSucceeds_KeepsTombstone ==
    /\ workers = "absent"
    /\ workers' = "live"
    /\ stored' = Derived
    /\ UNCHANGED tombstoned

\* AddWorker: it waits until a removal of the same id is over, refuses an id
\* it has, and fails before or after its SaveDesired.  It does not take
\* lifecycleFlagMu.
AddSucceeds ==
    /\ workers = "absent"
    /\ workers' = "live"
    /\ stored' = Derived
    /\ tombstoned' = FALSE

AddFails ==
    /\ workers # "removing"
    /\ \/ UNCHANGED stored
       \/ workers = "absent" /\ stored' = Derived
    /\ UNCHANGED <<workers, tombstoned>>

RestartAdd ==
    /\ tick = "add"
    /\ \/ AddSucceeds /\ tick' = "procs" /\ UNCHANGED pendingReAdd
       \/ AddFails /\ tick' = "idle" /\ pendingReAdd' = TRUE
    /\ UNCHANGED <<flagMu, loaded, collecting, pendingRestart, closing, forceExit,
                   adds, history>>

\* The failed branch covers the factory's error too.
RetryPendingReAdd ==
    /\ tick = "readd"
    /\ \/ AddSucceeds /\ tick' = "procs" /\ pendingReAdd' = FALSE
       \/ AddFails /\ tick' = "idle" /\ UNCHANGED pendingReAdd
    /\ UNCHANGED <<flagMu, loaded, collecting, pendingRestart, closing, forceExit,
                   adds, history>>

StartWorkerProcesses ==
    /\ tick = "procs"
    /\ tick' = "idle"
    /\ collecting' = (workers # "absent" /\ started)
    /\ UNCHANGED <<document, workers, tombstoned, restart, closing, forceExit, adds,
                   history>>

-----------------------------------------------------------------------------
(* The removal for good: tombstone and mark under s.mu, final observation  *)
(* and stop without it, and only then the registry entry goes.             *)

\* A removal that gives up the registry entry with the tombstone.
RemoveMark_DeletesEntry ==
    /\ tick = "remove"
    /\ tombstoned' \in {tombstoned, TRUE}
    /\ workers' = "absent"
    /\ tick' = "final"
    /\ UNCHANGED <<document, collecting, restart, closing, forceExit, adds, history>>

RemoveMark ==
    /\ tick = "remove"
    /\ tombstoned' \in {tombstoned, TRUE}
    /\ workers' = "removing"
    /\ tick' = "final"
    /\ UNCHANGED <<document, collecting, restart, closing, forceExit, adds, history>>

\* The collector runs on s.ctx: once that is cancelled nothing is observed.
FinalObservation ==
    /\ tick = "final"
    /\ lastRemoval' = IF collecting THEN IF ctxDone THEN "skipped" ELSE "observed"
                                    ELSE lastRemoval
    /\ collecting' = FALSE
    /\ tick' = "delete"
    /\ UNCHANGED <<document, workers, tombstoned, restart, closing, forceExit, adds,
                   committed, removalAsked>>

RemoveEntry ==
    /\ tick = "delete"
    /\ workers' = "absent"
    /\ tick' = "idle"
    /\ UNCHANGED <<document, tombstoned, collecting, restart, closing, forceExit,
                   adds, history>>

-----------------------------------------------------------------------------
(* Calls from outside: the parent's tick, which runs on the same goroutine *)
(* (RequestShutdown, the disable mapping), and AddWorker by another one.   *)

ParentCall(op) ==
    /\ isChild
    /\ tick = "idle"
    /\ workers = "live"
    /\ tick' = op
    /\ removalAsked' = (removalAsked \/ op = "request")
    /\ UNCHANGED <<document, registry, restart, closing, forceExit, adds, committed,
                   lastRemoval>>

ExternalAdd ==
    /\ adds < MaxAdds
    /\ adds' = adds + 1
    /\ AddSucceeds \/ AddFails
    /\ UNCHANGED <<flagMu, loaded, collecting, restart, tick, closing, forceExit,
                   history>>

-----------------------------------------------------------------------------
(* Shutdown.                                                               *)

ShutdownBegin ==
    /\ closer = "none"
    /\ started' = FALSE
    /\ atEntry' = (workers # "absent")
    /\ closer' = IF workers # "absent" THEN "exists" ELSE "no_workers"
    /\ removalAsked' = TRUE
    /\ UNCHANGED <<document, registry, restart, tick, drainEnd, drainTimedOut,
                   ctxDone, forceExit, adds, committed, lastRemoval>>

\* Nothing to drain; the children may have spent the budget.
ShutdownNoWorkers ==
    /\ closer = "no_workers"
    /\ closer' = "cancel"
    /\ drainEnd' = "no_workers"
    /\ drainTimedOut' \in BOOLEAN
    /\ UNCHANGED <<document, registry, restart, tick, started, atEntry, ctxDone,
                   forceExit, adds, history>>

\* requestShutdown looks the worker up before it takes lifecycleFlagMu.
ShutdownRequest ==
    /\ closer = "exists"
    /\ closer' = IF workers = "absent" THEN "drain" ELSE "request"
    /\ UNCHANGED <<document, registry, restart, tick, started, atEntry, drainEnd,
                   drainTimedOut, ctxDone, forceExit, adds, history>>

\* The drain loop's three ways out.
DrainEmpty ==
    /\ closer = "drain"
    /\ workers = "absent"
    /\ closer' = "cancel"
    /\ drainEnd' = "drained"
    /\ UNCHANGED <<document, registry, restart, tick, started, atEntry,
                   drainTimedOut, ctxDone, forceExit, adds, history>>

DrainTimeout ==
    /\ closer = "drain"
    /\ closer' = "cancel"
    /\ drainEnd' = "timeout"
    /\ drainTimedOut' = TRUE
    /\ UNCHANGED <<document, registry, restart, tick, started, atEntry, ctxDone,
                   forceExit, adds, history>>

DrainForced ==
    /\ closer = "drain"
    /\ forceExit
    /\ closer' = "cancel"
    /\ drainEnd' = "forced"
    /\ UNCHANGED <<document, registry, restart, tick, started, atEntry,
                   drainTimedOut, ctxDone, forceExit, adds, history>>

\* A Shutdown that keeps s.ctx alive.
ShutdownCancel_Omitted ==
    /\ closer = "cancel"
    /\ closer' = "join"
    /\ UNCHANGED <<document, registry, restart, tick, started, atEntry, drainEnd,
                   drainTimedOut, ctxDone, forceExit, adds, history>>

ShutdownCancel ==
    /\ closer = "cancel"
    /\ closer' = "join"
    /\ ctxDone' = TRUE
    /\ UNCHANGED <<document, registry, restart, tick, started, atEntry, drainEnd,
                   drainTimedOut, forceExit, adds, history>>

\* The join of the tickLoop, then recordPostJoinBudgetOverrun, which stays
\* silent if a drain branch has already warned.
ShutdownJoin ==
    /\ closer = "join"
    /\ isChild \/ tick = "exited"
    /\ closer' = "cleanup"
    /\ \/ UNCHANGED drainTimedOut
       \/ drainEnd \in {"drained", "no_workers"} /\ drainTimedOut' = TRUE
    /\ UNCHANGED <<document, registry, restart, tick, started, atEntry, drainEnd,
                   ctxDone, forceExit, adds, history>>

ShutdownCleanup ==
    /\ closer = "cleanup"
    /\ closer' = "done"
    /\ collecting' = (collecting /\ workers = "absent")
    /\ UNCHANGED <<document, workers, tombstoned, restart, tick, started, atEntry,
                   drainEnd, drainTimedOut, ctxDone, forceExit, adds, history>>

OperatorForces ==
    /\ CanForce
    /\ ~forceExit
    /\ forceExit' = TRUE
    /\ UNCHANGED <<document, registry, restart, tick, closing, adds, history>>

-----------------------------------------------------------------------------
FlagStep(g) == LoadFlags(g) \/ LoadFails(g) \/ SaveFlags(g) \/ SaveFails(g)

WorkerStep ==
    \/ TickQuiet \/ TickNeedsRestart \/ TickEscalate \/ TickNeedsRemoval

RestartStep ==
    \/ RemoveWorkerForRestart \/ RestartCheck
    \/ \E ok \in BOOLEAN : RestartCreate(ok)
    \/ RestartAdd \/ RetryPendingReAdd \/ StartWorkerProcesses

RemovalStep == RemoveMark \/ FinalObservation \/ RemoveEntry

TickStep ==
    \/ \E timedOut \in BOOLEAN : TickBegin(timedOut)
    \/ FlagStep("tick")
    \/ WorkerStep
    \/ RestartStep
    \/ RemovalStep
    \/ TickLoopExit

DrainStep == DrainEmpty \/ DrainTimeout \/ DrainForced

CloserStep ==
    \/ ShutdownNoWorkers \/ ShutdownRequest
    \/ FlagStep("closer")
    \/ DrainStep
    \/ ShutdownCancel \/ ShutdownJoin \/ ShutdownCleanup

Environment ==
    \/ ShutdownBegin
    \/ \E op \in {"request", "disable", "enable"} : ParentCall(op)
    \/ ExternalAdd
    \/ OperatorForces

Next == TickStep \/ CloserStep \/ Environment

Spec == Init /\ [][Next /\ UNCHANGED isChild]_<<vars, isChild>>

\* The steps that last as long as the worker's own code does: stopWorker and
\* Shutdown's cleanup call executor.Shutdown, whose wg.Wait has no bound, the
\* final observation waits for collectionMu, AddWorker asks for a first
\* observation, and the children's Shutdown comes before this level's drain.
TickWaits == tick \in {"remove_restart", "final", "add", "readd"}
CloserWaits == closer \in {"no_workers", "exists", "cleanup"}

\* The Go scheduler runs both goroutines, a tick that does not wait for the
\* worker runs to its end, the tickLoop's select takes the ready ctx.Done()
\* sooner or later, and sync.Mutex hands the lock to a starving waiter.
FairSpec ==
    /\ Spec
    /\ WF_vars(TickStep /\ ~TickWaits) /\ SF_vars(TickLoopExit)
    /\ WF_vars(CloserStep /\ ~CloserWaits)
    /\ \A g \in Goroutines : SF_vars(FlagStep(g))

\* Every child's Shutdown returns.
ChildrenReturn == WF_vars(ShutdownNoWorkers) /\ WF_vars(ShutdownRequest)

\* Actions and observations return once their context is cancelled, as the
\* worker contract asks, here and in the children.
Cooperative ==
    ChildrenReturn /\ WF_vars(TickStep /\ TickWaits) /\ WF_vars(ShutdownCleanup)

-----------------------------------------------------------------------------
(* Properties                                                              *)

\* The per-tick derive rewrites the whole desired-state document but never
\* changes a lifecycle flag: what a setter committed between the derive's load
\* and its save is not overwritten by the stale value (ENG-4971).
DeriveKeepsFlags ==
    [][tick = "derive" /\ tick' = "worker" => stored' = stored]_vars

\* Once Shutdown's request is saved, no worker runs without seeing it: neither a
\* concurrent derive nor a restart that was already under way when Shutdown
\* began erases it under a live worker.  (AddWorker by another goroutine stores
\* a new document; the supervisor's own re-adds are part of the claim.)
RequestNotLost ==
    adds = 0 /\ committed /\ workers = "live" => "shutdown" \in stored

\* A drain that ended because no worker was left has not cut off a removal:
\* the worker's final observation was made before s.ctx was cancelled.
CleanDrainObserves == drainEnd = "drained" => lastRemoval # "skipped"

\* A registered worker that is not on its way out has no tombstone, also when
\* its id is added again while its predecessor is being removed.
LiveNotTombstoned == workers = "live" => ~tombstoned

\* Shutdown of a cooperative worker returns, whatever the store does and
\* whatever restart, removal or re-add is under way.
ShutdownTerminates == Cooperative => (closer # "none" ~> closer = "done")

\* What the comment on the cascade promises of every level's Shutdown: once the
\* levels below have returned, it is bounded by the drain budget, whatever the
\* worker does.
ShutdownIsBounded == ChildrenReturn => (closer # "none" ~> closer = "done")

\* What the restart signal promises: a worker that only asked for a restart is
\* not removed for good.
RestartIsNotRemoval == tombstoned => removalAsked
=============================================================================
