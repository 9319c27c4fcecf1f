----------------------------- MODULE WorkerTick -----------------------------
(***************************************************************************)
(* tickWorker (fsmv2/supervisor/reconciliation.go) and the collector that  *)
(* feeds it.                                                               *)
(*                                                                         *)
(* The tick loads the stored observation and looks at its age: a fresh one *)
(* goes through the action gate to state.Next, a stale one pauses the      *)
(* worker, and one that has timed out restarts the collector until the     *)
(* attempts are used up and the worker is asked to shut down.  Time is     *)
(* abstracted to the age class of the stored observation and to whether    *)
(* the restart backoff has elapsed; what Next returns is nondeterministic. *)
(***************************************************************************)
EXTENDS Collector

CONSTANT MaxRestartAttempts   \* collectorHealth.maxRestartAttempts

ASSUME TickAssumption == MaxRestartAttempts \in Nat \ {0}

VARIABLES
    age,            \* age class of the stored observation
    restartCount,   \* collectorHealth.restartCount
    shutdown,       \* ShutdownRequested in the stored desired state, and who asked
    pc,             \* where tickWorker is
    actionPending,  \* the gate
    newer,          \* with the gate closed: the stored observation is newer
    unseen,         \* within a tick: the stored observation is newer than its own
    inProgress,     \* the executor holds an action of the worker
    usedStored,     \* history: an action was decided on the stored observation
    usedLoaded      \* history, within a tick: the same of its own observation

tvars == <<age, restartCount, shutdown, pc, actionPending, newer, unseen,
           inProgress, usedStored, usedLoaded>>
vars == <<cvars, tvars>>

gate == <<actionPending, newer>>
action == <<inProgress, usedStored, usedLoaded>>

TypeOK ==
    /\ CollectorTypeOK
    /\ age \in {"fresh", "stale", "timeout"}
    /\ restartCount \in 0..MaxRestartAttempts
    /\ shutdown \in {"none", "requested", "escalated"}
    /\ pc \in {"idle", "next", "removal"}
    /\ actionPending \in BOOLEAN
    /\ newer \in BOOLEAN
    /\ unseen \in BOOLEAN
    /\ inProgress \in BOOLEAN
    /\ usedStored \in BOOLEAN
    /\ usedLoaded \in BOOLEAN

\* AddWorker saved the first observation.
Init ==
    /\ CollectorInit
    /\ age = "fresh"
    /\ restartCount = 0
    /\ shutdown = "none"
    /\ pc = "idle"
    /\ actionPending = FALSE
    /\ newer = FALSE
    /\ unseen = FALSE
    /\ inProgress = FALSE
    /\ usedStored = FALSE
    /\ usedLoaded = FALSE

-----------------------------------------------------------------------------
(* The stored observation.                                                 *)

\* A saved observation carries the time at which the worker returned.
Saved ==
    /\ age' = "fresh"
    /\ newer' = actionPending
    /\ unseen' = (pc = "next")
    /\ usedStored' = FALSE
    /\ UNCHANGED <<restartCount, shutdown, pc, actionPending, inProgress, usedLoaded>>

LoopSaves(g) == LoopReturns(g) /\ Saved
LoopFails(g) == LoopReturns(g) /\ UNCHANGED tvars
FinalSaves == FinalReturns /\ Saved
FinalFails == FinalReturns /\ UNCHANGED tvars

Ages ==
    /\ age # "timeout"
    /\ age' = IF age = "fresh" THEN "stale" ELSE "timeout"
    /\ UNCHANGED <<cvars, restartCount, shutdown, pc, gate, unseen, action>>

-----------------------------------------------------------------------------
(* tickWorker.                                                             *)

Requested == shutdown # "none"

TickBegins ==
    /\ pc = "idle"
    /\ call = "none"
    /\ ~parentDone

\* checkDataFreshness; a worker that shuts down is not held back by it.  A tick
\* on stale data, and one whose restart backoff has not elapsed, change nothing.
Paused == ~Requested /\ age # "fresh"
TimedOut == ~Requested /\ age = "timeout"

\* An escalation that comes one attempt late.
EscalationDue_Late == restartCount > MaxRestartAttempts

EscalationDue == restartCount >= MaxRestartAttempts

\* The request may also fail: the next tick repeats it.
TickEscalates ==
    /\ TickBegins
    /\ TimedOut
    /\ EscalationDue
    /\ shutdown' = "escalated"
    /\ UNCHANGED <<cvars, age, restartCount, pc, gate, unseen, action>>

\* A restart that is not counted.
TickRestarts_Uncounted ==
    /\ TickBegins
    /\ TimedOut
    /\ ~EscalationDue
    /\ RestartBegins
    /\ UNCHANGED <<age, restartCount, shutdown, pc, gate, unseen, action>>

\* restartCollector.  A collector that is not running is counted, not restarted.
TickRestarts ==
    /\ TickBegins
    /\ TimedOut
    /\ ~EscalationDue
    /\ restartCount' = restartCount + 1
    /\ RestartBegins
    /\ UNCHANGED <<age, shutdown, pc, gate, unseen, action>>

\* A gate that any observation opens.
GateOpens_NotNewer == actionPending => age = "fresh" \/ Requested

\* The gate opens for an observation newer than the one the action came from.
GateOpens == actionPending => newer \/ Requested

TickGated ==
    /\ TickBegins
    /\ ~Paused
    /\ ~GateOpens
    /\ restartCount' = 0
    /\ UNCHANGED <<cvars, age, shutdown, pc, gate, unseen, action>>

TickEvaluates ==
    /\ TickBegins
    /\ ~Paused
    /\ GateOpens
    /\ restartCount' = 0
    /\ pc' = "next"
    /\ actionPending' = (actionPending /\ Requested)
    /\ newer' = (newer /\ Requested)
    /\ usedLoaded' = usedStored
    /\ UNCHANGED <<cvars, age, shutdown, unseen, inProgress, usedStored>>

\* Next returned a transition or nothing, or an action that the executor does
\* not take.
NextQuiet ==
    /\ pc = "next"
    /\ pc' = "idle"
    /\ unseen' = FALSE
    /\ usedLoaded' = FALSE
    /\ UNCHANGED <<cvars, age, restartCount, shutdown, gate, inProgress, usedStored>>

\* Next returned an action: it is enqueued and the gate closes on the timestamp
\* of the loaded observation.
NextEnqueues ==
    /\ pc = "next"
    /\ pc' = "idle"
    /\ inProgress' = TRUE
    /\ actionPending' = TRUE
    /\ newer' = unseen
    /\ usedStored' = (usedStored \/ ~unseen)
    /\ unseen' = FALSE
    /\ usedLoaded' = FALSE
    /\ UNCHANGED <<cvars, age, restartCount, shutdown>>

\* SignalNeedsRemoval: processSignal tears the worker down.
NextRemoves(restart) ==
    /\ pc = "next"
    /\ Requested
    /\ pc' = "removal"
    /\ RemovalBegins(restart)
    /\ unseen' = FALSE
    /\ usedLoaded' = FALSE
    /\ UNCHANGED <<age, restartCount, shutdown, gate, inProgress, usedStored>>

\* The completion callback of the executor.
ActionCompletes ==
    /\ inProgress
    /\ inProgress' = FALSE
    /\ TriggerNow
    /\ UNCHANGED <<age, restartCount, shutdown, pc, gate, unseen, usedStored, usedLoaded>>

\* checkRestartTimeouts resets a worker whose restart takes too long.
TickForceResets ==
    /\ TickBegins
    /\ TriggerNow
    /\ UNCHANGED tvars

\* RequestShutdown, or a restart request.
ShutdownIsRequested ==
    /\ ~Requested
    /\ shutdown' = "requested"
    /\ UNCHANGED <<cvars, age, restartCount, pc, gate, unseen, action>>

-----------------------------------------------------------------------------
CollectorCall ==
    \/ Stop("restart_stop", "restart_wait", "restart_reset")
    \/ StopReturns("restart_wait", "restart_reset")
    \/ RestartResets
    \/ RestartStarts
    \/ FinalBegins
    \/ FinalCollects
    \/ Stop("stop", "stop_wait", "stopped")
    \/ StopReturns("stop_wait", "stopped")

LoopRuns(g) ==
    \/ \E triggered \in BOOLEAN : LoopWakes(g, triggered)
    \/ LoopCollects(g)
    \/ LoopSkips(g)
    \/ LoopExits(g)

Tick ==
    \/ TickEscalates \/ TickRestarts \/ TickGated \/ TickEvaluates
    \/ NextQuiet \/ NextEnqueues
    \/ \E restart \in BOOLEAN : NextRemoves(restart)

Next ==
    \/ CollectorCall /\ UNCHANGED tvars
    \/ ParentCancels /\ UNCHANGED tvars
    \/ \E g \in Loops : LoopRuns(g) /\ UNCHANGED tvars
    \/ \E g \in Loops : LoopSaves(g) \/ LoopFails(g)
    \/ FinalSaves \/ FinalFails
    \/ Ages
    \/ Tick
    \/ ActionCompletes
    \/ TickForceResets
    \/ ShutdownIsRequested

Spec == Init /\ [][Next]_vars

\* The tick goroutine goes on, timers fire, select and the mutex are fair.
\* Nothing is assumed of the worker's CollectObservedState.
FairSpec ==
    /\ Spec
    /\ WF_vars(CollectorCall /\ UNCHANGED tvars)
    /\ SF_vars(FinalCollects /\ UNCHANGED tvars)
    /\ WF_vars(TickEscalates \/ TickRestarts)
    /\ WF_vars(NextQuiet)
    /\ \A g \in Loops :
        /\ WF_vars(LoopRuns(g) /\ UNCHANGED tvars)
        /\ SF_vars((LoopCollects(g) \/ LoopSkips(g)) /\ UNCHANGED tvars)
        /\ SF_vars(LoopExits(g) /\ UNCHANGED tvars)

\* The collections of these goroutines, and the final one, end.
Cooperative(some) ==
    /\ \A g \in some : WF_vars(LoopSaves(g) \/ LoopFails(g))
    /\ WF_vars(FinalSaves \/ FinalFails)

\* All loops but one collect and save.
OneHangsSpec ==
    /\ FairSpec
    /\ \E h \in Loops : \A g \in Loops \ {h} :
        /\ SF_vars(LoopCollects(g) /\ UNCHANGED tvars)
        /\ SF_vars(LoopSaves(g))

-----------------------------------------------------------------------------
(* Properties                                                              *)

\* Invariant I8: Restart never starts a loop while the state says running, also
\* when the old loop outlives Stop and writes the state at any later moment.
StartFindsNoneRunning == call = "restart_start" => state # "running"

\* The mutex keeps the loops, the outlived ones included, and the final
\* observation from collecting at the same time.
OneCollection ==
    Cardinality({g \in Loops : loop[g] = "collect"}
                \cup {c \in {"final"} : call = "final_collect"}) <= 1

\* As long as no loop outlived its Stop, IsRunning tells whether the observation
\* loop is active, and every other loop is gone.
RunningIsAccurate ==
    ~overran => /\ running <=> Live(cur)
                /\ \A g \in Loops \ {cur} : ~Live(g)

\* State.Next never decides again on an observation that already led to an
\* action, whatever the collector and the executor do in between.
DecidesOnNewObservation == pc = "next" /\ ~Requested => ~usedLoaded

\* All loops of the model are alive: the bound holds up the next Start.
LoopsExhausted == call = "restart_start" /\ \A g \in Loops : Live(g)

\* A worker whose observations stop for good is asked to shut down, even though
\* restarting its collector does not help.
SilentWorkerEscalates ==
    <>[](age = "timeout" /\ ~parentDone /\ ~LoopsExhausted) => <>Requested

\* If collections end, the removal of a worker runs to its end: the final
\* observation and Stop do not wait for each other.
RemovalCompletes ==
    Cooperative(Loops) => (pc = "removal" ~> call = "stopped")

\* A restart of the collector gets rid of the goroutine that hangs: the worker
\* is observed again.
RestartClearsHungLoop ==
    call = "restart_start" ~> \/ age = "fresh"
                              \/ shutdown = "requested"
                              \/ parentDone
=============================================================================
