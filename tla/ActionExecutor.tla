--------------------------- MODULE ActionExecutor ---------------------------
(***************************************************************************)
(* The asynchronous action executor of one FSMv2 worker                    *)
(* (fsmv2/supervisor/internal/execution/action_executor.go).               *)
(*                                                                         *)
(* The supervisor's tick enqueues actions; a fixed pool of goroutines      *)
(* executes them; a metrics goroutine detects and force-removes stuck      *)
(* ones; Start and Shutdown may overlap, because startWorkerProcesses      *)
(* calls Start outside the supervisor's lock.  Every critical section of   *)
(* ae.mu and every channel operation is one action, so that everything the *)
(* scheduler can put between two of them is a behaviour of this module.    *)
(*                                                                         *)
(* A definition named Op_Suffix is a mutant of Op: a plausible bug of the  *)
(* code that a property must notice.  No specification uses it.            *)
(***************************************************************************)
EXTENDS Naturals, Sequences

CONSTANTS
    ActionIDs,               \* names of the actions a state may emit
    Workers,                 \* goroutines of the pool (workerCount)
    Callers,                 \* goroutines that call EnqueueAction
    QueueCap,                \* cap(actionQueue)
    DetectionMultiplier,     \* stuckActionDetectionMultiplier
    ForceRemoveMultiplier,   \* stuckActionForceRemoveMultiplier
    MaxGen                   \* bound: generations handed out

ASSUME ExecutorAssumption ==
    /\ QueueCap \in Nat
    /\ DetectionMultiplier \in Nat
    /\ ForceRemoveMultiplier \in Nat
    /\ DetectionMultiplier < ForceRemoveMultiplier
    /\ MaxGen \in Nat

\* Only tickWorker enqueues on a worker's executor, and tickInProgress admits
\* one tickWorker at a time.
ASSUME SingleCallerAssumption == \A c, d \in Callers : c = d

VARIABLES
    inProgress,       \* ae.inProgress: the entry of an action ID, or NoEntry
    nextGeneration,   \* ae.nextGeneration
    actionQueue,      \* the buffered channel's contents
    queueClosed,      \* close(actionQueue) has happened
    stopped,          \* ae.stopped
    caller,           \* per caller: between its unlock and its channel send?
    worker,           \* per pool goroutine: where it is and on which work
    metrics,          \* metricsReporter: state and the forced entries to report
    start,            \* progress of Start
    shutdown,         \* progress of Shutdown and the cancel functions it saw
    parentDone,       \* the supervisor's context is cancelled
    ctxDone,          \* ae.cancel was called
    callbacks,        \* history: onActionComplete calls per generation
    forced,           \* history: generations the reporter force-removed
    sentOnClosed      \* history: a send met the closed channel (Go panics)

vars == <<inProgress, nextGeneration, actionQueue, queueClosed, stopped,
          caller, worker, metrics, start, shutdown, parentDone, ctxDone,
          callbacks, forced, sentOnClosed>>

Gens == 1..MaxGen

\* Elapsed time of an entry, in units of the action's own timeout, up to the
\* first value at which every threshold has been passed.
Ages == 0..(ForceRemoveMultiplier + 1)

NoEntry == [gen |-> 0, age |-> 0, stuckReported |-> FALSE]
Entries == [gen : Gens, age : Ages, stuckReported : BOOLEAN] \cup {NoEntry}

Works == [id : ActionIDs, gen : Gens]
NoWork == [id |-> "none", gen |-> 0]

\* A goroutine that holds work carries it from one critical section to the
\* next; the three kinds of holder are callers, the channel and pool workers.
Idle == [pc |-> "idle", work |-> NoWork]
CallerStates == [pc : {"send", "full"}, work : Works] \cup {Idle}
WorkerStates ==
    [pc : {"exec", "report"}, work : Works]
        \cup [pc : {"unborn", "idle", "exited"}, work : {NoWork}]

MetricsStates == [pc : {"unborn", "running", "exited"},
                  cancelled : BOOLEAN, report : SUBSET Gens]
ShutdownPhases == {"none", "stopped", "joined", "closed", "cancelled", "done"}
ShutdownStates == [pc : ShutdownPhases, cancel : BOOLEAN, metricsCancel : BOOLEAN]

TypeOK ==
    /\ inProgress \in [ActionIDs -> Entries]
    /\ nextGeneration \in 0..MaxGen
    /\ actionQueue \in Seq(Works)
    /\ queueClosed \in BOOLEAN
    /\ stopped \in BOOLEAN
    /\ caller \in [Callers -> CallerStates]
    /\ worker \in [Workers -> WorkerStates]
    /\ metrics \in MetricsStates
    /\ start \in {"new", "registered", "spawned", "done"}
    /\ shutdown \in ShutdownStates
    /\ parentDone \in BOOLEAN
    /\ ctxDone \in BOOLEAN
    /\ callbacks \in [Gens -> Nat]
    /\ forced \in SUBSET Gens
    /\ sentOnClosed \in BOOLEAN

Init ==
    /\ inProgress = [id \in ActionIDs |-> NoEntry]
    /\ nextGeneration = 0
    /\ actionQueue = <<>>
    /\ queueClosed = FALSE
    /\ stopped = FALSE
    /\ caller = [c \in Callers |-> Idle]
    /\ worker = [w \in Workers |-> [pc |-> "unborn", work |-> NoWork]]
    /\ metrics = [pc |-> "unborn", cancelled |-> FALSE, report |-> {}]
    /\ start = "new"
    /\ shutdown = [pc |-> "none", cancel |-> FALSE, metricsCancel |-> FALSE]
    /\ parentDone = FALSE
    /\ ctxDone = FALSE
    /\ callbacks = [g \in Gens |-> 0]
    /\ forced = {}
    /\ sentOnClosed = FALSE

-----------------------------------------------------------------------------
(* Start: three stages, the first and the last of them critical sections.  *)

StartRegister ==
    /\ start = "new"
    /\ start' = "registered"
    /\ UNCHANGED <<inProgress, nextGeneration, actionQueue, queueClosed, stopped,
                   caller, worker, metrics, shutdown, parentDone, ctxDone,
                   callbacks, forced, sentOnClosed>>

StartSpawn ==
    /\ start = "registered"
    /\ start' = "spawned"
    /\ worker' = [w \in Workers |-> Idle]
    /\ UNCHANGED <<inProgress, nextGeneration, actionQueue, queueClosed, stopped,
                   caller, metrics, shutdown, parentDone, ctxDone, callbacks,
                   forced, sentOnClosed>>

StartMetrics ==
    /\ start = "spawned"
    /\ start' = "done"
    /\ metrics' = [metrics EXCEPT !.pc = "running"]
    /\ UNCHANGED <<inProgress, nextGeneration, actionQueue, queueClosed, stopped,
                   caller, worker, shutdown, parentDone, ctxDone, callbacks,
                   forced, sentOnClosed>>

-----------------------------------------------------------------------------
(* EnqueueAction: the registration under ae.mu, then, after the unlock, the *)
(* non-blocking send.  The tick goroutine starts an executor before it     *)
(* ticks its worker, so no enqueue precedes the end of Start.  The two     *)
(* rejections (stopped, already in progress) change nothing and are the    *)
(* states in which EnqueueRegister is disabled.                            *)

\* Mutant: an action that is in progress is registered again.
EnqueueRegister_Twice(c, id) ==
    /\ start = "done"
    /\ caller[c] = Idle
    /\ ~stopped
    /\ nextGeneration < MaxGen
    /\ nextGeneration' = nextGeneration + 1
    /\ inProgress' = [inProgress EXCEPT ![id] =
            [gen |-> nextGeneration + 1, age |-> 0, stuckReported |-> FALSE]]
    /\ caller' = [caller EXCEPT ![c] =
            [pc |-> "send", work |-> [id |-> id, gen |-> nextGeneration + 1]]]
    /\ UNCHANGED <<actionQueue, queueClosed, stopped, worker, metrics, start,
                   shutdown, parentDone, ctxDone, callbacks, forced, sentOnClosed>>

EnqueueRegister(c, id) ==
    /\ start = "done"
    /\ caller[c] = Idle
    /\ ~stopped
    /\ inProgress[id] = NoEntry
    /\ nextGeneration < MaxGen
    /\ nextGeneration' = nextGeneration + 1
    /\ inProgress' = [inProgress EXCEPT ![id] =
            [gen |-> nextGeneration + 1, age |-> 0, stuckReported |-> FALSE]]
    /\ caller' = [caller EXCEPT ![c] =
            [pc |-> "send", work |-> [id |-> id, gen |-> nextGeneration + 1]]]
    /\ UNCHANGED <<actionQueue, queueClosed, stopped, worker, metrics, start,
                   shutdown, parentDone, ctxDone, callbacks, forced, sentOnClosed>>

EnqueueSend(c) ==
    /\ caller[c].pc = "send"
    /\ ~queueClosed
    /\ Len(actionQueue) < QueueCap
    /\ actionQueue' = Append(actionQueue, caller[c].work)
    /\ caller' = [caller EXCEPT ![c] = Idle]
    /\ UNCHANGED <<inProgress, nextGeneration, queueClosed, stopped, worker,
                   metrics, start, shutdown, parentDone, ctxDone, callbacks,
                   forced, sentOnClosed>>

\* select with a default branch on a full channel: the caller gives up.
EnqueueFull(c) ==
    /\ caller[c].pc = "send"
    /\ ~queueClosed
    /\ Len(actionQueue) >= QueueCap
    /\ caller' = [caller EXCEPT ![c].pc = "full"]
    /\ UNCHANGED <<inProgress, nextGeneration, actionQueue, queueClosed, stopped,
                   worker, metrics, start, shutdown, parentDone, ctxDone,
                   callbacks, forced, sentOnClosed>>

\* delete(ae.inProgress, actionID)
Unregister_KeepsStartTime(id) == [inProgress EXCEPT ![id].gen = 0]

Unregister(id) == [inProgress EXCEPT ![id] = NoEntry]

EnqueueRollback_KeepsEntry(c) ==
    /\ caller[c].pc = "full"
    /\ caller' = [caller EXCEPT ![c] = Idle]
    /\ UNCHANGED <<inProgress, nextGeneration, actionQueue, queueClosed, stopped,
                   worker, metrics, start, shutdown, parentDone, ctxDone,
                   callbacks, forced, sentOnClosed>>

EnqueueRollback(c) ==
    /\ caller[c].pc = "full"
    /\ inProgress' = Unregister(caller[c].work.id)
    /\ caller' = [caller EXCEPT ![c] = Idle]
    /\ UNCHANGED <<nextGeneration, actionQueue, queueClosed, stopped, worker,
                   metrics, start, shutdown, parentDone, ctxDone, callbacks,
                   forced, sentOnClosed>>

\* A send on a closed channel panics even in a select with a default branch;
\* the tick's own recover catches it, and the entry stays registered.
EnqueuePanic(c) ==
    /\ caller[c].pc = "send"
    /\ queueClosed
    /\ sentOnClosed' = TRUE
    /\ caller' = [caller EXCEPT ![c] = Idle]
    /\ UNCHANGED <<inProgress, nextGeneration, actionQueue, queueClosed, stopped,
                   worker, metrics, start, shutdown, parentDone, ctxDone,
                   callbacks, forced>>

-----------------------------------------------------------------------------
(* worker and executeWorkWithRecovery.                                     *)

WorkerCtxDone == ctxDone \/ parentDone

WorkerReceive(w) ==
    /\ worker[w] = Idle
    /\ actionQueue # <<>>
    /\ worker' = [worker EXCEPT ![w] = [pc |-> "exec", work |-> Head(actionQueue)]]
    /\ actionQueue' = Tail(actionQueue)
    /\ UNCHANGED <<inProgress, nextGeneration, queueClosed, stopped, caller,
                   metrics, start, shutdown, parentDone, ctxDone, callbacks,
                   forced, sentOnClosed>>

WorkerExit(w) ==
    /\ worker[w] = Idle
    /\ WorkerCtxDone \/ (queueClosed /\ actionQueue = <<>>)
    /\ worker' = [worker EXCEPT ![w].pc = "exited"]
    /\ UNCHANGED <<inProgress, nextGeneration, actionQueue, queueClosed, stopped,
                   caller, metrics, start, shutdown, parentDone, ctxDone,
                   callbacks, forced, sentOnClosed>>

\* Execute returned, failed, timed out or panicked: the four outcomes run the
\* same deferred critical section, which drops the entry only if it is still
\* the one this work was registered under.
GenerationMatch_EntryExists(work) == inProgress[work.id] # NoEntry

GenerationMatch(work) == inProgress[work.id].gen = work.gen

WorkerComplete(w) ==
    /\ worker[w].pc = "exec"
    /\ LET work == worker[w].work
       IN  IF GenerationMatch(work)
             THEN /\ inProgress' = Unregister(work.id)
                  /\ worker' = [worker EXCEPT ![w].pc = "report"]
             ELSE /\ worker' = [worker EXCEPT ![w] = Idle]
                  /\ UNCHANGED inProgress
    /\ UNCHANGED <<nextGeneration, actionQueue, queueClosed, stopped, caller,
                   metrics, start, shutdown, parentDone, ctxDone, callbacks,
                   forced, sentOnClosed>>

WorkerCallback(w) ==
    /\ worker[w].pc = "report"
    /\ callbacks' = [callbacks EXCEPT ![worker[w].work.gen] = @ + 1]
    /\ worker' = [worker EXCEPT ![w] = Idle]
    /\ UNCHANGED <<inProgress, nextGeneration, actionQueue, queueClosed, stopped,
                   caller, metrics, start, shutdown, parentDone, ctxDone, forced,
                   sentOnClosed>>

-----------------------------------------------------------------------------
(* metricsReporter and time.                                               *)

\* An action may run, or wait in the queue, for any length of time.
Elapse(id) ==
    /\ inProgress[id] # NoEntry
    /\ inProgress[id].age < ForceRemoveMultiplier + 1
    /\ inProgress' = [inProgress EXCEPT ![id].age = @ + 1]
    /\ UNCHANGED <<nextGeneration, actionQueue, queueClosed, stopped, caller,
                   worker, metrics, start, shutdown, parentDone, ctxDone,
                   callbacks, forced, sentOnClosed>>

Expired_UnlessReported(id) ==
    inProgress[id].age > ForceRemoveMultiplier /\ ~inProgress[id].stuckReported

Expired(id) == inProgress[id].age > ForceRemoveMultiplier
Stuck(id)   == inProgress[id].age > DetectionMultiplier

ExpiredGens == {inProgress[id].gen : id \in {i \in ActionIDs : Expired(i)}}

\* One ticker period: a pass over all entries under the lock.
MetricsTick ==
    /\ metrics.pc = "running"
    /\ metrics.report = {}
    /\ \E id \in ActionIDs : Expired(id) \/ (Stuck(id) /\ ~inProgress[id].stuckReported)
    /\ inProgress' = [id \in ActionIDs |->
            CASE Expired(id) -> NoEntry
              [] Stuck(id) /\ ~Expired(id) -> [inProgress[id] EXCEPT !.stuckReported = TRUE]
              [] OTHER -> inProgress[id]]
    /\ metrics' = [metrics EXCEPT !.report = ExpiredGens]
    /\ forced' = forced \cup ExpiredGens
    /\ UNCHANGED <<nextGeneration, actionQueue, queueClosed, stopped, caller,
                   worker, start, shutdown, parentDone, ctxDone, callbacks,
                   sentOnClosed>>

\* After the unlock the reporter calls the completion callback per entry.
MetricsCallback(g) ==
    /\ g \in metrics.report
    /\ callbacks' = [callbacks EXCEPT ![g] = @ + 1]
    /\ metrics' = [metrics EXCEPT !.report = @ \ {g}]
    /\ UNCHANGED <<inProgress, nextGeneration, actionQueue, queueClosed, stopped,
                   caller, worker, start, shutdown, parentDone, ctxDone, forced,
                   sentOnClosed>>

MetricsExit ==
    /\ metrics.pc = "running"
    /\ metrics.report = {}
    /\ metrics.cancelled \/ parentDone
    /\ metrics' = [metrics EXCEPT !.pc = "exited"]
    /\ UNCHANGED <<inProgress, nextGeneration, actionQueue, queueClosed, stopped,
                   caller, worker, start, shutdown, parentDone, ctxDone,
                   callbacks, forced, sentOnClosed>>

-----------------------------------------------------------------------------
(* Shutdown, and the cancellation of the supervisor's context.             *)

\* ae.stopped = TRUE; the cancel functions that exist are captured.  Two
\* callers: stopWorker, on the goroutine that started the executor, and
\* Supervisor.Shutdown, on any goroutine but after cancelling the context.
ShutdownStop ==
    /\ shutdown.pc = "none"
    /\ start = "done" \/ parentDone
    /\ stopped' = TRUE
    /\ shutdown' = [pc |-> "stopped",
                    cancel |-> start # "new",
                    metricsCancel |-> start = "done"]
    /\ UNCHANGED <<inProgress, nextGeneration, actionQueue, queueClosed, caller,
                   worker, metrics, start, parentDone, ctxDone, callbacks,
                   forced, sentOnClosed>>

\* metricsCancel() and, in a state of its own, metricsWg.Wait().
ShutdownCancelMetrics ==
    /\ shutdown.pc = "stopped"
    /\ shutdown.metricsCancel
    /\ ~metrics.cancelled
    /\ metrics' = [metrics EXCEPT !.cancelled = TRUE]
    /\ UNCHANGED <<inProgress, nextGeneration, actionQueue, queueClosed, stopped,
                   caller, worker, start, shutdown, parentDone, ctxDone,
                   callbacks, forced, sentOnClosed>>

ShutdownJoinMetrics ==
    /\ shutdown.pc = "stopped"
    /\ shutdown.metricsCancel => metrics.cancelled
    /\ metrics.pc # "running"
    /\ shutdown' = [shutdown EXCEPT !.pc = "joined"]
    /\ UNCHANGED <<inProgress, nextGeneration, actionQueue, queueClosed, stopped,
                   caller, worker, metrics, start, parentDone, ctxDone,
                   callbacks, forced, sentOnClosed>>

ShutdownClose ==
    /\ shutdown.pc = "joined"
    /\ queueClosed' = TRUE
    /\ shutdown' = [shutdown EXCEPT !.pc = "closed"]
    /\ UNCHANGED <<inProgress, nextGeneration, actionQueue, stopped, caller,
                   worker, metrics, start, parentDone, ctxDone, callbacks,
                   forced, sentOnClosed>>

ShutdownCancel_Omitted ==
    /\ shutdown.pc = "closed"
    /\ shutdown' = [shutdown EXCEPT !.pc = "cancelled"]
    /\ UNCHANGED <<inProgress, nextGeneration, actionQueue, queueClosed, stopped,
                   caller, worker, metrics, start, parentDone, ctxDone,
                   callbacks, forced, sentOnClosed>>

ShutdownCancel ==
    /\ shutdown.pc = "closed"
    /\ ctxDone' = shutdown.cancel
    /\ shutdown' = [shutdown EXCEPT !.pc = "cancelled"]
    /\ UNCHANGED <<inProgress, nextGeneration, actionQueue, queueClosed, stopped,
                   caller, worker, metrics, start, parentDone, callbacks,
                   forced, sentOnClosed>>

\* wg counts every pool goroutine from StartRegister until it exits.
WaitGroupZero_QueueDrained == actionQueue = <<>>

WaitGroupZero == start = "new" \/ \A w \in Workers : worker[w].pc = "exited"

ShutdownWait ==
    /\ shutdown.pc = "cancelled"
    /\ WaitGroupZero
    /\ shutdown' = [shutdown EXCEPT !.pc = "done"]
    /\ UNCHANGED <<inProgress, nextGeneration, actionQueue, queueClosed, stopped,
                   caller, worker, metrics, start, parentDone, ctxDone,
                   callbacks, forced, sentOnClosed>>

ParentCancel ==
    /\ ~parentDone
    /\ parentDone' = TRUE
    /\ UNCHANGED <<inProgress, nextGeneration, actionQueue, queueClosed, stopped,
                   caller, worker, metrics, start, shutdown, ctxDone, callbacks,
                   forced, sentOnClosed>>

-----------------------------------------------------------------------------
CallerStep(c) ==
    \/ \E id \in ActionIDs : EnqueueRegister(c, id)
    \/ EnqueueSend(c)
    \/ EnqueueFull(c)
    \/ EnqueueRollback(c)
    \/ EnqueuePanic(c)

WorkerStep(w) ==
    \/ WorkerReceive(w)
    \/ WorkerExit(w)
    \/ WorkerComplete(w)
    \/ WorkerCallback(w)

MetricsStep ==
    \/ MetricsTick
    \/ \E g \in Gens : MetricsCallback(g)
    \/ MetricsExit

ShutdownStep ==
    \/ ShutdownStop
    \/ ShutdownCancelMetrics
    \/ ShutdownJoinMetrics
    \/ ShutdownClose
    \/ ShutdownCancel
    \/ ShutdownWait

Next ==
    \/ StartRegister
    \/ StartSpawn
    \/ StartMetrics
    \/ \E c \in Callers : CallerStep(c)
    \/ \E w \in Workers : WorkerStep(w)
    \/ \E id \in ActionIDs : Elapse(id)
    \/ MetricsStep
    \/ ShutdownStep
    \/ ParentCancel

Spec == Init /\ [][Next]_vars

\* Goroutines that are neither blocked nor hung keep running.  Nothing here
\* makes an action's Execute return or makes anyone call Shutdown.
SystemFairness ==
    /\ WF_vars(StartRegister \/ StartSpawn \/ StartMetrics)
    /\ \A c \in Callers :
        WF_vars(EnqueueSend(c) \/ EnqueueFull(c) \/ EnqueueRollback(c) \/ EnqueuePanic(c))
    /\ \A w \in Workers : WF_vars(WorkerReceive(w) \/ WorkerExit(w) \/ WorkerCallback(w))
    /\ \A id \in ActionIDs : WF_vars(Elapse(id))
    /\ WF_vars(MetricsStep)
    /\ WF_vars(ShutdownStep /\ ~ShutdownStop)

\* An action may ignore its context and never return.
HangingSpec == Spec /\ SystemFairness

\* Execute returns once its context is cancelled, as the Action contract asks.
Cooperative == \A w \in Workers : WF_vars(WorkerComplete(w) /\ WorkerCtxDone)

-----------------------------------------------------------------------------
(* Properties.                                                             *)

Holds(h, id, g) == h.work = [id |-> id, gen |-> g]

\* A registration is in the hands of the caller that made it, in the channel
\* or of a pool goroutine that is executing it.
HeldBySomeone(id, g) ==
    \/ \E c \in Callers : Holds(caller[c], id, g)
    \/ \E i \in 1..Len(actionQueue) : actionQueue[i] = [id |-> id, gen |-> g]
    \/ \E w \in Workers : worker[w].pc = "exec" /\ Holds(worker[w], id, g)

\* Every registration is answered at most once: the completion callback
\* (action history and collector trigger) never runs both for the execution
\* and for its force-removal, however late the execution ends.
AtMostOneCallback == \A g \in Gens : callbacks[g] <= 1

\* An action ID never stays "in progress" with nobody left to complete it:
\* HasActionInProgress would make tickWorker skip the action until the
\* reporter removes it.  A send that panicked is the one exception.
NoOrphanEntry ==
    sentOnClosed \/ \A id \in ActionIDs :
        inProgress[id] # NoEntry => HeldBySomeone(id, inProgress[id].gen)

\* Two goroutines execute the same action ID at the same time only when the
\* older execution had been force-removed as stuck.
OneLiveExecution ==
    \A v, w \in Workers :
        /\ v # w
        /\ worker[v].pc = "exec"
        /\ worker[w].pc = "exec"
        /\ worker[v].work.id = worker[w].work.id
        => worker[v].work.gen \in forced \/ worker[w].work.gen \in forced

\* When Shutdown has returned, no action is executing, none will be, and no
\* completion callback reaches the worker that is being torn down.
QuietAfterShutdown ==
    shutdown.pc = "done" =>
        /\ \A w \in Workers : worker[w].pc \notin {"exec", "report"}
        /\ metrics.report = {}

Registered == {inProgress[id].gen : id \in ActionIDs}

\* A hung action blocks its ID for a bounded time only: the reporter removes
\* the entry unless the executor is being stopped.
EntryEventuallyReleased ==
    \A g \in Gens :
        g \in Registered ~> g \notin Registered \/ stopped \/ parentDone

\* Shutdown terminates when actions honour the cancellation of their context,
\* also when it overlaps Start.
ShutdownTerminates ==
    Cooperative => (shutdown.pc = "stopped" ~> shutdown.pc = "done")

\* The stopped check of EnqueueAction is there, its comment says, to prevent a
\* send on the closed channel.
NoSendOnClosedChannel == ~sentOnClosed

=============================================================================
