# TLA+ project for UMH Core

This directory holds TLA+ models of the control software of UMH Core (`umh-core/`),
TLC configurations that check them on small instances, and TLAPS proofs of their
safety properties, and of one refinement, for every value of the constants.
`PROJECT.json` maps every definition to the lines it models.

    tlc -workers 2 -config MCWorkerTick_cycle.cfg MCWorkerTick     # one run
    tlapm WorkerTickProofs.tla                                     # one proof module

## 1. The system

UMH Core is one Go process that runs industrial data flows. Its configuration is one
file. The management console edits that file through *actions*; the control loop reads
it several times a second and makes the running services follow.

Two generations of control software live in the process. In *FSM v1* (`internal/fsm`,
`pkg/fsm`, `pkg/control`) the control loop calls one manager per kind of component, and
each manager reconciles its instances, state machines over s6 services. *FSMv2*
(`fsmv2/`) is the generic supervisor that newer parts run on: a *supervisor* owns
*workers* (in practice one) and *child supervisors*, and every worker has three
documents in a store: identity, desired state and observed state. The root's `tickLoop`
goroutine ticks the whole tree depth first, beside one collector and one action pool
per worker and the caller of `Shutdown`.

### Inventory

| Component | State it keeps | Operations | Meets |
|---|---|---|---|
| Action executor (`internal/execution/action_executor.go`) | `inProgress`, generations, channel, `stopped`, pool and reporter goroutines | `Start`, `EnqueueAction`, the worker loop, the metrics reporter's force-removal of stuck actions, `Shutdown` | called by `tickWorker`; calls back into the action history and the collector |
| Collector (`internal/collection/collector.go`) | `state`, `running`, context, `goroutineDone`, `restartChan`, `collectionMu` | `Start`, `Stop`, `Restart`, `TriggerNow`, `CollectFinalObservation`, the observation loop | writes the observed state; restarted by the tick, triggered by the executor |
| Worker tick (`reconciliation.go` `tickWorker`, `internal/health`) | action gate, restart budget | freshness check, collector restart, escalation, gate, `State.Next`, signals | collector, executor, lifecycle |
| Worker lifecycle (`lifecycle.go`, `api.go`) | registry, `removing`, `pendingRestart`, `pendingReAdds`, lifecycle flags in the desired state, `started`, contexts | `AddWorker`, restart, removal, `RequestShutdown`, `SetDisabled`, `Shutdown` with its drain | the store; the parent's reconciliation |
| Child reconciliation (`reconciliation.go` `reconcileChildren`) | `children`, `pendingRemoval` | creation, disable mapping, two-phase removal | the children's lifecycle |
| Circuit breakers (`panic_recovery.go`, `infrastructure_health.go`) | panic window, `panicCircuitOpen`, `circuitOpen` | panic recovery, suppression, the gate on unhealthy children | parent and child ticks |
| Triangular store (`cse/storage`), in-memory persistence | documents with sync ids and tombstones, delta log, snapshot cache | saves, `Tombstone`, `ClearTombstone`, `LoadSnapshot`, `GetDeltas`, `CompactDeltas` | used by all of the above |
| FSM v1 base machine and backoff (`internal/fsm`, `pkg/backoff`) | lifecycle state, error count, suspension, permanent failure, transient streak | `SendEvent`, `Remove`, `HandlePermanentError`, `ReconcileLifecycleStates` | every kind's `Reconcile` |
| FSM v1 machines (`pkg/fsm/<kind>`, thirteen kinds) | operational state, desired state, observed state | the transition table and the reconcile functions | the services; the base machine |
| FSM v1 base manager (`pkg/fsm/base_manager.go`) | instances, cooldowns in ticks | `Reconcile` with its four steps, escalation of stuck removals | the control loop's configuration |
| Configuration manager (`pkg/config`) | the file, its cached copy and modification time, the background refresh | `GetConfig`, `writeConfig`, the `Atomic...` updates, `WriteYAMLConfigFromString`, the conversions in `yamlParsing.go` | control loop and actions |
| Actions (`pkg/communicator/actions`) | one goroutine per request | update, wait for the running system, roll back | configuration manager, control loop |
| Port manager, subscribers, topic browser cache, services, ... | see `PROJECT.json` `components` | | not modelled |

What makes these parts hard to test, and what each one must guarantee:

- *Action executor.* A hung action is force-removed and its ID used again while the
  old goroutine still runs; `Shutdown` overlaps `Start`; the stopped check and the
  channel send are in different critical sections. A registration is answered at most
  once, an entry never stays without an owner, a hung action blocks its ID for a
  bounded time only, and nothing runs after `Shutdown`.
- *Collector and worker tick.* `Stop` waits at most five seconds, so a loop can
  outlive it and write the collector's state later; a final observation competes with
  the loop. Collections do not overlap, `Start` never finds a running collector, an
  observation leads to one decision at most, and a silent worker is escalated.
- *Worker lifecycle.* Several writers rewrite the whole desired-state document;
  `Shutdown` arrives in the middle of a restart or a removal. A shutdown request is
  not lost, a clean drain has observed the worker's last state, a re-added worker
  inherits no tombstone, and `Shutdown` returns if the worker's code does.
- *Child reconciliation.* Specs change while a removal takes several ticks; store and
  factory calls fail. Children follow their specs, a disabled child is never ticked as
  an enabled one, and a removal mark never survives its reason.
- *Circuit breakers.* Whether a supervisor may tick depends on its children, and
  whether they recover depends on its ticks. A circuit has a cause and closes again,
  and a shutdown passes an unhealthy subtree.
- *Triangular store.* A late save of the collector meets the tombstone of a removal; a
  sync id is taken long before its delta is appended; appends and writes fail. No write
  is lost, no removed worker is revived, the deltas describe the documents field by field
  as far as none of them was lost or compacted, and a client that pages skips none.
- *FSM v1.* Thirteen pairs of hand-kept lists (transition tables and reconcile
  functions) must agree; an error in any step counts towards a permanent failure that
  tears the instance down; the configuration changes in the middle of a removal. No
  event is refused, no service is forgotten, and after failures stop the instance
  arrives where the configuration wants it.
- *Configuration.* Concurrent actions, a refresh without a lock, hand edits and
  rollbacks work on one file; a template is one entry on disk and several in memory. No
  update is lost, a failed action leaves no trace, no component is emptied (each with the
  exceptions of section 3), every action ends, and the control loop catches up.

`PROJECT.json` lists every hazard with its line, the properties that cover it, or the
reason why none does.

## 2. The modules

Every module abstracts data (documents, actions and names are model values or flags)
and keeps the control: one action per critical section, channel operation or store
access. Time is a nondeterministic choice of what has elapsed. Definitions named
`Op_Suffix` are mutants of `Op`: each is a plausible bug, listed in `PROJECT.json`
with the property that notices it, and used by no specification.

**ActionExecutor.** `inProgress` maps an action ID to its entry (generation, age in
multiples of the action's timeout, `stuckReported`). A registration moves from the
caller to the channel to a pool goroutine, which takes the entry away if its
generation still matches and then calls back; the reporter does the same for expired
entries. `EnqueueRegister`, `EnqueueSend`, `EnqueueFull` and `EnqueueRollback` are the
sections of `EnqueueAction`, `Start*` and `Shutdown*` the steps of `Start` and
`Shutdown`. Only `tickWorker` enqueues, one at a time (`SingleCallerAssumption`).

**WorkerLifecycle.** One worker, the tick goroutine and the caller of `Shutdown`.
`LoadFlags`, `SaveFlags` and their failing forms are the read-modify-write that
`saveDerivedDesiredState`, `requestShutdown`, `clearShutdownRequested` and
`setDisabled` share; `tick` and `closer` say which of them is under way.
`TickNeedsRemoval`, `RemoveMark`, `FinalObservation` and `RemoveEntry` are the
removal; `RemoveWorkerForRestart`, `RestartCheck`, `RestartCreate`, `RestartAdd` and
`RetryPendingReAdd` the restart; `Shutdown*` and `Drain*` the phases of `Shutdown`.
The state machine of the worker is abstracted to the signals it may emit. Some steps last
as long as the worker's own code: `executor.Shutdown` ends in a `wg.Wait` without a bound,
the final observation waits for `collectionMu`, and `Shutdown` waits for the children's.
`TickWaits` and `CloserWaits` name them, and no fairness is assumed of them.

**Collector** and **WorkerTick.** `Collector` holds the observation loop goroutines,
also those that outlived their `Stop`, and the calls the tick goroutine makes
(`call`). `WorkerTick` EXTENDS it with `tickWorker`: the age class of the stored
observation, the restart budget, the action gate and the signals. It composes the
collector with the tick that uses it; the executor appears as `ActionCompletes`.
A loop that outlived its `Stop` is taken to listen on the collector's current
`restartChan`; the code reads that field without a lock.

**ChildReconciliation.** A pass (`Reconcile`) computes every child with one operator per
phase (`Created`, `DisableMapped`, `Requested`, `Reapable`), then every child is ticked
once. A child is a record: supervisor present, worker registered, stored flags, pending
restart, pending re-add. A child's own tick may ask for a restart or, when the restart
budget of its collector is spent, request its shutdown without one (`TickEscalates`; the
history variable `escalated` remembers it). A pass runs under the parent's lock on one
goroutine and is one action.

**CircuitBreakers.** A tree of supervisors, the panics in each one's sliding window,
the two circuits and `agenda`, the supervisors that the current pass still ticks.
`TickerFires` starts a pass; a tick is suppressed, gated, panics, returns before its
children (`TickReturns`: no worker, or an error of the derive, the worker's tick, the
validation of the specs or the reconciliation) or goes on to them (`TickCompletes`).

**TriangularStore.** The documents of one worker, the delta collection, the holder of
`documentWriteMu`, the write in progress of every writer, the reader's `LoadSnapshot`,
the client that calls `GetDeltas` page by page, and the compaction. A save is
`BeginSave` (lock, read), `SaveUnchanged` or `PrepareSave` (take an id), `Write` or
`WriteFails`, `Append1` and `InvalidateSnapshot`; a tombstone edit stages one document
per step (`EditRole`) and commits them together. A document has contents (a function on
the fields, some of them absent), a tombstone and a sync id. A delta has the fields that
its write changed (`computeDiff`), not the document. Whether a save changes anything is
decided on the fields of the new document only (`performDeltaCheck`), so one that only
leaves fields out is skipped. A client without deltas gets a bootstrap, which
`LoadSnapshot` reads document by document beside the writers, as for any reader.

**DocumentStore** is the abstract specification: every write is one step with an id
above all earlier ones, and a save neither loses nor invents a tombstone.
`DocumentsAreAtomic` says that TriangularStore implements it (an INSTANCE with `docs`
and `Roles` mapped to themselves; the other variables are hidden). It justifies the
atomic store that WorkerLifecycle and WorkerTick use.

**InstanceMachines**, **BaseFsm** and **FsmManager** are FSM v1 from the inside out.
InstanceMachines has, for each of the thirteen kinds, the transition table
(`XTransitions`, machine.go), the predicates that can hold together (`XObservations`,
actions.go) and the decision of one reconcile (`XDecide`, reconcile.go). BaseFsm is the
base machine with its backoff, and the `Reconcile` that every kind repeats, with the
kinds' differences as a profile. FsmManager extends both with the manager: `ApplyConfig`,
`StartRemoval` and `ReconcileInstances` are the steps of one call of its `Reconcile`, of
which a tick takes the first that applies. What goes wrong in a reconcile is one of
eleven faults. `CalmDown` begins the period, if any, in which nothing fails.

**ConfigEdits**, **ConfigManager** and **ConfigActions** build on each other too.
ConfigEdits has the configuration as a value, the edits of the `Atomic...` methods, and
the conversion to the form on disk, where a template is written once and its users are
stripped. ConfigManager adds the file, the cached copy and the refresh. ConfigActions
adds the actions as processes (`Mutate` reads outside of the lock, `LockAndEdit` and
`WriteAndUnlock` are an atomic update, `Await` and `Expire` its confirmation or
timeout, `Undo` the way back), the control loop and the running components. Names are
unique within a part of the configuration, so a part is a function. Two kinds of history
make the exceptions of the properties explicit. `drifted` says how file and copy have come
apart: a write from `"outside"` of an atomic update, an update whose `Stat` failed after
the write (`"stat"`), and whether a file was not `Tidy` (`"loose"`: it has a template
without a root, or one whose owner stands alone in another file). An action's `hitch` is
what spoilt its way back: an update made to a copy that is not written as the file
(`"stale"`), a failed `Stat`, a failed undoing (`"undo"`); the action reports a failure in
all three.

**MC\*** give TLC small sets; **\*Proofs** hold the theorems.

## 3. The runs

| Run | Instance | What it shows |
|---|---|---|
| `executor` | two registrations of two actions, two pool goroutines, one channel slot, actions that may never return, the code's own thresholds 2 and 3 | no registration is answered twice, no entry is orphaned, an action runs twice at a time only after a force-removal, nothing happens after `Shutdown`, the entry of a hung action is released, `Shutdown` ends if actions honour their context |
| `lifecycle` | one worker in a root or a child supervisor; the parent writes flags, the ID is added again by others | the request survives, a clean drain observed the worker, no live worker has a tombstone, the derive changes no flag, `Shutdown` returns if the worker's code honours its context |
| `breakers_tree` | four supervisors on three levels, panic limit 2 | an open infrastructure circuit has a cause, the root's panic circuit resets, a shutdown reaches the root's children if the root's ticks do not return early for ever |
| `reconcile_follow` | two children, two spec changes, one restart, two failing calls | settings are applied before ticks, marks are current, children follow their specs unless a restart, a failing call or an escalation disturbs them |
| `reconcile_reappear` | one child, two spec changes | **violated**: a child that reappears loses its worker |
| `tick_cycle` | two loop goroutines, one restart attempt, any number of recoveries | no double start, no overlapping collections, an accurate `IsRunning`, one decision per observation, escalation, removal completes |
| `instance_kinds` | one instance of each of the thirteen kinds, all faults at any time | no event is refused, no service is forgotten, convergence once failures stop |
| `store_writes` | two writers, a reader, a client with pages of one delta, four ids, three contents of two fields, one compaction, one lost append | the refinement of DocumentStore, unique ids, deltas that describe every field but those that a lost or compacted delta was the last to mention, no delta behind the client but for writes under way when its bootstrap began |
| `store_gap` | two writers and the client, three ids | **violated**: a client behind a compaction misses deltas without a bootstrap |
| `config_actions` | two requests of any of the listed kinds, or one and a hand edit, also one with a template without a root | no lost update while only atomic updates write, no trace of a failed action without a hitch, no emptied component of tidy files, actions end, the loop catches up |
| `config_empty` | edits of a root stream processor, hand edits | **violated**: an unreadable file reaches the control loop as an empty configuration |
| `config_rootless` | edits of a data flow component, a hand edit with a template without a root | **violated**: the next update writes the stream processor without its settings |

*Bounds.* Two pool goroutines, one slot and two generations are the least with which
an old execution beside its successor with the same ID, and a full channel, exist.
Two loop goroutines are one that outlived its `Stop` and its successor; with a budget
of one attempt both the restart and the escalation happen. Two spec changes let a child
leave and come back. Four supervisors give a parent that is a child, and a sibling.
The panic limit is 2 instead of 3 to have one step below it. Four sync ids are a save of
each role, a tombstone or a second save over it and one write more, so that a lost or
compacted delta has a successor; the contents let a save drop a field with and without
changing another. A page of one delta makes every read of the log a sequence of pages.
Whoever reads does not look at contents: a behaviour in which the client or the reader
begins is followed with one content, three ids, and the reader before the client
(the constraint `ReadAlike`). One instance suffices for the manager, whose instances share only
the cooldowns; one kind has two configuration versions, since the manager handles an
update alone and in the same way for all kinds, and one
backoff wait before the permanent failure reaches every branch of the backoff manager
(its exponential delays and jitter are data). Two actions are enough for every pairwise
interference of updates, waits and rollbacks; the initial configuration has a
stand-alone component, a root with a child among the bridges and among the stream
processors, and a data model. `MCConfigActions_others.cfg` checks the same properties
for the requests `config_actions` leaves out (deletions, edits of children, a failing
deployment of a stream processor), which are kept apart only for the running time. The
proofs below remove the bounds for the properties they cover.

*Deadlock* is checked where a system never stops (`ChildReconciliation`,
`CircuitBreakers`, `ConfigActions`). The executor, the lifecycle and the tick end when
`Shutdown` or the removal has returned, the store and the manager when the ids are used
up or everything is settled.

*Fairness.* Goroutines that can run do run (weak fairness per goroutine). Strong
fairness is used where the code competes for a `sync.Mutex`, which hands over to a
starving waiter, and for a `select` whose case is ready again and again. Nothing is
assumed of the worker's own code unless a property says so: `Cooperative` (an action,
or `CollectObservedState`, returns) is a premise of `ShutdownTerminates` of the executor
and of the lifecycle and of `RemovalCompletes`, since the code cannot force either. A tick
may return early for as long as its error lasts: that this ends is a premise of
`ShutdownReachesChildren` (`RootTicksComplete`) and, as `ParentReconciles`, of the
liveness properties of children.
`ChildReconciliation` assumes that a worker that is asked to shut down emits
`SignalNeedsRemoval` in the end, which is the contract of `State`. Store accesses that
are repeated every tick succeed at some time. `FsmManager` assumes ticks only in the
calm period, in which nothing fails, the configuration stays and services do as they are
told; whether that period comes is left open. `ConfigActions` assumes that goroutines
run, timers fire and the control loop ticks, not that a component becomes active or that
a read of the file succeeds.

### Disagreements between code and documentation

Four runs state what a comment or a document of the repository says and are violated by
the code:

1. *Reappearing child* (`reconcile_reappear`). The removal mark is cleared, the
   shutdown request is not.
2. *Unreadable configuration* (`config_empty`). `backgroundRefresh` stores the zero
   configuration, an error and the file's modification time; the fast path of
   `GetConfig` then returns that configuration without the error, and the managers
   remove every component. The comment says that the error is returned and the loop
   retries.
3. *Templates without a root* (`config_rootless`). `convertSpecToYaml` strips the settings
   of every stream processor that refers to a template (yamlParsing.go:331) before it drops
   the references to templates that no processor owns. With a file like that of
   docs/usage/data-modeling/stream-processors.md:98-131 the next update of anything writes
   these stream processors empty. The comments say that they are kept inline.
4. *Compaction* (`store_gap`). `GetDeltas` falls back to a bootstrap only if no delta is
   left; a client behind the compaction that still finds a newer delta gets it without
   the ones in between. The comment promises a bootstrap.

Eleven further configurations, kept beside the runs, are refuted in the same way:

| Configuration | Property | Why |
|---|---|---|
| `MCActionExecutor_close.cfg` | `NoSendOnClosedChannel` | `EnqueueAction` checks `stopped` under the lock "to prevent sending on closed channel" (action_executor.go:286) and sends after the unlock; a `Shutdown` of a child supervisor in between closes the channel |
| `MCWorkerLifecycle_restart.cfg` | `RestartIsNotRemoval` | `checkRestartTimeouts` drops the pending restart and keeps `ShutdownRequested`; the worker is removed, while fsmv2/api.go:54 promises a reset "instead of removing it" |
| `MCWorkerLifecycle_bounded.cfg` | `ShutdownIsBounded` | the budget bounds the drain only; the cleanup, and a removal on the tick loop that `Shutdown` joins, call `executor.Shutdown`, which waits without a bound for an action that ignores its context; lifecycle.go:300-303 calls a child's `Shutdown` "bounded by the child's own cascaded drain budget" |
| `MCCircuitBreakers_reset.cfg` | `ChildCircuitResets` | a parent does not tick a child with an open circuit, and only the child's tick closes it; supervisor/doc.go:314 promises an auto-reset |
| `MCWorkerTick_hang.cfg` | `RestartClearsHungLoop` | the hung goroutine keeps `collectionMu`, which its replacement and the final observation need; health/doc.go:71: "Collector restart clears hung goroutines" |
| `MCFsmManager_s6.cfg` | `S6Converges` | `reconcileTransitionToRunning` has no branch for an s6 service that is told to run while it is stopping; s6/reconcile.go:37 says that repeated calls converge |
| `MCTriangularStore_stale.cfg` | `CacheIsCurrent` | a save takes its id before it writes, so a reader can keep the old document under the new id; triangular.go says the id is captured late "to avoid TOCTOU race" |
| `MCTriangularStore_bootstrap.cfg` | `BootstrapIsComplete` | a bootstrap is read without `documentWriteMu`; a save that has taken its id (save.go:197) and not written (203) is below the bootstrap's position and not in it, and the client never asks for its delta; subscription.go:47-50 calls a bootstrap "full state" |
| `MCTriangularStore_fields.cfg` | `FieldsAreKept` | a save that leaves out a field and changes another replaces the document; triangular.go:414-417: "Fields are NEVER removed in CSE" |
| `MCConfigActions_children.cfg` | `CopyIsFile` | `writeConfig` caches what it was given: after an edit of a root the file gives its children the new settings, and the copy, which counts as current, keeps the old ones until something else changes the file; streamprocessor.go:96 says that the edit affects all children |
| `MCConfigActions_rollback.cfg` | `RollbackRestoresFile` | `GetConfig` hands out the old copy while a refresh runs, so an edit right after a hand edit overwrites it, and rolling the edit back does not bring it back; edit-dataflowcomponent.go:29: the action "rolls back to the previous configuration" |

Further observations that no run states:

- A removal during a pending restart is swallowed: the restart clears the request and
  the mark prevents a second one. `RequestShutdown` logs a failing store call and
  returns nil, with the same effect. `RemovedChildrenGo` therefore excludes restarts
  and failures.
- `SetDisabled` is documented to update the remaining workers after an error and
  returns at the first one.
- A `Shutdown` that finds no worker at its entry (during a restart) drains nothing; and
  a supervisor whose restart failed in the factory is left without a worker.
- The comment at `lifecycle.go:921` calls the re-check of `started` in a restart
  best-effort; the mutant `RestartCheck_Unchecked` shows that `RequestNotLost` depends
  on it.
- The restart budget belongs to the supervisor, so with several workers a healthy one
  would reset the budget of a silent one.
- The action gate opens on any newer observation, also one collected before the action
  had its effect.
- The cleanup of a loop that outlived `Restart` marks the collector stopped, and `Stop`
  then skips the running successor.
- A worker that is removed while its children still have workers runs their `Shutdown`
  on the tick goroutine that would have to tick them, and waits for the drain budget.
- A `Stat` that fails after `writeConfig` has written the file makes the action report a
  failure and leaves its edit in the file (manager.go:636). A failed rollback leaves it too.
  The code promises nothing about either; they are the hitches of `FailureLeavesNoTrace`.
- After a failed `Stat`, as after a write from outside, the next update may be made to a
  copy older than the file. `UpdatesBuildOnFile` therefore says nothing from the first of
  them on; no refresh runs before, so that refreshes are for `LoopCatchesUp` and
  `FailureLeavesNoTrace` to cover.
- A stand-alone stream processor is edited, a hand edit adds a child of it, and the edit
  fails: its undo writes the old entry back, and the child loses its template. Such files
  are `"loose"` too.
- A child whose collector is given up shuts down without a restart, and a wanted child then
  stays without a worker; `KeptChildrenRun` and `WantedChildrenRun` except it.
- A lost or compacted delta is not repaired by later ones: a follower has the fields that it
  was the last to mention wrong until they are written again.
- `AtomicEditProtocolConverter` refuses an edit that gives a stand-alone bridge a
  reference to another root, which its comment (protocolconverter.go:95) lists as
  allowed.
- The container and agent monitors return at once when the state is the desired one, so
  an active one never becomes degraded although its table and reconcile function say so.
- Two concurrent edits of the two flows of one bridge read it outside of the lock and
  write the whole entry; the later one takes the other's flow back. A rollback writes
  the old entry without comparing, and `set-config-file` compares modification times to
  the second and takes no part in `mutexAtomicUpdate`.

## 4. The proofs

| Module | Theorems, and the property each one states for every value of the constants |
|---|---|
| `ActionExecutorProofs` | `TypeCorrect`; `CallbackAtMostOnce` (`AtMostOneCallback`); `ShutdownIsQuiet` (`QuietAfterShutdown`); `ExecutionsExclude` (`OneLiveExecution`); `EntriesHaveHolders` (`NoOrphanEntry`) |
| `WorkerLifecycleProofs` | `TypeCorrect`; `DeriveCarriesFlags` (the action property `DeriveKeepsFlags`); `RequestSurvives` (`RequestNotLost`); `NoTombstoneOnLive` (`LiveNotTombstoned`); `CleanDrain` (`CleanDrainObserves`) |
| `CircuitBreakersProofs` | `OpenCircuitHasCause` (`InfraHasCause`) |
| `ChildReconciliationProofs` | `TypeCorrect`; `MarksCurrent` (`MarksAreCurrent`); `DisabledFirst` (`DisabledBeforeTick`) |
| `WorkerTickProofs` | `TypeCorrect`; `RestartNeverPanics` (`StartFindsNoneRunning`); `CollectionsExclude` (`OneCollection`); `RunningAccurate` (`RunningIsAccurate`); `DecidesOnce` (`DecidesOnNewObservation`) |
| `TriangularStoreProofs` | `TypeCorrect`; `IdsAreUsedOnce` (`SyncIDsAreUnique`); `ReplayReachesDocuments` (`DeltasDescribeDocuments`); `PagingIsComplete` (the action property `PagingSkipsNothing`); `StoreImplementsDocuments` (the refinement `DocumentsAreAtomic`) |
| `FsmManagerProofs` | `TypeCorrect`; `NoServiceForgotten` (`NoForgottenService`); `EventsAccepted` (`EventAccepted`) |
| `ConfigActionsProofs` | `NothingEmptied` (`NoComponentEmptied`); `UpdatesAreAtomic` (the action property `UpdatesBuildOnFile`); `FailureRestores` (`FailureLeavesNoTrace`, as long as all files from outside were tidy) |

With these, every safety property that a passing run checks is also a theorem.

### Assumptions

All hold for every value of the constants that satisfies the ASSUMEs, which TLC
evaluates in every run: natural bounds, finite sets of names, thresholds in order, a
single caller of `EnqueueAction`, loop goroutines that are not confused with the two
other holders of the mutex, and a tree of supervisors with one root (`TreeAssumption`).
Two say more about the data:

- `StoreAssumption`: a worker has each role once in the list that a tombstone edit walks,
  the identity among them, contents are functions on the fields, and a reader is not
  mistaken for the client.
- `RequestsAssumption`: a request is one of the kinds the actions accept, and a bridge or
  stream processor that is deployed or edited has a name and settings (`Validate`).

Nothing is assumed of the configurations that come from outside. What the theorems about
settings and rollbacks need of them is a premise that the state remembers:
`"loose" \notin drifted` (`FilesTidy` in the proofs) says that so far every file from
outside was whole, each template of a stream processor had its root, and no owner of a
template stood alone in another file.

### The arguments

*Executor: at most one callback.* The property is not inductive: a step that calls back
must know that nobody else will. `CallbackInv` says that a generation moves one way, from
an entry to a claim (the goroutine or the report that took the entry away) to a callback;
that claims are exclusive (`ClaimsExclusive`, `EntriesUnclaimed`); and that no stage knows
a generation that was not handed out (`Fresh`).

*Executor: shutdown, executions, entries.* `Start` and `Shutdown` overlap, and
`ShutdownInv` has both cases: `Shutdown` saw a complete `Start` and joins every goroutine,
or it came first, and then nothing was ever registered (`Untouched`). `HolderInv` follows
a registration on its way from the caller through the channel to a goroutine: it is in one
place (`HeldOnce`), and the entry of its ID is its own until the reporter takes it
(`HeldIsRegistered`). Two executions with one ID would then share an entry, and an entry
without a holder would have to lose it in a step, which no step does unless the send
panics.

*Lifecycle: flags.* `LifecycleInv` says that unsaved flags belong to the holder of
`lifecycleFlagMu` (`LockDiscipline`) and that what the tick is about to save is what is
stored (`CarriedFlagsFresh`); this gives the action property. `RequestInv` adds that a
restart past its check of `started` excludes a `Shutdown` that saw the worker
(`RestartBeforeShutdown`), which is what keeps the request alive.

*Lifecycle: the end.* `LiveNotTombstoned` is inductive together with the type invariant.
`DrainInv` says that the registry entry outlives the collector
(`EntryOutlivesCollector`), that the phases of `Shutdown` have happened in order
(`ShutdownPhases`), and that an observation is skipped only on a cancelled context: a
drain that found the registry empty leaves nobody who could skip one.

*Circuit breakers.* The tree is arbitrary, so the descendants of a supervisor are defined
as a least closed set (`Below`), with lemmas instead of an induction. A circuit that
closes could take away its parent's cause; `BreakerInv` excludes that: the supervisors
still to be ticked are no descendants of each other (`AgendaIsAntichain`), and the parent
of one of them has passed its own check (`ParentsPassed`).

*Children.* `ReconcileInv` joins the properties with `TickedBetweenPasses`: specs change
only when no child is left to tick. Lemmas describe what one pass makes of one child.

*Collector and tick.* `CollectorProjection` reduces a step of the whole to a step of the
collector's variables. `MutexInv` ties each collection to the mutex's holder.
`GenerationInv` says that, until a `Stop` gives up, both flags describe the current loop
and a restart past its `Stop` finds that loop gone. `GateInv` says that an observation
that led to an action keeps the gate closed until it is replaced, and that one saved
during a tick is unused.

*Store.* `StoreInv` is about all deltas there ever were, appended, lost or compacted
(`Past`). `LockDiscipline`: a write in progress holds `documentWriteMu`.
`IdsBehindCounter`: every id in use is at most the counter. `WriterInv`: what a save read
is still stored (`SaveCurrent`); the ids a write has taken are newer than all documents and
all past deltas, and the client has passed one only by a bootstrap whose call began after
that id was taken (`IdReserved`, `StagedNewer`); a staged diff has the new value of the
fields it mentions and the others do not change (`DiffIsTrue`); what an edit has staged or
still has to visit is all it must change (`EditProgress`); and what is about to be written
is a save that keeps the tombstone or a complete edit (`WriteIntent`). `Described`, for
each field: of the past deltas and those about to be appended (`History`) the newest that
mentions the field has its stored value, or none does and the field is not there.
`DeltasDescribeDocuments` follows, since that newest delta is in the log or was lost or
compacted; `PagingSkipsNothing` follows from `IdReserved`. For the *refinement* `docs` is
mapped to itself: the initial documents are `DocumentStore`'s, `Write` is one of its saves
or edits by `WriteIntent`, with an id above all others by `StagedNewer`, and every other
step leaves the documents alone.

*FSM v1.* `NoForgottenService` is inductive with `TypeOK`; the work lies in the lemmas
about one reconcile: what it reports to the manager fits what it did to the service
(`Reported`), and an instance becomes `removed` only by a removal that took the service
away or by a permanent error (`Stays`, `Moved`). `EventAccepted` compares two finite lists
for each kind; one lemma per machine (`...Fits`) shows that every decision in every state of
the table is an event the table has there. The tables are constants of the code, so the
theorem adds to TLC's run that it holds for any number of instances and that `TypeOK`,
from which it follows, keeps every instance in a state of its own table.

*Configuration.* `ConfigInv`, which holds while all files were tidy, says that everything
that holds a configuration (file, copy, refresh, the actions' pending writes) holds one
that is whole and `Templated`; and that, while only atomic updates have written the file
and none of their `Stat`s has failed, the copy is what the file was written from and no
refresh runs (`Synced`), and what the holder of `mutexAtomicUpdate` will write was made
from that copy (`BuildsOnCopy`). The conversions are the core: `RoundTrip` (a whole
configuration that is written and read back is the same up to the settings that templates
supply, `Same`), `SameYaml` (same configurations are written alike), `ApplyOK` (an edit of
whole configurations gives whole ones, and the same for the same) and `WrittenAlike`
(configurations that are written alike take the same edits, with results that are).
`FailureRestores` needs `TraceInv` too: an action that is alone with the file and has met
no hitch knows a configuration that the file was found with, the file is written from the
action's edit of it, and the action kept the entry it replaced. It does not mention the
copy, which a refresh or an earlier hand edit may have changed: a copy that is not written
as the file is a hitch. `DfcUndone`, `SpUndone`, `PcUndone` and `UndoRestores` show that the
undo edit then gives that configuration back.

The proofs corrected the model: the first attempt at `FailureRestores` failed for stream
processors because `Undo` looked for the edited entry by its old name, while
edit-streamprocessor.go looks for the new one.

### What is only model-checked

- *Liveness* (the prover treats neither fairness nor ENABLED): `EntryEventuallyReleased`,
  `ShutdownTerminates` of the executor and of the lifecycle, `RootCircuitResets`,
  `ShutdownReachesChildren`, `RemovedChildrenGo`, `KeptChildrenRun`,
  `SilentWorkerEscalates`, `RemovalCompletes`, `ConvergesWhenCalm`, `ActionsEnd` and
  `LoopCatchesUp`.
- The violated properties, for which TLC shows a counterexample.
- Nothing needs induction over data; no module declares a RECURSIVE operator.

## 5. What is not modelled

- *In the supervisor:* several workers in one supervisor; the composition of a worker's
  removal with the shutdown of its children on the same goroutine; variable injection,
  templates and spec hashing, which decide nothing there; metrics, logging and Sentry.
- *In the store:* more than one worker's documents (they share only the sync counter),
  typed loading, and the queries and collection management of the persistence layer.
- *In FSM v1:* a reconcile that outlives its tick and runs beside the next one; the
  services themselves (`pkg/service`), which write files, run processes and parse logs
  and metrics. What they report is an arbitrary choice among the predicates that can
  hold together, so nothing is lost for the machines above them.
- *In the configuration:* backups, the creation of the first file, the backoff wrapper,
  `AtomicSetLocation`, and the read-only actions.
- *Elsewhere:* the GraphQL API is generated or read-only; the data model validator, the
  resource verdicts and the benthos configuration generators are pure functions over
  text and numbers; metrics, logging, sentry and test harnesses carry no control. The
  port manager, the subscriber registry, the topic browser cache, the watchdog and the
  FSMv2 adapter keep shared state and are next.

Every component is listed in `PROJECT.json` with its reason. The repository has some
150,000 lines of implementation, most of them of the kinds just listed, so the share of
lines with a model stays small; the models cover the code that decides what runs.

## 6. Plan

Written so far: ActionExecutor, WorkerLifecycle, CircuitBreakers, ChildReconciliation,
Collector and WorkerTick; then DocumentStore and TriangularStore; InstanceMachines,
BaseFsm and FsmManager; ConfigEdits, ConfigManager and ConfigActions. Next:

1. *Proofs*: the safety that the liveness properties rest on, where it can be stated
   without fairness: that a hung entry ages towards its removal and never back
   (`EntryEventuallyReleased`), that a drain's phases only advance
   (`ShutdownTerminates`), that an action's stages are ordered and the holder of
   `mutexAtomicUpdate` can always release it (`ActionsEnd`), and that a copy older than
   the file is always refreshed or being refreshed (`LoopCatchesUp`).
2. *An abstract worker lifecycle* (registered, asked to stop, gone), its refinement from
   WorkerLifecycle and its composition with ChildReconciliation.
3. *Port manager, subscriber registry, topic browser cache, watchdog.*
