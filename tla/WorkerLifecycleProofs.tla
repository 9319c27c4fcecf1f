----------------------- MODULE WorkerLifecycleProofs -----------------------
(***************************************************************************)
(* Proofs about WorkerLifecycle, for every supervisor (root or child) and  *)
(* any number of foreign AddWorker calls.  The inductive invariant says    *)
(* who may hold unsaved flags (LockDiscipline), that the flags the tick    *)
(* carries forward are still the stored ones (CarriedFlagsFresh), and      *)
(* where a restart can be once Shutdown has seen the worker                *)
(* (RestartBeforeShutdown).                                                *)
(***************************************************************************)
EXTENDS WorkerLifecycle, TLAPS

\* Loaded and unsaved flags belong to the holder of lifecycleFlagMu.
LockDiscipline ==
    \A g \in Goroutines : loaded[g] # NoFlags => flagMu = g /\ InFlagOp(g)

\* The tick works on a registered worker while it derives or maps Disabled.
CarryOps == {"derive", "disable", "enable"}
WorkerPresent == tick \in CarryOps => workers # "absent"

\* What the tick is about to save is what is stored.
CarriedFlagsFresh ==
    tick \in CarryOps /\ loaded["tick"] # NoFlags => loaded["tick"] = stored

LifecycleInv == TypeOK /\ LockDiscipline /\ WorkerPresent /\ CarriedFlagsFresh

\* The part of a restart between the removal and the re-add.
Recreating == {"clear", "create", "add", "readd"}

WorkerGone == tick \in Recreating \cup {"restart_check"} => workers = "absent"

\* If Shutdown found the worker registered, no restart is past its check of
\* s.started; none will pass it any more.
RestartBeforeShutdown ==
    /\ closer # "none" => ~started
    /\ closer = "none" => ~committed
    /\ closer \in {"exists", "request"} \/ committed => tick \notin Recreating

RequestInv ==
    LifecycleInv /\ (adds = 0 => WorkerGone /\ RestartBeforeShutdown) /\ RequestNotLost

LEMMA InitLifecycleInv == Init => LifecycleInv
<1> SUFFICES ASSUME Init PROVE LifecycleInv
  OBVIOUS
<1>1. TypeOK
  <2>1. adds \in 0..MaxAdds
    BY LifecycleAssumption DEF Init
  <2>2. stored \in Flags /\ flagMu \in Goroutines \cup {"free"}
    BY DEF Init, Derived, Flags
  <2>3. tick \in TickStates
    BY DEF Init, TickStates
  <2>4. loaded \in [Goroutines -> Flags \cup {NoFlags}]
    BY DEF Init
  <2> QED
    BY <2>1, <2>2, <2>3, <2>4 DEF Init, TypeOK
<1>2. LockDiscipline /\ CarriedFlagsFresh
  BY DEF Init, LockDiscipline, CarriedFlagsFresh, Goroutines
<1>3. WorkerPresent
  BY DEF Init, WorkerPresent
<1> QED
  BY <1>1, <1>2, <1>3 DEF LifecycleInv

\* The flags stay flags under every operation on them.
LEMMA ModifiedType ==
    ASSUME NEW op \in FlagOps, NEW f \in Flags
    PROVE  Modified(op, f) \in Flags
BY DEF Modified, FlagOps, Flags

LEMMA TypeStep == TypeOK /\ [Next]_vars => TypeOK'
<1> SUFFICES ASSUME TypeOK, [Next]_vars PROVE TypeOK'
  OBVIOUS
<1> USE LifecycleAssumption DEF registry, restart, closing, document, history
<1>1. ASSUME NEW g \in Goroutines, FlagStep(g) PROVE TypeOK'
  <2>1. CASE LoadFlags(g)
    BY <2>1 DEF LoadFlags, TypeOK
  <2>2. ASSUME Continue(g), InFlagOp(g)
        PROVE  /\ tick' \in TickStates
               /\ closer' \in {"none", "no_workers", "exists", "request", "drain",
                               "cancel", "join", "cleanup", "done"}
    BY <2>2 DEF Continue, TypeOK, After, TickStates, Goroutines
  <2>3. CASE LoadFails(g)
    BY <2>2, <2>3 DEF LoadFails, TypeOK
  <2>4. CASE SaveFlags(g)
    <3>1. Op(g) \in FlagOps /\ loaded[g] \in Flags
      BY <2>4 DEF SaveFlags, InFlagOp, TypeOK
    <3>2. stored' \in Flags
      BY <2>4, <3>1, ModifiedType DEF SaveFlags
    <3> QED
      BY <2>2, <2>4, <3>2 DEF SaveFlags, TypeOK
  <2>5. CASE SaveFails(g)
    BY <2>2, <2>5 DEF SaveFails, TypeOK
  <2> QED
    BY <1>1, <2>1, <2>3, <2>4, <2>5 DEF FlagStep
<1>2. ASSUME NEW timedOut \in BOOLEAN, TickBegin(timedOut) PROVE TypeOK'
  BY <1>2 DEF TickBegin, TypeOK, TickStates, FlagOps
<1>3. CASE WorkerStep
  <2>1. CASE TickQuiet
    BY <2>1 DEF TickQuiet, TypeOK, TickStates, FlagOps
  <2>2. CASE TickNeedsRestart
    BY <2>2 DEF TickNeedsRestart, TypeOK, TickStates, FlagOps
  <2>3. CASE TickEscalate
    BY <2>3 DEF TickEscalate, TypeOK, TickStates, FlagOps
  <2>4. CASE TickNeedsRemoval
    <3>1. pendingRestart' \in BOOLEAN
      BY <2>4 DEF TickNeedsRemoval, TypeOK
    <3>2. tick' \in TickStates
      BY <2>4 DEF TickNeedsRemoval, TypeOK, TickStates
    <3> QED
      BY <2>4, <3>1, <3>2 DEF TickNeedsRemoval, TypeOK
  <2> QED
    BY <1>3, <2>1, <2>2, <2>3, <2>4 DEF WorkerStep
<1>4. CASE RestartStep
  <2>1. CASE RemoveWorkerForRestart
    <3>1. collecting' \in BOOLEAN
      BY <2>1 DEF RemoveWorkerForRestart, TypeOK
    <3>2. tick' \in TickStates
      BY <2>1 DEF RemoveWorkerForRestart, TypeOK, TickStates
    <3>3. workers' \in {"absent", "live", "removing"}
      BY <2>1 DEF RemoveWorkerForRestart, TypeOK
    <3> QED
      BY <2>1, <3>1, <3>2, <3>3 DEF RemoveWorkerForRestart, TypeOK
  <2>2. CASE RestartCheck
    BY <2>2 DEF RestartCheck, TypeOK, TickStates, FlagOps
  <2>3. CASE \E ok \in BOOLEAN : RestartCreate(ok)
    BY <2>3 DEF RestartCreate, TypeOK, TickStates, FlagOps
  <2>4. CASE RestartAdd
    <3>1. workers' \in {"absent", "live", "removing"}
      BY <2>4 DEF RestartAdd, TypeOK, AddSucceeds, AddFails, Derived, Flags
    <3>2. stored' \in Flags
      BY <2>4 DEF RestartAdd, TypeOK, AddSucceeds, AddFails, Derived, Flags
    <3>3. tombstoned' \in BOOLEAN
      BY <2>4 DEF RestartAdd, TypeOK, AddSucceeds, AddFails, Derived, Flags
    <3>4. pendingReAdd' \in BOOLEAN
      BY <2>4 DEF RestartAdd, TypeOK
    <3>5. tick' \in TickStates
      BY <2>4 DEF RestartAdd, TypeOK, TickStates
    <3> QED
      BY <2>4, <3>1, <3>2, <3>3, <3>4, <3>5 DEF RestartAdd, TypeOK
  <2>5. CASE RetryPendingReAdd
    <3>1. workers' \in {"absent", "live", "removing"}
      BY <2>5 DEF RetryPendingReAdd, TypeOK, AddSucceeds, AddFails, Derived, Flags
    <3>2. stored' \in Flags
      BY <2>5 DEF RetryPendingReAdd, TypeOK, AddSucceeds, AddFails, Derived, Flags
    <3>3. tombstoned' \in BOOLEAN
      BY <2>5 DEF RetryPendingReAdd, TypeOK, AddSucceeds, AddFails, Derived, Flags
    <3>4. pendingReAdd' \in BOOLEAN
      BY <2>5 DEF RetryPendingReAdd, TypeOK
    <3>5. tick' \in TickStates
      BY <2>5 DEF RetryPendingReAdd, TypeOK, TickStates
    <3> QED
      BY <2>5, <3>1, <3>2, <3>3, <3>4, <3>5 DEF RetryPendingReAdd, TypeOK
  <2>6. CASE StartWorkerProcesses
    BY <2>6 DEF StartWorkerProcesses, TypeOK, TickStates, FlagOps
  <2> QED
    BY <1>4, <2>1, <2>2, <2>3, <2>4, <2>5, <2>6 DEF RestartStep
<1>5. CASE RemovalStep
  <2>1. CASE RemoveMark
    <3>1. tombstoned' \in BOOLEAN
      BY <2>1 DEF RemoveMark, TypeOK
    <3>2. tick' \in TickStates
      BY <2>1 DEF RemoveMark, TypeOK, TickStates
    <3>3. workers' \in {"absent", "live", "removing"}
      BY <2>1 DEF RemoveMark, TypeOK
    <3> QED
      BY <2>1, <3>1, <3>2, <3>3 DEF RemoveMark, TypeOK
  <2>2. CASE FinalObservation
    <3>1. lastRemoval' \in {"none", "observed", "skipped"}
      BY <2>2 DEF FinalObservation, TypeOK
    <3>2. collecting' \in BOOLEAN
      BY <2>2 DEF FinalObservation, TypeOK
    <3>3. tick' \in TickStates
      BY <2>2 DEF FinalObservation, TypeOK, TickStates
    <3> QED
      BY <2>2, <3>1, <3>2, <3>3 DEF FinalObservation, TypeOK
  <2>3. CASE RemoveEntry
    BY <2>3 DEF RemoveEntry, TypeOK, TickStates
  <2> QED
    BY <1>5, <2>1, <2>2, <2>3 DEF RemovalStep
<1>6. CASE TickLoopExit
  BY <1>6 DEF TickLoopExit, TypeOK, TickStates
<1>7. CASE DrainStep
  <2>1. CASE DrainEmpty
    BY <2>1 DEF DrainEmpty, TypeOK
  <2>2. CASE DrainTimeout
    BY <2>2 DEF DrainTimeout, TypeOK
  <2>3. CASE DrainForced
    BY <2>3 DEF DrainForced, TypeOK
  <2> QED
    BY <1>7, <2>1, <2>2, <2>3 DEF DrainStep
<1>8. CASE ShutdownNoWorkers \/ ShutdownRequest \/ ShutdownCancel \/ ShutdownJoin
             \/ ShutdownCleanup
  <2>1. CASE ShutdownNoWorkers
    BY <2>1 DEF ShutdownNoWorkers, TypeOK
  <2>2. CASE ShutdownRequest
    BY <2>2 DEF ShutdownRequest, TypeOK
  <2>3. CASE ShutdownCancel
    BY <2>3 DEF ShutdownCancel, TypeOK
  <2>4. CASE ShutdownJoin
    <3>1. drainTimedOut' \in BOOLEAN
      BY <2>4 DEF ShutdownJoin, TypeOK
    <3> QED
      BY <2>4, <3>1 DEF ShutdownJoin, TypeOK
  <2>5. CASE ShutdownCleanup
    BY <2>5 DEF ShutdownCleanup, TypeOK
  <2> QED
    BY <1>8, <2>1, <2>2, <2>3, <2>4, <2>5
<1>9. CASE Environment
  <2>1. CASE ShutdownBegin
    <3>1. atEntry' \in BOOLEAN /\ started' \in BOOLEAN /\ removalAsked' \in BOOLEAN
      BY <2>1 DEF ShutdownBegin, TypeOK
    <3>2. closer' \in {"exists", "no_workers"}
      BY <2>1 DEF ShutdownBegin, TypeOK
    <3> QED
      BY <2>1, <3>1, <3>2 DEF ShutdownBegin, TypeOK
  <2>2. CASE \E op \in {"request", "disable", "enable"} : ParentCall(op)
    BY <2>2 DEF ParentCall, TypeOK, TickStates, FlagOps
  <2>3. CASE ExternalAdd
    <3>1. workers' \in {"absent", "live", "removing"}
      BY <2>3 DEF ExternalAdd, TypeOK, AddSucceeds, AddFails, Derived, Flags
    <3>2. stored' \in Flags
      BY <2>3 DEF ExternalAdd, TypeOK, AddSucceeds, AddFails, Derived, Flags
    <3>3. tombstoned' \in BOOLEAN
      BY <2>3 DEF ExternalAdd, TypeOK, AddSucceeds, AddFails, Derived, Flags
    <3>4. adds' \in 0..MaxAdds
      BY <2>3 DEF ExternalAdd, TypeOK
    <3> QED
      BY <2>3, <3>1, <3>2, <3>3, <3>4 DEF ExternalAdd, TypeOK
  <2>4. CASE OperatorForces
    BY <2>4 DEF OperatorForces, TypeOK
  <2> QED
    BY <1>9, <2>1, <2>2, <2>3, <2>4 DEF Environment
<1>10. CASE UNCHANGED vars
  BY <1>10 DEF vars, TypeOK
<1> QED
  BY <1>1, <1>2, <1>3, <1>4, <1>5, <1>6, <1>7, <1>8, <1>9, <1>10
  DEF Next, TickStep, CloserStep, Goroutines

\* Every action outside FlagStep leaves the lock and the loaded flags alone and
\* moves no goroutine out of a read-modify-write.
LEMMA LockStep ==
    LifecycleInv /\ [Next]_vars
        => LockDiscipline' /\ WorkerPresent' /\ CarriedFlagsFresh'
<1> SUFFICES ASSUME LifecycleInv, [Next]_vars
             PROVE  LockDiscipline' /\ WorkerPresent' /\ CarriedFlagsFresh'
  OBVIOUS
<1> USE DEF LifecycleInv, registry, restart, closing, document, history
<1> DEFINE Goal == LockDiscipline' /\ WorkerPresent' /\ CarriedFlagsFresh'
<1>1. ASSUME NEW g \in Goroutines, FlagStep(g) PROVE Goal
  <2>1. CASE LoadFlags(g)
    <3>1. LockDiscipline'
      <4>1. \A h \in Goroutines : loaded[h] = NoFlags
        BY <2>1 DEF LoadFlags, LockDiscipline, Goroutines
      <4>2. \A h \in Goroutines : h # g => loaded'[h] = NoFlags
        BY <2>1, <4>1 DEF LoadFlags, TypeOK
      <4>3. flagMu' = g /\ InFlagOp(g)'
        BY <2>1 DEF LoadFlags, InFlagOp, Op
      <4> QED
        BY <4>2, <4>3 DEF LockDiscipline
    <3>2. WorkerPresent'
      BY <2>1 DEF LoadFlags, WorkerPresent
    <3>3. CarriedFlagsFresh'
      BY <2>1 DEF LoadFlags, CarriedFlagsFresh, TypeOK, Goroutines
    <3> QED
      BY <3>1, <3>2, <3>3
  <2>2. ASSUME Continue(g) PROVE g = "tick" => tick' \notin FlagOps
    BY <2>2 DEF Continue, After, FlagOps
  <2>3. CASE LoadFails(g)
    <3>1. LockDiscipline'
      BY <2>3 DEF LoadFails, LockDiscipline, InFlagOp, Op, Continue, Goroutines
    <3>2. WorkerPresent' /\ CarriedFlagsFresh'
      BY <2>2, <2>3 DEF LoadFails, WorkerPresent, CarriedFlagsFresh, Continue,
         Goroutines, CarryOps, FlagOps
    <3> QED
      BY <3>1, <3>2
  <2>4. CASE SaveFlags(g) \/ SaveFails(g)
    <3>1. flagMu = g /\ loaded' = [loaded EXCEPT ![g] = NoFlags] /\ Continue(g)
      BY <2>4 DEF SaveFlags, SaveFails, LockDiscipline
    <3>2. \A h \in Goroutines : h # g => loaded[h] = NoFlags
      BY <3>1 DEF LockDiscipline
    <3>3. \A h \in Goroutines : loaded'[h] = NoFlags
      BY <3>1, <3>2 DEF TypeOK
    <3>4. LockDiscipline' /\ CarriedFlagsFresh'
      BY <3>3 DEF LockDiscipline, CarriedFlagsFresh, Goroutines
    <3>5. WorkerPresent'
      BY <2>2, <2>4, <3>1 DEF SaveFlags, SaveFails, WorkerPresent, Continue,
         Goroutines, CarryOps, FlagOps
    <3> QED
      BY <3>4, <3>5
  <2> QED
    BY <1>1, <2>1, <2>3, <2>4 DEF FlagStep
<1>2. ASSUME UNCHANGED <<flagMu, loaded, stored, closer>>, tick \notin FlagOps,
             tick' \in CarryOps => workers' # "absent"
      PROVE  Goal
  <2>1. loaded["tick"] = NoFlags
    BY <1>2 DEF LockDiscipline, InFlagOp, Op, Goroutines
  <2> QED
    BY <1>2, <2>1 DEF LockDiscipline, WorkerPresent, CarriedFlagsFresh, InFlagOp,
       Op, Goroutines
<1>3. ASSUME UNCHANGED <<flagMu, loaded, closer>>, tick \notin FlagOps,
             tick' \notin FlagOps
      PROVE  Goal
  <2>1. loaded["tick"] = NoFlags
    BY <1>3 DEF LockDiscipline, InFlagOp, Op, Goroutines
  <2> QED
    BY <1>3, <2>1 DEF LockDiscipline, WorkerPresent, CarriedFlagsFresh, InFlagOp,
       Op, Goroutines, CarryOps, FlagOps
<1>4. ASSUME UNCHANGED <<flagMu, loaded, stored, tick, workers>>,
             closer \notin FlagOps
      PROVE  Goal
  <2>1. loaded["closer"] = NoFlags
    BY <1>4 DEF LockDiscipline, InFlagOp, Op, Goroutines
  <2> QED
    BY <1>4, <2>1 DEF LockDiscipline, WorkerPresent, CarriedFlagsFresh, InFlagOp,
       Op, Goroutines
<1>5. ASSUME NEW timedOut \in BOOLEAN, TickBegin(timedOut) PROVE Goal
  BY <1>2, <1>5 DEF TickBegin, CarryOps, FlagOps
<1>6. CASE WorkerStep
  BY <1>2, <1>6 DEF WorkerStep, TickQuiet, TickNeedsRestart, TickEscalate,
     TickNeedsRemoval, CarryOps, FlagOps
<1>7. CASE RestartStep
  <2>1. CASE RemoveWorkerForRestart
    BY <1>2, <2>1 DEF RemoveWorkerForRestart, CarryOps, FlagOps
  <2>2. CASE RestartCheck
    BY <1>2, <2>2 DEF RestartCheck, CarryOps, FlagOps
  <2>3. CASE \E ok \in BOOLEAN : RestartCreate(ok)
    BY <1>3, <2>3 DEF RestartCreate, FlagOps
  <2>4. CASE RestartAdd
    BY <1>3, <2>4 DEF RestartAdd, FlagOps
  <2>5. CASE RetryPendingReAdd
    BY <1>3, <2>5 DEF RetryPendingReAdd, FlagOps
  <2>6. CASE StartWorkerProcesses
    BY <1>3, <2>6 DEF StartWorkerProcesses, FlagOps
  <2> QED
    BY <1>7, <2>1, <2>2, <2>3, <2>4, <2>5, <2>6 DEF RestartStep
<1>8. CASE RemovalStep
  BY <1>3, <1>8 DEF RemovalStep, RemoveMark, FinalObservation, RemoveEntry, FlagOps
<1>9. CASE TickLoopExit
  BY <1>3, <1>9 DEF TickLoopExit, FlagOps
<1>10. CASE DrainStep
  BY <1>4, <1>10 DEF DrainStep, DrainEmpty, DrainTimeout, DrainForced, FlagOps
<1>11. CASE ShutdownNoWorkers \/ ShutdownRequest \/ ShutdownCancel \/ ShutdownJoin
             \/ ShutdownCleanup
  BY <1>4, <1>11 DEF ShutdownNoWorkers, ShutdownRequest, ShutdownCancel,
     ShutdownJoin, ShutdownCleanup, FlagOps
<1>12. CASE ShutdownBegin
  BY <1>4, <1>12 DEF ShutdownBegin, FlagOps
<1>13. CASE \E op \in {"request", "disable", "enable"} : ParentCall(op)
  BY <1>2, <1>13 DEF ParentCall, FlagOps
<1>14. CASE ExternalAdd
  <2>1. tick \in CarryOps => UNCHANGED stored /\ workers' # "absent"
    BY <1>14 DEF ExternalAdd, AddSucceeds, AddFails, WorkerPresent
  <2> QED
    BY <1>14, <2>1 DEF ExternalAdd, LockDiscipline, WorkerPresent,
       CarriedFlagsFresh, InFlagOp, Op
<1>15. CASE OperatorForces \/ UNCHANGED vars
  BY <1>15 DEF OperatorForces, vars, LockDiscipline, WorkerPresent,
     CarriedFlagsFresh, InFlagOp, Op
<1> QED
  BY <1>1, <1>5, <1>6, <1>7, <1>8, <1>9, <1>10, <1>11, <1>12, <1>13, <1>14, <1>15
  DEF Next, TickStep, CloserStep, Environment, Goroutines

LEMMA StepIsNext == [Next /\ UNCHANGED isChild]_<<vars, isChild>> => [Next]_vars
OBVIOUS

LEMMA LifecycleInvHolds == Spec => []LifecycleInv
<1>1. LifecycleInv /\ [Next]_vars => LifecycleInv'
  BY TypeStep, LockStep DEF LifecycleInv
<1> QED
  BY <1>1, InitLifecycleInv, StepIsNext, PTL DEF Spec

\* The variables of the lifecycle keep their types.
THEOREM TypeCorrect == Spec => []TypeOK
<1>1. LifecycleInv => TypeOK
  BY DEF LifecycleInv
<1> QED
  BY <1>1, LifecycleInvHolds, PTL

\* saveDerivedDesiredState never changes a lifecycle flag, for root and child
\* supervisors and with any number of AddWorker calls by other goroutines.
THEOREM DeriveCarriesFlags == Spec => DeriveKeepsFlags
<1>1. ASSUME LifecycleInv, [Next]_vars, tick = "derive", tick' = "worker"
      PROVE  stored' = stored
  <2>1. CASE LoadFails("tick") \/ SaveFails("tick")
    BY <2>1 DEF LoadFails, SaveFails, document
  <2>2. CASE SaveFlags("tick")
    <3>1. loaded["tick"] = stored
      BY <1>1, <2>2 DEF SaveFlags, LifecycleInv, CarriedFlagsFresh, CarryOps
    <3> QED
      BY <1>1, <2>2, <3>1 DEF SaveFlags, Op, Modified
  <2> USE <1>1 DEF registry, restart, closing, document, history
  <2>3. CASE CloserStep
    BY <2>3 DEF CloserStep, FlagStep, Continue, LoadFlags, LoadFails, SaveFlags,
       SaveFails, DrainStep, DrainEmpty, DrainTimeout, DrainForced,
       ShutdownNoWorkers, ShutdownRequest, ShutdownCancel, ShutdownJoin,
       ShutdownCleanup
  <2>4. CASE Environment \/ UNCHANGED vars
    BY <2>4 DEF Environment, ShutdownBegin, ParentCall, ExternalAdd, OperatorForces,
       vars
  <2>5. CASE LoadFlags("tick") \/ \E timedOut \in BOOLEAN : TickBegin(timedOut)
    BY <2>5 DEF LoadFlags, TickBegin
  <2>6. CASE WorkerStep \/ RestartStep \/ RemovalStep \/ TickLoopExit
    BY <2>6 DEF WorkerStep, TickQuiet, TickNeedsRestart, TickEscalate,
       TickNeedsRemoval, RestartStep, RemoveWorkerForRestart, RestartCheck,
       RestartCreate, RestartAdd, RetryPendingReAdd, StartWorkerProcesses,
       RemovalStep, RemoveMark, FinalObservation, RemoveEntry, TickLoopExit
  <2> QED
    BY <2>1, <2>2, <2>3, <2>4, <2>5, <2>6 DEF Next, TickStep, FlagStep
<1>2. LifecycleInv /\ [Next]_vars
        => [tick = "derive" /\ tick' = "worker" => stored' = stored]_vars
  BY <1>1
<1> QED
  BY <1>2, LifecycleInvHolds, StepIsNext, PTL DEF Spec, DeriveKeepsFlags

-----------------------------------------------------------------------------
(* RequestNotLost: until another goroutine adds a worker, Shutdown's        *)
(* request survives every derive and every restart.                        *)

LEMMA InitRequestInv == Init => RequestInv
BY InitLifecycleInv
DEF RequestInv, Init, WorkerGone, RestartBeforeShutdown, RequestNotLost, Recreating

\* Only AddWorker by another goroutine is counted, and no count is taken back.
LEMMA AddsOnlyGrow == TypeOK /\ [Next]_vars /\ adds' = 0 => adds = 0
<1> USE DEF registry, restart, closing, document, history
<1>1. ASSUME TypeOK, ExternalAdd, adds' = 0 PROVE FALSE
  BY <1>1, LifecycleAssumption DEF TypeOK, ExternalAdd
<1>2. ASSUME NEW g \in Goroutines, FlagStep(g) PROVE adds' = adds
  BY <1>2 DEF FlagStep, LoadFlags, LoadFails, SaveFlags, SaveFails
<1>3. ASSUME WorkerStep \/ RestartStep \/ RemovalStep \/ TickLoopExit
                \/ (\E timedOut \in BOOLEAN : TickBegin(timedOut))
      PROVE  adds' = adds
  BY <1>3 DEF WorkerStep, TickQuiet, TickNeedsRestart, TickEscalate, TickNeedsRemoval,
     RestartStep, RemoveWorkerForRestart, RestartCheck, RestartCreate, RestartAdd,
     RetryPendingReAdd, StartWorkerProcesses, RemovalStep, RemoveMark, FinalObservation,
     RemoveEntry, TickLoopExit, TickBegin
<1>4. ASSUME DrainStep \/ ShutdownNoWorkers \/ ShutdownRequest \/ ShutdownCancel
                \/ ShutdownJoin \/ ShutdownCleanup
      PROVE  adds' = adds
  BY <1>4 DEF DrainStep, DrainEmpty, DrainTimeout, DrainForced, ShutdownNoWorkers,
     ShutdownRequest, ShutdownCancel, ShutdownJoin, ShutdownCleanup
<1>5. ASSUME \/ ShutdownBegin \/ OperatorForces \/ UNCHANGED vars
             \/ \E op \in {"request", "disable", "enable"} : ParentCall(op)
      PROVE  adds' = adds
  BY <1>5 DEF ShutdownBegin, OperatorForces, ParentCall, vars
<1> QED
  BY <1>1, <1>2, <1>3, <1>4, <1>5 DEF Next, TickStep, CloserStep, Environment, Goroutines

LEMMA RequestStep ==
    RequestInv /\ [Next]_vars /\ adds' = 0
        => WorkerGone' /\ RestartBeforeShutdown' /\ RequestNotLost'
<1> SUFFICES ASSUME RequestInv, [Next]_vars, adds' = 0
             PROVE  WorkerGone' /\ RestartBeforeShutdown' /\ RequestNotLost'
  OBVIOUS
<1> USE DEF RequestInv, registry, restart, closing, document, history
<1>0. adds = 0 /\ WorkerGone /\ RestartBeforeShutdown
  BY AddsOnlyGrow DEF LifecycleInv
<1> USE <1>0
<1> DEFINE Goal == WorkerGone' /\ RestartBeforeShutdown' /\ RequestNotLost'
\* Steps that touch neither the document nor Shutdown, and enter no restart.
<1>1. ASSUME UNCHANGED <<stored, started, closer, committed>>,
             tick' \notin Recreating \cup {"restart_check"},
             workers' = "live" => workers = "live"
      PROVE  Goal
  BY <1>1 DEF WorkerGone, RestartBeforeShutdown, RequestNotLost
\* Steps of Shutdown that leave the document alone.
<1>2. ASSUME UNCHANGED <<stored, tick, workers, committed>>, ~started',
             closer # "none", closer' # "none",
             closer' \in {"exists", "request"} => closer \in {"exists", "request"}
      PROVE  Goal
  BY <1>2 DEF WorkerGone, RestartBeforeShutdown, RequestNotLost
<1>3. CASE FlagStep("tick")
  <2>1. CASE LoadFlags("tick")
    BY <2>1 DEF LoadFlags, WorkerGone, RestartBeforeShutdown, RequestNotLost
  <2>2. CASE LoadFails("tick") \/ SaveFails("tick")
    <3>1. /\ tick \in FlagOps /\ tick' = After(tick)
          /\ UNCHANGED <<stored, started, closer, committed, workers>>
      BY <2>2 DEF LoadFails, SaveFails, InFlagOp, Op, Continue
    <3>2. tick = "clear" \/ tick' \notin Recreating \cup {"restart_check"}
      BY <3>1 DEF After, FlagOps, Recreating
    <3>3. tick = "clear" => tick' = "create"
      BY <3>1 DEF After
    <3> QED
      BY <1>1, <3>1, <3>2, <3>3 DEF WorkerGone, RestartBeforeShutdown, RequestNotLost,
         Recreating
  <2>3. CASE SaveFlags("tick")
    <3>1. /\ tick \in FlagOps /\ tick' = After(tick) /\ loaded["tick"] # NoFlags
          /\ stored' = Modified(tick, loaded["tick"])
          /\ UNCHANGED <<started, closer, committed, workers>>
      BY <2>3 DEF SaveFlags, InFlagOp, Op, Continue, LifecycleInv, TypeOK
    <3>2. tick = "clear" \/ tick' \notin Recreating \cup {"restart_check"}
      BY <3>1 DEF After, FlagOps, Recreating
    <3>3. tick = "clear" => tick' = "create"
      BY <3>1 DEF After
    <3>4. WorkerGone' /\ RestartBeforeShutdown'
      BY <3>1, <3>2, <3>3 DEF WorkerGone, RestartBeforeShutdown, Recreating
    <3>5. tick # "clear" /\ "shutdown" \in stored => "shutdown" \in stored'
      BY <3>1 DEF Modified, FlagOps, CarryOps, LifecycleInv, CarriedFlagsFresh
    <3>6. RequestNotLost'
      BY <3>1, <3>5 DEF RequestNotLost, RestartBeforeShutdown, Recreating
    <3> QED
      BY <3>4, <3>6
  <2> QED
    BY <1>3, <2>1, <2>2, <2>3 DEF FlagStep
<1>4. CASE FlagStep("closer")
  <2>1. closer = "request"
    BY <1>4 DEF FlagStep, LoadFlags, LoadFails, SaveFlags, SaveFails, InFlagOp, Op,
       FlagOps, LifecycleInv, TypeOK
  <2>2. CASE LoadFlags("closer") \/ LoadFails("closer") \/ SaveFails("closer")
    <3>1. /\ UNCHANGED <<stored, tick, workers, committed, started>>
          /\ closer' \in {"request", "drain"}
      BY <2>1, <2>2 DEF LoadFlags, LoadFails, SaveFails, Continue
    <3> QED
      BY <1>2, <2>1, <3>1 DEF RestartBeforeShutdown
  <2>3. CASE SaveFlags("closer")
    <3>1. /\ UNCHANGED <<tick, workers, started>>
          /\ closer' = "drain"
          /\ stored' = loaded["closer"] \cup {"shutdown"}
      BY <2>1, <2>3 DEF SaveFlags, Continue, Op, Modified
    <3> QED
      BY <2>1, <3>1 DEF WorkerGone, RestartBeforeShutdown, RequestNotLost
  <2> QED
    BY <1>4, <2>2, <2>3 DEF FlagStep
<1>5. ASSUME NEW timedOut \in BOOLEAN, TickBegin(timedOut) PROVE Goal
  BY <1>5 DEF TickBegin, WorkerGone, RestartBeforeShutdown, RequestNotLost, Recreating
<1>6. CASE WorkerStep
  BY <1>1, <1>6 DEF WorkerStep, TickQuiet, TickNeedsRestart, TickEscalate,
     TickNeedsRemoval, Recreating
<1>7. CASE RestartStep
  <2>1. CASE RemoveWorkerForRestart \/ RestartCheck
               \/ \E ok \in BOOLEAN : RestartCreate(ok)
    BY <2>1 DEF RemoveWorkerForRestart, RestartCheck, RestartCreate, WorkerGone,
       RestartBeforeShutdown, RequestNotLost, Recreating
  <2>2. CASE RestartAdd \/ RetryPendingReAdd
    <3>1. /\ tick \in Recreating /\ tick' \notin Recreating \cup {"restart_check"}
          /\ UNCHANGED <<started, closer, committed>>
      BY <2>2 DEF RestartAdd, RetryPendingReAdd, Recreating
    <3> QED
      BY <3>1 DEF WorkerGone, RestartBeforeShutdown, RequestNotLost
  <2>3. CASE StartWorkerProcesses
    BY <1>1, <2>3 DEF StartWorkerProcesses, Recreating
  <2> QED
    BY <1>7, <2>1, <2>2, <2>3 DEF RestartStep
<1>8. CASE RemovalStep \/ TickLoopExit
  BY <1>1, <1>8 DEF RemovalStep, RemoveMark, FinalObservation, RemoveEntry,
     TickLoopExit, Recreating
<1>9. CASE DrainStep \/ ShutdownNoWorkers \/ ShutdownRequest \/ ShutdownCancel
             \/ ShutdownJoin \/ ShutdownCleanup
  BY <1>2, <1>9 DEF DrainStep, DrainEmpty, DrainTimeout, DrainForced,
     ShutdownNoWorkers, ShutdownRequest, ShutdownCancel, ShutdownJoin,
     ShutdownCleanup, RestartBeforeShutdown
<1>10. CASE ShutdownBegin
  BY <1>10 DEF ShutdownBegin, WorkerGone, RestartBeforeShutdown, RequestNotLost
<1>11. CASE \E op \in {"request", "disable", "enable"} : ParentCall(op)
  BY <1>1, <1>11 DEF ParentCall, Recreating
<1>12. CASE ExternalAdd
  BY <1>12 DEF ExternalAdd, LifecycleInv, TypeOK
<1>13. CASE OperatorForces \/ UNCHANGED vars
  BY <1>13 DEF OperatorForces, vars, WorkerGone, RestartBeforeShutdown, RequestNotLost
<1> QED
  BY <1>3, <1>4, <1>5, <1>6, <1>7, <1>8, <1>9, <1>10, <1>11, <1>12, <1>13
  DEF Next, TickStep, CloserStep, Environment

\* Shutdown's request, once saved, is seen by every worker that runs: the
\* derive carries it forward, and a restart that was under way either comes to
\* its check of s.started after Shutdown began and gives up, or had removed the
\* worker before Shutdown looked, so that there was no request to lose.
THEOREM RequestSurvives ==
    Spec => []RequestNotLost
<1>1. RequestInv /\ [Next]_vars => RequestInv'
  BY TypeStep, LockStep, RequestStep DEF RequestInv, LifecycleInv, RequestNotLost
<1>2. RequestInv => RequestNotLost
  BY DEF RequestInv
<1> QED
  BY <1>1, <1>2, InitRequestInv, StepIsNext, PTL DEF Spec

-----------------------------------------------------------------------------
(* LiveNotTombstoned: the entry leaves "live" in the critical section that *)
(* writes the tombstone, and comes back only through an AddWorker, which   *)
(* clears it.                                                              *)

LEMMA TombstoneStep == LiveNotTombstoned /\ [Next]_vars => LiveNotTombstoned'
<1> SUFFICES ASSUME LiveNotTombstoned, [Next]_vars PROVE LiveNotTombstoned'
  OBVIOUS
<1> USE DEF LiveNotTombstoned, registry, restart, closing, document, history
<1>1. ASSUME NEW g \in Goroutines, FlagStep(g) PROVE LiveNotTombstoned'
  BY <1>1 DEF FlagStep, LoadFlags, LoadFails, SaveFlags, SaveFails
<1>2. CASE WorkerStep \/ TickLoopExit \/ \E timedOut \in BOOLEAN : TickBegin(timedOut)
  BY <1>2 DEF WorkerStep, TickQuiet, TickNeedsRestart, TickEscalate, TickNeedsRemoval,
     TickLoopExit, TickBegin
<1>3. CASE RestartStep
  BY <1>3 DEF RestartStep, RemoveWorkerForRestart, RestartCheck, RestartCreate,
     RestartAdd, RetryPendingReAdd, StartWorkerProcesses, AddSucceeds, AddFails
<1>4. CASE RemovalStep
  BY <1>4 DEF RemovalStep, RemoveMark, FinalObservation, RemoveEntry
<1>5. CASE DrainStep \/ ShutdownNoWorkers \/ ShutdownRequest \/ ShutdownCancel
             \/ ShutdownJoin \/ ShutdownCleanup
  BY <1>5 DEF DrainStep, DrainEmpty, DrainTimeout, DrainForced, ShutdownNoWorkers,
     ShutdownRequest, ShutdownCancel, ShutdownJoin, ShutdownCleanup
<1>6. CASE Environment
  BY <1>6 DEF Environment, ShutdownBegin, ParentCall, ExternalAdd, OperatorForces,
     AddSucceeds, AddFails
<1>7. CASE UNCHANGED vars
  BY <1>7 DEF vars
<1> QED
  BY <1>1, <1>2, <1>3, <1>4, <1>5, <1>6, <1>7 DEF Next, TickStep, CloserStep, Goroutines

\* A registered worker that is not on its way out has no tombstone, however
\* often its id is removed and added again, by whom and with which failures
\* (removeWorker, AddWorker).
THEOREM NoTombstoneOnLive == Spec => []LiveNotTombstoned
<1>1. Init => LiveNotTombstoned
  BY DEF Init, LiveNotTombstoned
<1> QED
  BY <1>1, TombstoneStep, StepIsNext, PTL DEF Spec

-----------------------------------------------------------------------------
(* CleanDrainObserves: an empty registry means that no collector is left   *)
(* to stop, and after Shutdown began none is started.                      *)

\* The registry entry outlives the collector.
EntryOutlivesCollector ==
    /\ workers = "absent" => ~collecting
    /\ tick \in {"final", "delete"} => workers = "removing"
    /\ tick = "delete" => ~collecting

\* The phases of Shutdown and what they have done.
ShutdownPhases ==
    /\ closer # "none" => ~started
    /\ ctxDone => closer \in {"join", "cleanup", "done"}
    /\ drainEnd # "open" => closer \in {"cancel", "join", "cleanup", "done"}

\* An observation is skipped only on a cancelled context, and a drain that
\* found the registry empty has nobody left who could skip one.
DrainInv ==
    /\ EntryOutlivesCollector /\ ShutdownPhases
    /\ lastRemoval = "skipped" => ctxDone
    /\ drainEnd = "drained" => ~collecting /\ lastRemoval # "skipped"

LEMMA DrainInvStep == TypeOK /\ DrainInv /\ [Next]_vars => DrainInv'
<1> SUFFICES ASSUME TypeOK, DrainInv, [Next]_vars PROVE DrainInv'
  OBVIOUS
<1> USE DEF DrainInv, EntryOutlivesCollector, ShutdownPhases,
            registry, restart, closing, document, history
<1>1. CASE FlagStep("tick")
  <2>1. UNCHANGED <<workers, collecting, started, closer, drainEnd, ctxDone, lastRemoval>>
    BY <1>1 DEF FlagStep, LoadFlags, LoadFails, SaveFlags, SaveFails, Continue
  <2>2. tick' = tick \/ tick' = After(tick)
    BY <1>1 DEF FlagStep, LoadFlags, LoadFails, SaveFlags, SaveFails, Continue
  <2>3. tick' = tick \/ tick' \notin {"final", "delete"}
    BY <2>2 DEF After
  <2> QED
    BY <2>1, <2>3
<1>2. CASE FlagStep("closer")
  <2>1. /\ UNCHANGED <<workers, collecting, started, tick, drainEnd, ctxDone, lastRemoval>>
        /\ closer = "request" /\ closer' \in {"request", "drain"}
    BY <1>2 DEF FlagStep, LoadFlags, LoadFails, SaveFlags, SaveFails, Continue,
       InFlagOp, Op, FlagOps, TypeOK
  <2> QED
    BY <2>1
<1>3. CASE WorkerStep \/ TickLoopExit \/ \E timedOut \in BOOLEAN : TickBegin(timedOut)
  BY <1>3 DEF WorkerStep, TickQuiet, TickNeedsRestart, TickEscalate, TickNeedsRemoval,
     TickLoopExit, TickBegin
<1>4. CASE RestartStep
  <2>1. CASE RemoveWorkerForRestart \/ RestartCheck \/ \E ok \in BOOLEAN : RestartCreate(ok)
    BY <2>1 DEF RemoveWorkerForRestart, RestartCheck, RestartCreate
  <2>2. CASE RestartAdd \/ RetryPendingReAdd
    BY <2>2 DEF RestartAdd, RetryPendingReAdd, AddSucceeds, AddFails
  <2>3. CASE StartWorkerProcesses
    BY <2>3 DEF StartWorkerProcesses, TypeOK
  <2> QED
    BY <1>4, <2>1, <2>2, <2>3 DEF RestartStep
<1>5. CASE RemovalStep
  <2>1. CASE RemoveMark
    BY <2>1 DEF RemoveMark
  <2>2. CASE FinalObservation
    BY <2>2 DEF FinalObservation
  <2>3. CASE RemoveEntry
    BY <2>3 DEF RemoveEntry
  <2> QED
    BY <1>5, <2>1, <2>2, <2>3 DEF RemovalStep
<1>6. CASE DrainStep \/ ShutdownNoWorkers \/ ShutdownRequest \/ ShutdownCancel
             \/ ShutdownJoin \/ ShutdownCleanup
  <2>1. CASE DrainStep
    BY <2>1 DEF DrainStep, DrainEmpty, DrainTimeout, DrainForced
  <2>2. CASE ShutdownNoWorkers \/ ShutdownRequest
    BY <2>2 DEF ShutdownNoWorkers, ShutdownRequest
  <2>3. CASE ShutdownCancel
    BY <2>3 DEF ShutdownCancel
  <2>4. CASE ShutdownJoin
    BY <2>4 DEF ShutdownJoin
  <2>5. CASE ShutdownCleanup
    BY <2>5 DEF ShutdownCleanup
  <2> QED
    BY <1>6, <2>1, <2>2, <2>3, <2>4, <2>5
<1>7. CASE Environment
  BY <1>7 DEF Environment, ShutdownBegin, ParentCall, ExternalAdd, OperatorForces,
     AddSucceeds, AddFails
<1>8. CASE UNCHANGED vars
  BY <1>8 DEF vars
<1> QED
  BY <1>1, <1>2, <1>3, <1>4, <1>5, <1>6, <1>7, <1>8
  DEF Next, TickStep, CloserStep, Goroutines

\* A drain that ended because no worker was left (Shutdown's drain loop) has
\* cut off no final observation, also when a restart or a foreign AddWorker
\* races the shutdown.
THEOREM CleanDrain == Spec => []CleanDrainObserves
<1>1. Init => DrainInv
  BY DEF Init, DrainInv, EntryOutlivesCollector, ShutdownPhases
<1>2. DrainInv => CleanDrainObserves
  BY DEF DrainInv, CleanDrainObserves
<1> QED
  BY <1>1, <1>2, DrainInvStep, TypeCorrect, StepIsNext, PTL DEF Spec
=============================================================================
