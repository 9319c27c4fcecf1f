--------------------------- MODULE WorkerTickProofs ---------------------------
(***************************************************************************)
(* The safety properties of the collector and of the worker tick, for any  *)
(* number of loop goroutines and restart attempts.                         *)
(***************************************************************************)
EXTENDS WorkerTick, FiniteSetTheorems, TLAPS

\* collectionMu is held by whoever is in a collection, and by nobody else.
MutexInv ==
    /\ \A g \in Loops : loop[g] = "collect" <=> collectionMu = g
    /\ call = "final_collect" <=> collectionMu = "final"

\* Until a Stop gives up on a loop, the collector's two flags describe the
\* current loop, and a restart that has passed its Stop finds that loop gone.
GenerationInv ==
    ~overran => /\ running <=> Live(cur)
                /\ state = "running" <=> Live(cur)
                /\ \A g \in Loops \ {cur} : ~Live(g)
                /\ call \in {"restart_reset", "restart_start"} => ~Live(cur)

\* An observation that led to an action keeps the gate closed until it is replaced.
GateInv ==
    /\ usedStored => actionPending /\ ~newer
    /\ unseen => ~usedStored
    /\ DecidesOnNewObservation

\* The steps of the collector's own variables.
CollectorStep ==
    \/ Stop("restart_stop", "restart_wait", "restart_reset")
    \/ StopReturns("restart_wait", "restart_reset")
    \/ RestartResets
    \/ RestartStarts
    \/ FinalBegins
    \/ FinalCollects
    \/ Stop("stop", "stop_wait", "stopped")
    \/ StopReturns("stop_wait", "stopped")
    \/ ParentCancels
    \/ \E g \in Loops :
        \/ \E triggered \in BOOLEAN : LoopWakes(g, triggered)
        \/ LoopCollects(g)
        \/ LoopSkips(g)
        \/ LoopReturns(g)
        \/ LoopExits(g)
    \/ FinalReturns
    \/ RestartBegins
    \/ TriggerNow
    \/ \E restart \in BOOLEAN : RemovalBegins(restart)
    \/ UNCHANGED cvars

\* What a step of the whole does to the collector's variables.
LEMMA CollectorProjection ==
    ASSUME [Next]_vars
    PROVE  CollectorStep
<1> CASE UNCHANGED vars
  BY DEF vars, CollectorStep
<1> CASE CollectorCall \/ ParentCancels
  BY DEF CollectorCall, CollectorStep
<1> CASE \E g \in Loops : LoopRuns(g)
  BY DEF LoopRuns, CollectorStep
<1> CASE \E g \in Loops : LoopSaves(g) \/ LoopFails(g)
  BY DEF LoopSaves, LoopFails, CollectorStep
<1> CASE FinalSaves \/ FinalFails
  BY DEF FinalSaves, FinalFails, CollectorStep
<1> CASE Ages \/ ShutdownIsRequested
  BY DEF Ages, ShutdownIsRequested, CollectorStep
<1> CASE ActionCompletes \/ TickForceResets
  BY DEF ActionCompletes, TickForceResets, CollectorStep
<1> CASE Tick
  <2> CASE TickEscalates \/ TickGated \/ TickEvaluates \/ NextQuiet \/ NextEnqueues
    BY DEF TickEscalates, TickGated, TickEvaluates, NextQuiet, NextEnqueues, CollectorStep
  <2> CASE TickRestarts
    BY DEF TickRestarts, CollectorStep
  <2> CASE \E restart \in BOOLEAN : NextRemoves(restart)
    BY DEF NextRemoves, CollectorStep
  <2> QED BY DEF Tick
<1> QED BY DEF Next

LEMMA TypeInit ==
    ASSUME Init
    PROVE  TypeOK
<1>1. cur \in Loops
  BY CollectorAssumption DEF Init, CollectorInit
<1>2. loop \in [Loops -> {"select", "lock", "collect", "exited"}]
  BY DEF Init, CollectorInit
<1>3. CollectorTypeOK
  BY <1>1, <1>2, Zenon DEF Init, CollectorInit, CollectorTypeOK, Calls
<1>4. restartCount \in 0..MaxRestartAttempts
  BY TickAssumption DEF Init
<1> QED
  BY <1>3, <1>4, Zenon DEF Init, TypeOK

LEMMA CollectorTypeStep ==
    ASSUME CollectorTypeOK, CollectorStep
    PROVE  CollectorTypeOK'
<1> USE DEF CollectorTypeOK, Calls
<1>1. CASE \/ Stop("restart_stop", "restart_wait", "restart_reset")
           \/ Stop("stop", "stop_wait", "stopped")
  BY <1>1 DEF Stop, Loopside
<1>2. CASE \/ StopReturns("restart_wait", "restart_reset")
           \/ StopReturns("stop_wait", "stopped")
  BY <1>2 DEF StopReturns
<1>3. CASE RestartResets
  BY <1>3 DEF RestartResets
<1>4. CASE RestartStarts
  BY <1>4 DEF RestartStarts
<1>5. CASE FinalBegins \/ RestartBegins \/ \E restart \in BOOLEAN : RemovalBegins(restart)
  BY <1>5 DEF FinalBegins, RestartBegins, RemovalBegins, Loopside
<1>6. CASE FinalCollects \/ FinalReturns
  BY <1>6 DEF FinalCollects, FinalReturns
<1>7. CASE ParentCancels
  BY <1>7 DEF ParentCancels
<1>8. CASE TriggerNow
  BY <1>8 DEF TriggerNow
<1>9. ASSUME NEW g \in Loops,
             \/ \E triggered \in BOOLEAN : LoopWakes(g, triggered)
             \/ LoopCollects(g) \/ LoopSkips(g) \/ LoopReturns(g) \/ LoopExits(g)
      PROVE  CollectorTypeOK'
  <2>1. CASE \E triggered \in BOOLEAN : LoopWakes(g, triggered)
    BY <2>1 DEF LoopWakes
  <2>2. CASE LoopCollects(g)
    BY <2>2 DEF LoopCollects
  <2>3. CASE LoopSkips(g)
    BY <2>3 DEF LoopSkips
  <2>4. CASE LoopReturns(g)
    BY <2>4 DEF LoopReturns
  <2>5. CASE LoopExits(g)
    BY <2>5 DEF LoopExits
  <2> QED BY <1>9, <2>1, <2>2, <2>3, <2>4, <2>5
<1>10. CASE UNCHANGED cvars
  BY <1>10 DEF cvars
<1> QED
  BY <1>1, <1>2, <1>3, <1>4, <1>5, <1>6, <1>7, <1>8, <1>9, <1>10 DEF CollectorStep

LEMMA TypeStep ==
    ASSUME TypeOK, [Next]_vars
    PROVE  TypeOK'
<1>1. CollectorTypeOK'
  BY CollectorProjection, CollectorTypeStep DEF TypeOK
<1>2. CASE UNCHANGED tvars
  BY <1>1, <1>2 DEF TypeOK, tvars
<1>3. CASE Saved
  BY <1>1, <1>3 DEF TypeOK, Saved
<1>4. CASE Ages \/ ShutdownIsRequested \/ ActionCompletes
  <2>1. CASE Ages
    BY <1>1, <2>1 DEF TypeOK, Ages, gate, action
  <2>2. CASE ShutdownIsRequested
    BY <1>1, <2>2 DEF TypeOK, ShutdownIsRequested, gate, action
  <2>3. CASE ActionCompletes
    BY <1>1, <2>3 DEF TypeOK, ActionCompletes, gate
  <2> QED BY <1>4, <2>1, <2>2, <2>3
<1>5. CASE TickEscalates
  BY <1>1, <1>5 DEF TypeOK, TickEscalates, gate, action
<1>6. CASE TickRestarts
  <2>1. restartCount' \in 0..MaxRestartAttempts
    BY <1>6, TickAssumption DEF TypeOK, TickRestarts, EscalationDue
  <2> QED BY <1>1, <1>6, <2>1 DEF TypeOK, TickRestarts, gate, action
<1>7. CASE TickGated
  BY <1>1, <1>7, TickAssumption DEF TypeOK, TickGated, gate, action
<1>8. CASE TickEvaluates
  BY <1>1, <1>8, TickAssumption DEF TypeOK, TickEvaluates
<1>9. CASE NextQuiet \/ NextEnqueues \/ \E restart \in BOOLEAN : NextRemoves(restart)
  BY <1>1, <1>9 DEF TypeOK, NextQuiet, NextEnqueues, NextRemoves, gate
<1> QED
  BY <1>2, <1>3, <1>4, <1>5, <1>6, <1>7, <1>8, <1>9
  DEF Next, Tick, LoopSaves, LoopFails, FinalSaves, FinalFails, TickForceResets, vars

\* The restart budget and the types: restartCollector's panic on a used-up budget
\* is unreachable.
THEOREM TypeCorrect == Spec => []TypeOK
<1>1. Init => TypeOK
  BY TypeInit
<1>2. TypeOK /\ [Next]_vars => TypeOK'
  BY TypeStep
<1> QED BY <1>1, <1>2, PTL DEF Spec

\* Nothing but Start makes the state running, and it leaves the call.
LEMMA StartStep ==
    ASSUME StartFindsNoneRunning, CollectorStep
    PROVE  StartFindsNoneRunning'
BY DEF StartFindsNoneRunning, CollectorStep, Stop, StopReturns, RestartResets,
       RestartStarts, FinalBegins, FinalCollects, ParentCancels, LoopWakes,
       LoopCollects, LoopSkips, LoopReturns, LoopExits, FinalReturns,
       RestartBegins, TriggerNow, RemovalBegins, Loopside, cvars

\* Restart never runs into Start's panic on a running collector (invariant I8),
\* at whatever moment loops that outlived their Stop write the state.
THEOREM RestartNeverPanics == Spec => []StartFindsNoneRunning
<1>1. Init => StartFindsNoneRunning
  BY DEF Init, CollectorInit, StartFindsNoneRunning
<1>2. StartFindsNoneRunning /\ [Next]_vars => StartFindsNoneRunning'
  BY CollectorProjection, StartStep
<1> QED BY <1>1, <1>2, PTL DEF Spec

LEMMA MutexStep ==
    ASSUME CollectorTypeOK, MutexInv, CollectorStep
    PROVE  MutexInv'
<1> USE CollectorAssumption DEF CollectorTypeOK, MutexInv
<1>1. CASE \/ Stop("restart_stop", "restart_wait", "restart_reset")
           \/ Stop("stop", "stop_wait", "stopped")
  BY <1>1 DEF Stop, Loopside
<1>2. CASE \/ StopReturns("restart_wait", "restart_reset")
           \/ StopReturns("stop_wait", "stopped")
  BY <1>2 DEF StopReturns
<1>3. CASE RestartResets
  BY <1>3 DEF RestartResets
<1>4. CASE RestartStarts
  BY <1>4 DEF RestartStarts, Live
<1>5. CASE FinalBegins \/ RestartBegins \/ \E restart \in BOOLEAN : RemovalBegins(restart)
  BY <1>5 DEF FinalBegins, RestartBegins, RemovalBegins, Loopside
<1>6. CASE FinalCollects \/ FinalReturns
  BY <1>6 DEF FinalCollects, FinalReturns
<1>7. CASE ParentCancels \/ TriggerNow \/ UNCHANGED cvars
  BY <1>7 DEF ParentCancels, TriggerNow, cvars
<1>8. ASSUME NEW g \in Loops,
             \/ \E triggered \in BOOLEAN : LoopWakes(g, triggered)
             \/ LoopCollects(g) \/ LoopSkips(g) \/ LoopReturns(g) \/ LoopExits(g)
      PROVE  MutexInv'
  BY <1>8 DEF LoopWakes, LoopCollects, LoopSkips, LoopReturns, LoopExits
<1> QED
  BY <1>1, <1>2, <1>3, <1>4, <1>5, <1>6, <1>7, <1>8 DEF CollectorStep

\* The collections under way are those of the mutex's one holder.
LEMMA MutexExcludes ==
    ASSUME CollectorTypeOK, MutexInv
    PROVE  OneCollection
<1> DEFINE S == {g \in Loops : loop[g] = "collect"}
                \cup {c \in {"final"} : call = "final_collect"}
<1>1. S \subseteq {collectionMu}
  BY DEF MutexInv
<1>2. IsFiniteSet({collectionMu}) /\ Cardinality({collectionMu}) = 1
  BY FS_Singleton
<1>3. Cardinality(S) <= Cardinality({collectionMu})
  BY <1>1, <1>2, FS_Subset
<1> HIDE DEF S
<1>4. Cardinality(S) <= 1
  BY <1>2, <1>3
<1> USE DEF S
<1> QED BY <1>4 DEF OneCollection

\* collectionMu serialises all collections of a worker: those of its loop, of the
\* loops that outlived their Stop, and the final observation of a removal.
THEOREM CollectionsExclude == Spec => []OneCollection
<1>1. Init => MutexInv
  BY CollectorAssumption DEF Init, CollectorInit, MutexInv
<1>2. TypeOK /\ MutexInv /\ [Next]_vars => MutexInv'
  BY CollectorProjection, MutexStep DEF TypeOK
<1>3. TypeOK /\ MutexInv => OneCollection
  BY MutexExcludes DEF TypeOK
<1> QED BY <1>1, <1>2, <1>3, TypeCorrect, PTL DEF Spec

LEMMA GenerationStep ==
    ASSUME CollectorTypeOK, GenerationInv, CollectorStep
    PROVE  GenerationInv'
<1> USE DEF CollectorTypeOK, GenerationInv, Live
<1>1. CASE \/ Stop("restart_stop", "restart_wait", "restart_reset")
           \/ Stop("stop", "stop_wait", "stopped")
  BY <1>1 DEF Stop, Loopside
<1>2. CASE \/ StopReturns("restart_wait", "restart_reset")
           \/ StopReturns("stop_wait", "stopped")
  BY <1>2 DEF StopReturns
<1>3. CASE RestartResets
  BY <1>3 DEF RestartResets
<1>4. CASE RestartStarts
  BY <1>4 DEF RestartStarts
<1>5. CASE FinalBegins \/ RestartBegins \/ \E restart \in BOOLEAN : RemovalBegins(restart)
  BY <1>5 DEF FinalBegins, RestartBegins, RemovalBegins, Loopside
<1>6. CASE FinalCollects \/ FinalReturns
  BY <1>6 DEF FinalCollects, FinalReturns
<1>7. CASE ParentCancels \/ TriggerNow \/ UNCHANGED cvars
  BY <1>7 DEF ParentCancels, TriggerNow, cvars
<1>8. ASSUME NEW g \in Loops,
             \/ \E triggered \in BOOLEAN : LoopWakes(g, triggered)
             \/ LoopCollects(g) \/ LoopSkips(g) \/ LoopReturns(g) \/ LoopExits(g)
      PROVE  GenerationInv'
  BY <1>8 DEF LoopWakes, LoopCollects, LoopSkips, LoopReturns, LoopExits
<1> QED
  BY <1>1, <1>2, <1>3, <1>4, <1>5, <1>6, <1>7, <1>8 DEF CollectorStep

\* IsRunning tells the truth as long as no loop outlived its Stop, for any number
\* of restarts.
THEOREM RunningAccurate == Spec => []RunningIsAccurate
<1>1. Init => GenerationInv
  <2> SUFFICES ASSUME Init PROVE GenerationInv
    OBVIOUS
  <2>1. cur \in Loops
    BY TypeInit DEF TypeOK, CollectorTypeOK
  <2>2. \A g \in Loops : Live(g) <=> g = cur
    BY DEF Init, CollectorInit, Live
  <2>3. running /\ state = "running" /\ call = "none"
    BY Zenon DEF Init, CollectorInit
  <2> HIDE DEF Init
  <2> QED BY <2>1, <2>2, <2>3, Zenon DEF GenerationInv
<1>2. TypeOK /\ GenerationInv /\ [Next]_vars => GenerationInv'
  BY CollectorProjection, GenerationStep DEF TypeOK
<1>3. GenerationInv => RunningIsAccurate
  BY DEF GenerationInv, RunningIsAccurate
<1> QED BY <1>1, <1>2, <1>3, TypeCorrect, PTL DEF Spec

LEMMA GateStep ==
    ASSUME TypeOK, GateInv, [Next]_vars
    PROVE  GateInv'
<1> USE DEF GateInv, DecidesOnNewObservation, Requested
<1>1. CASE UNCHANGED tvars
  BY <1>1 DEF tvars
<1>2. CASE Saved
  BY <1>2 DEF Saved
<1>3. CASE Ages \/ ShutdownIsRequested \/ ActionCompletes
  BY <1>3 DEF Ages, ShutdownIsRequested, ActionCompletes, gate, action
<1>4. CASE TickEscalates \/ TickRestarts \/ TickGated
  BY <1>4 DEF TickEscalates, TickRestarts, TickGated, gate, action
<1>5. CASE TickEvaluates
  BY <1>5 DEF TickEvaluates, GateOpens, TypeOK
<1>6. CASE NextQuiet
  BY <1>6 DEF NextQuiet, gate
<1>7. CASE NextEnqueues
  BY <1>7 DEF NextEnqueues, TypeOK
<1>8. CASE \E restart \in BOOLEAN : NextRemoves(restart)
  BY <1>8 DEF NextRemoves, gate
<1> QED
  BY <1>1, <1>2, <1>3, <1>4, <1>5, <1>6, <1>7, <1>8
  DEF Next, Tick, LoopSaves, LoopFails, FinalSaves, FinalFails, TickForceResets, vars

\* The action gate does its work: while no shutdown is requested, no observation
\* is used for a second decision after it led to an action.
THEOREM DecidesOnce == Spec => []DecidesOnNewObservation
<1>1. Init => GateInv
  BY DEF Init, GateInv, DecidesOnNewObservation
<1>2. TypeOK /\ GateInv /\ [Next]_vars => GateInv'
  BY GateStep
<1>3. GateInv => DecidesOnNewObservation
  BY DEF GateInv
<1> QED BY <1>1, <1>2, <1>3, TypeCorrect, PTL DEF Spec
===============================================================================
