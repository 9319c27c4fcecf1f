------------------------ MODULE ActionExecutorProofs ------------------------
(***************************************************************************)
(* Proofs about the action executor, for every set of actions, pool size,  *)
(* channel capacity and number of registrations.                           *)
(***************************************************************************)
EXTENDS ActionExecutor, TLAPS

-----------------------------------------------------------------------------
(* Type correctness.                                                       *)

\* The updates of the two records that Start, the reporter and Shutdown share.
LEMMA MetricsUpdate ==
    ASSUME NEW m \in MetricsStates
    PROVE  /\ [m EXCEPT !.pc = "running"] \in MetricsStates
           /\ [m EXCEPT !.pc = "exited"] \in MetricsStates
           /\ [m EXCEPT !.cancelled = TRUE] \in MetricsStates
BY DEF MetricsStates

LEMMA ShutdownUpdate ==
    ASSUME NEW s \in ShutdownStates
    PROVE  /\ [s EXCEPT !.pc = "joined"] \in ShutdownStates
           /\ [s EXCEPT !.pc = "closed"] \in ShutdownStates
           /\ [s EXCEPT !.pc = "cancelled"] \in ShutdownStates
           /\ [s EXCEPT !.pc = "done"] \in ShutdownStates
BY DEF ShutdownStates, ShutdownPhases

\* Init establishes the type invariant.
LEMMA InitTypeOK == Init => TypeOK
<1> SUFFICES ASSUME Init PROVE TypeOK
  OBVIOUS
<1> USE ExecutorAssumption DEF Init
<1>1. inProgress \in [ActionIDs -> Entries] /\ nextGeneration \in 0..MaxGen
  BY DEF Entries
<1>2. caller \in [Callers -> CallerStates]
  BY DEF CallerStates
<1>3. worker \in [Workers -> WorkerStates]
  BY DEF WorkerStates
<1>4. actionQueue \in Seq(Works) /\ callbacks \in [Gens -> Nat]
  OBVIOUS
<1> QED
  BY <1>1, <1>2, <1>3, <1>4 DEF TypeOK, MetricsStates, ShutdownStates, ShutdownPhases

\* The type invariant is preserved by every step.
LEMMA NextTypeOK == TypeOK /\ [Next]_vars => TypeOK'
<1> SUFFICES ASSUME TypeOK, [Next]_vars PROVE TypeOK'
  OBVIOUS
<1> USE ExecutorAssumption DEF TypeOK, Gens
<1>1. CASE StartRegister
  BY <1>1 DEF StartRegister
<1>2. CASE StartSpawn
  BY <1>2 DEF StartSpawn, WorkerStates, Idle
<1>3. CASE StartMetrics
  BY <1>3, MetricsUpdate DEF StartMetrics
<1>4. ASSUME NEW c \in Callers, NEW id \in ActionIDs, EnqueueRegister(c, id)
      PROVE  TypeOK'
  BY <1>4 DEF EnqueueRegister, Entries, Ages, CallerStates, Works
<1>5. ASSUME NEW c \in Callers, EnqueueSend(c)
      PROVE  TypeOK'
  <2>1. caller[c].work \in Works
    BY <1>5 DEF EnqueueSend, CallerStates, Idle
  <2> QED
    BY <1>5, <2>1 DEF EnqueueSend, CallerStates
<1>6. ASSUME NEW c \in Callers, EnqueueFull(c)
      PROVE  TypeOK'
  <2>1. caller[c] \in [pc : {"send", "full"}, work : Works]
    BY <1>6 DEF EnqueueFull, CallerStates, Idle
  <2>2. caller' \in [Callers -> CallerStates]
    BY <1>6, <2>1 DEF EnqueueFull, CallerStates
  <2> QED
    BY <1>6, <2>2 DEF EnqueueFull
<1>7. ASSUME NEW c \in Callers, EnqueueRollback(c)
      PROVE  TypeOK'
  <2>1. inProgress' \in [ActionIDs -> Entries]
    BY <1>7 DEF EnqueueRollback, Unregister, Entries
  <2>2. caller' \in [Callers -> CallerStates]
    BY <1>7 DEF EnqueueRollback, CallerStates
  <2> QED
    BY <1>7, <2>1, <2>2 DEF EnqueueRollback
<1>8. ASSUME NEW c \in Callers, EnqueuePanic(c)
      PROVE  TypeOK'
  BY <1>8 DEF EnqueuePanic, CallerStates
<1>9. ASSUME NEW w \in Workers, WorkerReceive(w)
      PROVE  TypeOK'
  <2>1. Head(actionQueue) \in Works /\ Tail(actionQueue) \in Seq(Works)
    BY <1>9 DEF WorkerReceive
  <2> QED
    BY <1>9, <2>1 DEF WorkerReceive, WorkerStates
<1>10. ASSUME NEW w \in Workers, WorkerExit(w)
       PROVE  TypeOK'
  BY <1>10 DEF WorkerExit, WorkerStates, Idle
<1>11. ASSUME NEW w \in Workers, WorkerComplete(w)
       PROVE  TypeOK'
  <2>1. worker[w] \in [pc : {"exec", "report"}, work : Works]
    BY <1>11 DEF WorkerComplete, WorkerStates
  <2>2. inProgress' \in [ActionIDs -> Entries]
    BY <1>11 DEF WorkerComplete, Unregister, Entries
  <2>3. [worker EXCEPT ![w].pc = "report"] \in [Workers -> WorkerStates]
    BY <2>1 DEF WorkerStates
  <2>4. [worker EXCEPT ![w] = Idle] \in [Workers -> WorkerStates]
    BY DEF WorkerStates, Idle
  <2>5. worker' \in [Workers -> WorkerStates]
    BY <1>11, <2>3, <2>4 DEF WorkerComplete
  <2> QED
    BY <1>11, <2>2, <2>5 DEF WorkerComplete
<1>12. ASSUME NEW w \in Workers, WorkerCallback(w)
       PROVE  TypeOK'
  <2>1. worker[w].work.gen \in Gens
    BY <1>12 DEF WorkerCallback, WorkerStates, Works
  <2>2. worker' \in [Workers -> WorkerStates]
    BY <1>12 DEF WorkerCallback, WorkerStates, Idle
  <2>3. callbacks' \in [Gens -> Nat]
    BY <1>12, <2>1 DEF WorkerCallback
  <2> QED
    BY <1>12, <2>2, <2>3 DEF WorkerCallback
<1>13. ASSUME NEW id \in ActionIDs, Elapse(id)
       PROVE  TypeOK'
  <2>1. inProgress[id] \in [gen : Gens, age : Ages, stuckReported : BOOLEAN]
    BY <1>13 DEF Elapse, Entries
  <2>2. inProgress[id].age + 1 \in Ages
    BY <1>13, <2>1 DEF Elapse, Ages
  <2>3. inProgress' \in [ActionIDs -> Entries]
    BY <1>13, <2>1, <2>2 DEF Elapse, Entries
  <2> QED
    BY <1>13, <2>3 DEF Elapse
<1>14. CASE MetricsTick
  <2>1. \A id \in ActionIDs : Expired(id) => inProgress[id].gen \in Gens
    BY DEF Expired, Entries, NoEntry
  <2>2. ExpiredGens \in SUBSET Gens
    BY <2>1 DEF ExpiredGens
  <2>3. ASSUME NEW id \in ActionIDs, Stuck(id)
        PROVE  [inProgress[id] EXCEPT !.stuckReported = TRUE] \in Entries
    <3>1. inProgress[id] \in [gen : Gens, age : Ages, stuckReported : BOOLEAN]
      BY <2>3 DEF Stuck, Entries, NoEntry
    <3> QED
      BY <3>1 DEF Entries
  <2>4. inProgress' \in [ActionIDs -> Entries]
    BY <1>14, <2>3 DEF MetricsTick, Entries
  <2>5. metrics' \in MetricsStates
    BY <1>14, <2>2 DEF MetricsTick, MetricsStates
  <2> QED
    BY <1>14, <2>2, <2>4, <2>5 DEF MetricsTick
<1>15. ASSUME NEW g \in Gens, MetricsCallback(g)
       PROVE  TypeOK'
  <2>1. callbacks' \in [Gens -> Nat]
    BY <1>15 DEF MetricsCallback
  <2>2. metrics' \in MetricsStates
    BY <1>15 DEF MetricsCallback, MetricsStates
  <2> QED
    BY <1>15, <2>1, <2>2 DEF MetricsCallback
<1>16. CASE MetricsExit
  BY <1>16, MetricsUpdate DEF MetricsExit
<1>17. CASE ShutdownStep
  <2>1. CASE ShutdownStop
    BY <2>1 DEF ShutdownStop, ShutdownStates, ShutdownPhases
  <2>2. CASE ShutdownCancelMetrics
    BY <2>2, MetricsUpdate DEF ShutdownCancelMetrics
  <2>3. CASE ShutdownJoinMetrics
    BY <2>3, ShutdownUpdate DEF ShutdownJoinMetrics
  <2>4. CASE ShutdownClose
    BY <2>4, ShutdownUpdate DEF ShutdownClose
  <2>5. CASE ShutdownCancel
    <3>1. ctxDone' \in BOOLEAN
      BY <2>5 DEF ShutdownCancel, ShutdownStates
    <3> QED
      BY <2>5, <3>1, ShutdownUpdate DEF ShutdownCancel
  <2>6. CASE ShutdownWait
    BY <2>6, ShutdownUpdate DEF ShutdownWait
  <2> QED
    BY <1>17, <2>1, <2>2, <2>3, <2>4, <2>5, <2>6 DEF ShutdownStep
<1>18. CASE ParentCancel
  BY <1>18 DEF ParentCancel
<1>19. CASE UNCHANGED vars
  BY <1>19 DEF vars
<1> QED
  BY <1>1, <1>2, <1>3, <1>4, <1>5, <1>6, <1>7, <1>8, <1>9, <1>10, <1>11, <1>12,
     <1>13, <1>14, <1>15, <1>16, <1>17, <1>18, <1>19
     DEF Next, CallerStep, WorkerStep, MetricsStep

\* In every reachable state the variables have their types: an entry is either
\* absent or complete, and only goroutines that hold work carry a generation.
THEOREM TypeCorrect == Spec => []TypeOK
  BY InitTypeOK, NextTypeOK, PTL DEF Spec

-----------------------------------------------------------------------------
(* At most one callback.  A generation moves one way: from an entry to a   *)
(* claim (a pool goroutine or the reporter that took the entry away) to a  *)
(* callback.  Freshness says that no later stage knows a generation that   *)
(* has not been handed out.                                                *)

Reporting(w) == worker[w].pc = "report"

\* Generations above the counter are unused.
Fresh ==
    /\ \A id \in ActionIDs : inProgress[id].gen <= nextGeneration
    /\ \A c \in Callers : caller[c].work.gen <= nextGeneration
    /\ \A i \in 1..Len(actionQueue) : actionQueue[i].gen <= nextGeneration
    /\ \A w \in Workers : worker[w].work.gen <= nextGeneration
    /\ \A g \in metrics.report : g <= nextGeneration
    /\ \A g \in Gens : g > nextGeneration => callbacks[g] = 0

\* No two entries share a generation, and an entry's generation is neither
\* claimed nor answered.
EntriesUnclaimed ==
    \A id \in ActionIDs : inProgress[id].gen # 0 =>
        /\ callbacks[inProgress[id].gen] = 0
        /\ inProgress[id].gen \notin metrics.report
        /\ \A w \in Workers : Reporting(w) => worker[w].work.gen # inProgress[id].gen
        /\ \A j \in ActionIDs : inProgress[j].gen = inProgress[id].gen => j = id

\* A claim is held once and not yet answered.
ClaimsExclusive ==
    /\ \A w \in Workers : Reporting(w) =>
        /\ callbacks[worker[w].work.gen] = 0
        /\ worker[w].work.gen \notin metrics.report
        /\ \A v \in Workers : Reporting(v) /\ worker[v].work.gen = worker[w].work.gen => v = w
    /\ \A g \in metrics.report : callbacks[g] = 0

CallbackInv == Fresh /\ EntriesUnclaimed /\ ClaimsExclusive /\ AtMostOneCallback

\* Init establishes the callback invariant.
LEMMA InitCallbackInv == Init => CallbackInv
<1> SUFFICES ASSUME Init PROVE CallbackInv
  OBVIOUS
<1>1. Fresh
  <2>1. 1..Len(actionQueue) = {}
    BY DEF Init
  <2> QED
    BY <2>1 DEF Init, Fresh, NoEntry, NoWork, Idle
<1>2. EntriesUnclaimed
  BY DEF Init, EntriesUnclaimed, NoEntry
<1>3. ClaimsExclusive
  BY DEF Init, ClaimsExclusive, Reporting
<1>4. AtMostOneCallback
  BY DEF Init, AtMostOneCallback
<1> QED
  BY <1>1, <1>2, <1>3, <1>4 DEF CallbackInv

\* What the type invariant says of the objects a step reads.
LEMMA HeldTypes ==
  ASSUME TypeOK
  PROVE  /\ \A id \in ActionIDs : inProgress[id].gen \in 0..MaxGen
         /\ \A id \in ActionIDs : inProgress[id].gen # 0 => inProgress[id].gen \in Gens
         /\ \A id \in ActionIDs : inProgress[id].gen = 0 <=> inProgress[id] = NoEntry
         /\ \A w \in Workers : worker[w].pc \in {"exec", "report"} => worker[w].work \in Works
         /\ \A w \in Workers : worker[w].work.gen \in 0..MaxGen
         /\ \A c \in Callers : caller[c].pc \in {"send", "full"} => caller[c].work \in Works
         /\ \A c \in Callers : caller[c].work.gen \in 0..MaxGen
         /\ \A i \in 1..Len(actionQueue) : actionQueue[i] \in Works
<1> USE ExecutorAssumption DEF TypeOK, Gens
<1>1. \A id \in ActionIDs : inProgress[id] \in Entries
  OBVIOUS
<1>2. \A w \in Workers : worker[w] \in WorkerStates
  OBVIOUS
<1>3. \A c \in Callers : caller[c] \in CallerStates
  OBVIOUS
<1>4. \A e \in Entries : /\ e.gen \in 0..MaxGen
                         /\ e.gen # 0 => e.gen \in Gens
                         /\ e.gen = 0 <=> e = NoEntry
  BY DEF Entries, NoEntry
<1>5. \A x \in WorkerStates : /\ x.pc \in {"exec", "report"} => x.work \in Works
                              /\ x.work.gen \in 0..MaxGen
  BY DEF WorkerStates, Works, NoWork
<1>6. \A x \in CallerStates : /\ x.pc \in {"send", "full"} => x.work \in Works
                              /\ x.work.gen \in 0..MaxGen
  BY DEF CallerStates, Idle, Works, NoWork
<1>7. \A i \in 1..Len(actionQueue) : actionQueue[i] \in Works
  OBVIOUS
<1> QED
  BY <1>1, <1>2, <1>3, <1>4, <1>5, <1>6, <1>7

\* The callback invariant is preserved by every step.
LEMMA NextCallbackInv == TypeOK /\ CallbackInv /\ [Next]_vars => CallbackInv'
<1> SUFFICES ASSUME TypeOK, CallbackInv, [Next]_vars PROVE CallbackInv'
  OBVIOUS
<1> USE DEF CallbackInv
<1>a. /\ nextGeneration \in Nat
      /\ \A id \in ActionIDs : inProgress[id].gen \in Nat
      /\ \A c \in Callers : caller[c].work.gen \in Nat
      /\ \A w \in Workers : worker[w].work.gen \in Nat
  BY HeldTypes, ExecutorAssumption DEF TypeOK
<1>b. /\ metrics.report \subseteq Gens
      /\ \A w \in Workers : Reporting(w) => worker[w].work.gen \in Gens
      /\ \A id \in ActionIDs : inProgress[id].gen # 0 => inProgress[id].gen \in Gens
      /\ \A i \in 1..Len(actionQueue) : actionQueue[i].gen \in Gens
      /\ Gens \subseteq Nat \ {0}
  <2>1. metrics.report \subseteq Gens
    BY DEF TypeOK, MetricsStates
  <2>2. Gens \subseteq Nat \ {0}
    BY ExecutorAssumption DEF Gens
  <2> QED
    BY <2>1, <2>2, HeldTypes DEF Works, Reporting
\* A step that leaves alone what the invariant speaks of.
<1>c. ASSUME UNCHANGED <<inProgress, nextGeneration, actionQueue, caller, worker,
                         metrics.report, callbacks>>
      PROVE  CallbackInv'
  BY <1>c DEF Fresh, EntriesUnclaimed, ClaimsExclusive, AtMostOneCallback, Reporting
\* A step that changes who holds work, but no entry, claim or callback.
<1>d. ASSUME UNCHANGED <<inProgress, nextGeneration, metrics.report, callbacks>>,
             \A w \in Workers : Reporting(w)' => Reporting(w) /\ worker'[w] = worker[w],
             \A w \in Workers : worker'[w].work.gen <= nextGeneration,
             \A c \in Callers : caller'[c].work.gen <= nextGeneration,
             \A i \in 1..Len(actionQueue') : actionQueue'[i].gen <= nextGeneration
      PROVE  CallbackInv'
  BY <1>d DEF Fresh, EntriesUnclaimed, ClaimsExclusive, AtMostOneCallback, Reporting
<1>1. CASE StartRegister \/ StartMetrics \/ MetricsExit \/ ShutdownStep \/ ParentCancel
           \/ UNCHANGED vars
  <2>1. metrics.report' = metrics.report
    BY <1>1 DEF StartRegister, StartMetrics, MetricsExit, ParentCancel, vars,
                ShutdownStep, ShutdownStop, ShutdownCancelMetrics, ShutdownJoinMetrics,
                ShutdownClose, ShutdownCancel, ShutdownWait, TypeOK,
                MetricsStates
  <2>2. UNCHANGED <<inProgress, nextGeneration, actionQueue, caller, worker, callbacks>>
    BY <1>1 DEF StartRegister, StartMetrics, MetricsExit, ParentCancel, vars,
                ShutdownStep, ShutdownStop, ShutdownCancelMetrics, ShutdownJoinMetrics,
                ShutdownClose, ShutdownCancel, ShutdownWait
  <2> QED
    BY <1>c, <2>1, <2>2
<1>2. CASE StartSpawn
  <2>1. \A w \in Workers : worker'[w].work.gen = 0 /\ ~Reporting(w)'
    BY <1>2 DEF StartSpawn, Idle, NoWork, Reporting
  <2>2. UNCHANGED <<inProgress, nextGeneration, actionQueue, caller, metrics, callbacks>>
    BY <1>2 DEF StartSpawn
  <2> QED
    BY <1>a, <1>d, <2>1, <2>2 DEF Fresh
<1>4. ASSUME NEW c \in Callers, NEW id \in ActionIDs, EnqueueRegister(c, id)
      PROVE  CallbackInv'
  <2>1. /\ nextGeneration' = nextGeneration + 1
        /\ nextGeneration' \in Gens
        /\ UNCHANGED <<actionQueue, worker, metrics, callbacks>>
    BY <1>4, <1>a, ExecutorAssumption DEF EnqueueRegister, TypeOK, Gens
  <2>2. \A j \in ActionIDs : inProgress'[j].gen =
            IF j = id THEN nextGeneration' ELSE inProgress[j].gen
    BY <1>4 DEF EnqueueRegister, TypeOK
  <2>3. \A d \in Callers : caller'[d].work.gen =
            IF d = c THEN nextGeneration' ELSE caller[d].work.gen
    BY <1>4 DEF EnqueueRegister, TypeOK
  <2>4. Fresh'
    <3>1. \A n \in Nat : n <= nextGeneration => n <= nextGeneration'
      BY <1>a, <2>1
    <3>2. nextGeneration' <= nextGeneration'
      BY <1>a, <2>1
    <3>3. \A g \in Gens : g > nextGeneration' => g > nextGeneration
      BY <1>a, <1>b, <2>1
    <3> QED
      BY <1>a, <1>b, <2>1, <2>2, <2>3, <3>1, <3>2, <3>3 DEF Fresh
  <2>5. EntriesUnclaimed'
    BY <1>a, <1>b, <2>1, <2>2 DEF Fresh, EntriesUnclaimed, Reporting
  <2> QED
    BY <2>1, <2>4, <2>5 DEF ClaimsExclusive, AtMostOneCallback, Reporting
<1>5. ASSUME NEW c \in Callers, EnqueueSend(c)
      PROVE  CallbackInv'
  <2>1. /\ UNCHANGED <<inProgress, nextGeneration, worker, metrics, callbacks>>
        /\ actionQueue' = Append(actionQueue, caller[c].work)
        /\ caller' = [caller EXCEPT ![c] = Idle]
    BY <1>5 DEF EnqueueSend
  <2>2. \A d \in Callers : caller'[d].work.gen <= nextGeneration
    BY <1>a, <2>1 DEF Fresh, Idle, NoWork, TypeOK
  <2>3. \A i \in 1..Len(actionQueue') : actionQueue'[i].gen <= nextGeneration
    BY <2>1 DEF Fresh, TypeOK
  <2> QED
    BY <1>d, <2>1, <2>2, <2>3 DEF Fresh, Reporting
<1>6. ASSUME NEW c \in Callers, EnqueueFull(c) \/ EnqueuePanic(c)
      PROVE  CallbackInv'
  <2>1. UNCHANGED <<inProgress, nextGeneration, actionQueue, worker, metrics, callbacks>>
    BY <1>6 DEF EnqueueFull, EnqueuePanic
  <2>2. \A d \in Callers : caller'[d].work.gen <= nextGeneration
    <3>1. CASE EnqueueFull(c)
      <4>1. \A d \in Callers : caller'[d].work = caller[d].work
        BY <3>1 DEF EnqueueFull, TypeOK
      <4> QED
        BY <4>1 DEF Fresh
    <3>2. CASE EnqueuePanic(c)
      BY <3>2, <1>a DEF EnqueuePanic, Fresh, Idle, NoWork, TypeOK
    <3> QED
      BY <1>6, <3>1, <3>2
  <2> QED
    BY <1>d, <2>1, <2>2 DEF Fresh, Reporting
<1>7. ASSUME NEW c \in Callers, EnqueueRollback(c)
      PROVE  CallbackInv'
  <2>1. UNCHANGED <<nextGeneration, actionQueue, worker, metrics, callbacks>>
    BY <1>7 DEF EnqueueRollback
  <2>2. \A d \in Callers : caller'[d].work.gen <= nextGeneration
    BY <1>7, <1>a DEF EnqueueRollback, Fresh, Idle, NoWork, TypeOK
  <2>3. \A j \in ActionIDs : inProgress'[j].gen \in {0, inProgress[j].gen}
    BY <1>7 DEF EnqueueRollback, Unregister, NoEntry, TypeOK
  <2> QED
    BY <1>a, <2>1, <2>2, <2>3
       DEF Fresh, EntriesUnclaimed, ClaimsExclusive, AtMostOneCallback, Reporting
<1>8. ASSUME NEW w \in Workers, WorkerReceive(w)
      PROVE  CallbackInv'
  <2>1. /\ UNCHANGED <<inProgress, nextGeneration, caller, metrics, callbacks>>
        /\ actionQueue # <<>>
        /\ actionQueue' = Tail(actionQueue)
        /\ worker' = [worker EXCEPT ![w] = [pc |-> "exec", work |-> actionQueue[1]]]
    BY <1>8 DEF WorkerReceive, TypeOK
  <2>2. \A i \in 1..Len(actionQueue') : actionQueue'[i].gen <= nextGeneration
    <3>1. actionQueue \in Seq(Works)
      BY DEF TypeOK
    <3>2. \A i \in 1..Len(actionQueue') :
            i + 1 \in 1..Len(actionQueue) /\ actionQueue'[i] = actionQueue[i + 1]
      BY <2>1, <3>1
    <3> QED
      BY <3>2 DEF Fresh
  <2>3. actionQueue[1].gen <= nextGeneration
    BY <2>1 DEF Fresh, TypeOK
  <2>4. \A v \in Workers : worker'[v].work.gen <= nextGeneration
    BY <2>1, <2>3 DEF Fresh, TypeOK
  <2>5. \A v \in Workers : Reporting(v)' => Reporting(v) /\ worker'[v] = worker[v]
    BY <2>1 DEF Reporting, TypeOK
  <2> QED
    BY <1>d, <2>1, <2>2, <2>4, <2>5 DEF Fresh
<1>9. ASSUME NEW w \in Workers, WorkerExit(w)
      PROVE  CallbackInv'
  <2>1. UNCHANGED <<inProgress, nextGeneration, actionQueue, caller, metrics, callbacks>>
    BY <1>9 DEF WorkerExit
  <2>2. \A v \in Workers : worker'[v].work = worker[v].work
    BY <1>9 DEF WorkerExit, TypeOK
  <2>3. \A v \in Workers : Reporting(v)' => Reporting(v) /\ worker'[v] = worker[v]
    BY <1>9 DEF WorkerExit, Reporting, TypeOK
  <2> QED
    BY <1>d, <2>1, <2>2, <2>3 DEF Fresh
<1>10. ASSUME NEW w \in Workers, WorkerComplete(w)
       PROVE  CallbackInv'
  <2> DEFINE work == worker[w].work
  <2>1. UNCHANGED <<nextGeneration, actionQueue, caller, metrics, callbacks>>
    BY <1>10 DEF WorkerComplete
  <2>2. CASE GenerationMatch(work)
    <3>1. work.id \in ActionIDs /\ work.gen = inProgress[work.id].gen /\ work.gen \in Gens
      BY <1>10, <2>2, HeldTypes DEF WorkerComplete, GenerationMatch, Works
    <3>2. /\ inProgress' = [inProgress EXCEPT ![work.id] = NoEntry]
          /\ worker' = [worker EXCEPT ![w].pc = "report"]
      BY <1>10, <2>2 DEF WorkerComplete, Unregister
    <3>3. \A j \in ActionIDs : inProgress'[j].gen =
              IF j = work.id THEN 0 ELSE inProgress[j].gen
      BY <3>2 DEF NoEntry, TypeOK
    <3>4. /\ \A v \in Workers : worker'[v].work = worker[v].work
          /\ \A v \in Workers : Reporting(v)' <=> v = w \/ Reporting(v)
      BY <3>2 DEF Reporting, TypeOK
    <3>5. Fresh'
      BY <1>a, <2>1, <3>3, <3>4 DEF Fresh
    <3>6. EntriesUnclaimed'
      BY <1>b, <2>1, <3>1, <3>3, <3>4 DEF EntriesUnclaimed
    <3>7. ClaimsExclusive'
      BY <1>b, <2>1, <3>1, <3>4 DEF EntriesUnclaimed, ClaimsExclusive
    <3> QED
      BY <2>1, <3>5, <3>6, <3>7 DEF AtMostOneCallback
  <2>3. CASE ~GenerationMatch(work)
    <3>1. UNCHANGED inProgress /\ worker' = [worker EXCEPT ![w] = Idle]
      BY <1>10, <2>3 DEF WorkerComplete
    <3>2. \A v \in Workers : Reporting(v)' => Reporting(v) /\ worker'[v] = worker[v]
      BY <3>1 DEF Reporting, Idle, TypeOK
    <3>3. \A v \in Workers : worker'[v].work.gen <= nextGeneration
      BY <1>a, <3>1 DEF Fresh, Idle, NoWork, TypeOK
    <3> QED
      BY <1>d, <2>1, <3>1, <3>2, <3>3 DEF Fresh
  <2> QED
    BY <2>2, <2>3
<1>11. ASSUME NEW w \in Workers, WorkerCallback(w)
       PROVE  CallbackInv'
  <2> DEFINE g == worker[w].work.gen
  <2>1. /\ UNCHANGED <<inProgress, nextGeneration, actionQueue, caller, metrics>>
        /\ callbacks' = [callbacks EXCEPT ![g] = @ + 1]
        /\ worker' = [worker EXCEPT ![w] = Idle]
        /\ Reporting(w) /\ g \in Gens
    BY <1>11, <1>b DEF WorkerCallback, Reporting
  <2>2. \A v \in Workers : Reporting(v)' <=> v # w /\ Reporting(v)
    BY <2>1 DEF Reporting, Idle, TypeOK
  <2>3. \A v \in Workers : worker'[v].work.gen = IF v = w THEN 0 ELSE worker[v].work.gen
    BY <2>1 DEF Idle, NoWork, TypeOK
  <2>4. \A h \in Gens : callbacks'[h] = IF h = g THEN 1 ELSE callbacks[h]
    BY <2>1 DEF ClaimsExclusive, TypeOK
  <2>5. Fresh'
    BY <1>a, <1>b, <2>1, <2>3, <2>4 DEF Fresh
  <2>6. EntriesUnclaimed'
    BY <1>b, <2>1, <2>2, <2>3, <2>4 DEF EntriesUnclaimed
  <2>7. ClaimsExclusive'
    BY <1>b, <2>1, <2>2, <2>3, <2>4 DEF ClaimsExclusive
  <2>8. AtMostOneCallback'
    BY <2>4 DEF AtMostOneCallback
  <2> QED
    BY <2>5, <2>6, <2>7, <2>8
<1>12. ASSUME NEW id \in ActionIDs, Elapse(id)
       PROVE  CallbackInv'
  <2>1. UNCHANGED <<nextGeneration, actionQueue, caller, worker, metrics, callbacks>>
    BY <1>12 DEF Elapse
  <2>2. \A j \in ActionIDs : inProgress'[j].gen = inProgress[j].gen
    BY <1>12 DEF Elapse, TypeOK
  <2> QED
    BY <2>1, <2>2 DEF Fresh, EntriesUnclaimed, ClaimsExclusive, AtMostOneCallback, Reporting
<1>13. CASE MetricsTick
  <2>1. \A id \in ActionIDs : Expired(id) => inProgress[id].gen # 0
    BY HeldTypes, ExecutorAssumption DEF Expired, NoEntry
  <2>2. \A id \in ActionIDs : inProgress'[id].gen =
            IF Expired(id) THEN 0 ELSE inProgress[id].gen
    <3>1. \A e \in Entries : [e EXCEPT !.stuckReported = TRUE].gen = e.gen
      BY DEF Entries, NoEntry
    <3>2. \A id \in ActionIDs : inProgress[id] \in Entries
      BY DEF TypeOK
    <3> QED
      BY <1>13, <3>1, <3>2 DEF MetricsTick, NoEntry
  <2>3. metrics.report' = ExpiredGens /\ metrics.report = {}
    BY <1>13 DEF MetricsTick, TypeOK
  <2>4. \A g : g \in ExpiredGens <=> \E id \in ActionIDs : Expired(id) /\ g = inProgress[id].gen
    BY DEF ExpiredGens
  <2>5. UNCHANGED <<nextGeneration, actionQueue, caller, worker, callbacks>>
    BY <1>13 DEF MetricsTick
  <2>6. Fresh'
    BY <1>a, <2>2, <2>3, <2>4, <2>5 DEF Fresh
  <2>7. EntriesUnclaimed'
    BY <2>1, <2>2, <2>3, <2>4, <2>5 DEF EntriesUnclaimed, Reporting
  <2>8. ClaimsExclusive'
    BY <2>1, <2>3, <2>4, <2>5 DEF EntriesUnclaimed, ClaimsExclusive, Reporting
  <2> QED
    BY <2>5, <2>6, <2>7, <2>8 DEF AtMostOneCallback
<1>14. ASSUME NEW g \in Gens, MetricsCallback(g)
       PROVE  CallbackInv'
  <2>1. /\ UNCHANGED <<inProgress, nextGeneration, actionQueue, caller, worker>>
        /\ callbacks' = [callbacks EXCEPT ![g] = @ + 1]
        /\ metrics.report' = metrics.report \ {g}
        /\ g \in metrics.report
    BY <1>14 DEF MetricsCallback, TypeOK
  <2>2. \A h \in Gens : callbacks'[h] = IF h = g THEN 1 ELSE callbacks[h]
    BY <2>1 DEF ClaimsExclusive, TypeOK
  <2>3. Fresh'
    BY <1>a, <1>b, <2>1, <2>2 DEF Fresh
  <2>4. EntriesUnclaimed'
    BY <1>b, <2>1, <2>2 DEF EntriesUnclaimed, Reporting
  <2>5. ClaimsExclusive'
    BY <1>b, <2>1, <2>2 DEF ClaimsExclusive, Reporting
  <2>6. AtMostOneCallback'
    BY <2>2 DEF AtMostOneCallback
  <2> QED
    BY <2>3, <2>4, <2>5, <2>6
<1> QED
  BY <1>1, <1>2, <1>4, <1>5, <1>6, <1>7, <1>8, <1>9, <1>10, <1>11, <1>12, <1>13, <1>14
     DEF Next, CallerStep, WorkerStep, MetricsStep

\* Every registration is answered at most once (executeWorkWithRecovery and
\* the reporter's force-removal), however executions and removals interleave.
THEOREM CallbackAtMostOnce == Spec => []AtMostOneCallback
<1>1. TypeOK /\ CallbackInv /\ [Next]_vars => CallbackInv'
  BY NextCallbackInv
<1>2. CallbackInv => AtMostOneCallback
  BY DEF CallbackInv
<1> QED
  BY InitCallbackInv, TypeCorrect, <1>1, <1>2, PTL DEF Spec


LEMMA CallbackInvHolds == Spec => [](TypeOK /\ CallbackInv)
  BY InitTypeOK, NextTypeOK, InitCallbackInv, NextCallbackInv, PTL DEF Spec

-----------------------------------------------------------------------------
(* Shutdown.  Start and Shutdown overlap, so there are two cases: Shutdown *)
(* saw a complete Start and joins every goroutine, or it came before the   *)
(* end of Start; then nothing was ever registered, and nothing will be.    *)

Untouched ==
    /\ \A id \in ActionIDs : inProgress[id] = NoEntry
    /\ actionQueue = <<>>
    /\ \A c \in Callers : caller[c] = Idle
    /\ \A w \in Workers : worker[w].pc \notin {"exec", "report"}
    /\ metrics.report = {}

\* The reporter holds claims only while it runs, and it runs after Start.
ReporterPhases ==
    /\ metrics.pc = "unborn" <=> start # "done"
    /\ metrics.report # {} => metrics.pc = "running"

MetricsJoined == {"joined", "closed", "cancelled", "done"}

ShutdownOrder ==
    /\ stopped <=> shutdown.pc # "none"
    /\ queueClosed <=> shutdown.pc \in {"closed", "cancelled", "done"}
    /\ start # "done" => Untouched
    /\ stopped /\ ~shutdown.metricsCancel => Untouched
    /\ stopped /\ shutdown.metricsCancel => start = "done"
    /\ shutdown.pc \in MetricsJoined /\ shutdown.metricsCancel => metrics.pc = "exited"
    /\ shutdown.pc = "done" /\ shutdown.metricsCancel =>
            \A w \in Workers : worker[w].pc = "exited"

ShutdownInv == ReporterPhases /\ ShutdownOrder

LEMMA InitShutdownInv == Init => ShutdownInv
BY DEF Init, ShutdownInv, ReporterPhases, ShutdownOrder, Untouched, MetricsJoined

LEMMA NextShutdownInv == TypeOK /\ ShutdownInv /\ [Next]_vars => ShutdownInv'
<1> SUFFICES ASSUME TypeOK, ShutdownInv, [Next]_vars PROVE ShutdownInv'
  OBVIOUS
<1> USE DEF ShutdownInv
\* An executor in which nothing is registered has work for nobody.
<1>a. ASSUME Untouched
      PROVE  /\ \A c \in Callers : caller[c].pc = "idle"
             /\ \A id \in ActionIDs : ~Expired(id) /\ ~Stuck(id)
  BY <1>a, ExecutorAssumption DEF Untouched, Idle, NoEntry, Expired, Stuck
\* Steps on work happen while Start is complete and work exists.
<1>b. ASSUME UNCHANGED <<stopped, queueClosed, start, shutdown, metrics.pc>>,
             ~Untouched \/ Untouched',
             metrics.report' # {} => metrics.pc = "running",
             \A v \in Workers : worker[v].pc = "exited" => worker'[v].pc = "exited"
      PROVE  ShutdownInv'
  BY <1>b DEF ReporterPhases, ShutdownOrder
<1>1. CASE StartRegister
  BY <1>1 DEF StartRegister, ReporterPhases, ShutdownOrder, Untouched
<1>2. CASE StartSpawn
  <2>1. Untouched'
    BY <1>2 DEF StartSpawn, ShutdownOrder, Untouched, Idle
  <2> QED
    BY <1>2, <2>1 DEF StartSpawn, ReporterPhases, ShutdownOrder
<1>3. CASE StartMetrics
  <2>1. metrics.pc' = "running" /\ metrics.report' = metrics.report
    BY <1>3 DEF StartMetrics, TypeOK, MetricsStates
  <2>2. Untouched'
    BY <1>3, <2>1 DEF StartMetrics, ShutdownOrder, Untouched
  <2>3. ~(stopped /\ shutdown.metricsCancel)
    BY <1>3 DEF StartMetrics, ShutdownOrder
  <2>4. shutdown.pc \in MetricsJoined => stopped
    BY DEF ShutdownOrder, MetricsJoined
  <2> QED
    BY <1>3, <2>1, <2>2, <2>3, <2>4 DEF StartMetrics, ReporterPhases, ShutdownOrder,
       MetricsJoined
<1>4. ASSUME NEW c \in Callers, NEW id \in ActionIDs, EnqueueRegister(c, id)
      PROVE  ShutdownInv'
  <2>1. ~stopped /\ start = "done"
    BY <1>4 DEF EnqueueRegister
  <2>2. UNCHANGED <<stopped, queueClosed, start, shutdown, metrics, worker>>
    BY <1>4 DEF EnqueueRegister
  <2> QED
    BY <2>1, <2>2 DEF ReporterPhases, ShutdownOrder, MetricsJoined
<1>5. ASSUME NEW c \in Callers, EnqueueSend(c) \/ EnqueueFull(c) \/ EnqueueRollback(c)
                                 \/ EnqueuePanic(c)
      PROVE  ShutdownInv'
  <2>1. ~Untouched
    BY <1>a, <1>5 DEF EnqueueSend, EnqueueFull, EnqueueRollback, EnqueuePanic
  <2>2. UNCHANGED <<stopped, queueClosed, start, shutdown, metrics, worker>>
    BY <1>5 DEF EnqueueSend, EnqueueFull, EnqueueRollback, EnqueuePanic
  <2> QED
    BY <1>b, <2>1, <2>2 DEF ReporterPhases
<1>6. ASSUME NEW w \in Workers, WorkerReceive(w) \/ WorkerComplete(w) \/ WorkerCallback(w)
      PROVE  ShutdownInv'
  <2>1. ~Untouched
    BY <1>6 DEF WorkerReceive, WorkerComplete, WorkerCallback, Untouched
  <2>2. UNCHANGED <<stopped, queueClosed, start, shutdown, metrics>>
    BY <1>6 DEF WorkerReceive, WorkerComplete, WorkerCallback
  <2>3. worker[w].pc # "exited"
    BY <1>6 DEF WorkerReceive, WorkerComplete, WorkerCallback, Idle
  <2>4. \A v \in Workers \ {w} : worker'[v] = worker[v]
    <3>1. CASE WorkerReceive(w) \/ WorkerCallback(w)
      BY <3>1 DEF WorkerReceive, WorkerCallback, TypeOK
    <3>2. CASE WorkerComplete(w)
      BY <3>2 DEF WorkerComplete, TypeOK
    <3> QED
      BY <1>6, <3>1, <3>2
  <2> QED
    BY <1>b, <2>1, <2>2, <2>3, <2>4 DEF ReporterPhases
<1>7. ASSUME NEW w \in Workers, WorkerExit(w)
      PROVE  ShutdownInv'
  <2>1. Untouched => Untouched'
    BY <1>7 DEF WorkerExit, Untouched, TypeOK
  <2>2. \A v \in Workers : worker[v].pc = "exited" => worker'[v].pc = "exited"
    BY <1>7 DEF WorkerExit, TypeOK
  <2>3. UNCHANGED <<stopped, queueClosed, start, shutdown, metrics>>
    BY <1>7 DEF WorkerExit
  <2> QED
    BY <1>b, <2>1, <2>2, <2>3 DEF ReporterPhases
<1>8. ASSUME NEW id \in ActionIDs, Elapse(id)
      PROVE  ShutdownInv'
  <2>1. ~Untouched
    BY <1>8 DEF Elapse, Untouched
  <2>2. UNCHANGED <<stopped, queueClosed, start, shutdown, metrics, worker>>
    BY <1>8 DEF Elapse
  <2> QED
    BY <1>b, <2>1, <2>2 DEF ReporterPhases
<1>9. CASE MetricsTick
  <2>1. ~Untouched
    BY <1>a, <1>9 DEF MetricsTick
  <2>2. /\ metrics.pc' = metrics.pc /\ metrics.pc = "running"
        /\ UNCHANGED <<stopped, queueClosed, start, shutdown, worker>>
    BY <1>9 DEF MetricsTick, TypeOK, MetricsStates
  <2> QED
    BY <1>b, <2>1, <2>2
<1>10. ASSUME NEW g \in Gens, MetricsCallback(g)
       PROVE  ShutdownInv'
  <2>1. ~Untouched
    BY <1>10 DEF MetricsCallback, Untouched
  <2>2. /\ metrics.pc' = metrics.pc /\ metrics.pc = "running"
        /\ UNCHANGED <<stopped, queueClosed, start, shutdown, worker>>
    BY <1>10 DEF MetricsCallback, ReporterPhases, TypeOK, MetricsStates
  <2> QED
    BY <1>b, <2>1, <2>2
<1>11. CASE MetricsExit
  <2>1. /\ metrics.pc = "running" /\ metrics.pc' = "exited"
        /\ metrics.report' = {} /\ metrics.report = {}
        /\ UNCHANGED <<inProgress, actionQueue, caller, stopped, queueClosed, start,
                       shutdown, worker>>
    BY <1>11 DEF MetricsExit, TypeOK, MetricsStates
  <2> QED
    BY <2>1 DEF ReporterPhases, ShutdownOrder, Untouched
<1>12. CASE ShutdownStop
  <2>1. /\ shutdown'.pc = "stopped" /\ shutdown'.metricsCancel = (start = "done")
        /\ stopped' /\ ~stopped /\ ~queueClosed
        /\ UNCHANGED <<inProgress, actionQueue, caller, queueClosed, start, metrics, worker>>
    BY <1>12 DEF ShutdownStop, ShutdownOrder
  <2> QED
    BY <2>1 DEF ReporterPhases, ShutdownOrder, Untouched, MetricsJoined
<1>13. CASE ShutdownCancelMetrics
  <2>1. /\ metrics.pc' = metrics.pc /\ metrics.report' = metrics.report
        /\ UNCHANGED <<inProgress, actionQueue, caller, stopped, queueClosed, start,
                       shutdown, worker>>
    BY <1>13 DEF ShutdownCancelMetrics, TypeOK, MetricsStates
  <2> QED
    BY <2>1 DEF ReporterPhases, ShutdownOrder, Untouched
<1>14. CASE ShutdownJoinMetrics \/ ShutdownClose \/ ShutdownCancel \/ ShutdownWait
  <2>1. /\ shutdown'.metricsCancel = shutdown.metricsCancel
        /\ UNCHANGED <<inProgress, actionQueue, caller, stopped, start, metrics, worker>>
    BY <1>14 DEF ShutdownJoinMetrics, ShutdownClose, ShutdownCancel, ShutdownWait, TypeOK,
       ShutdownStates
  <2>2. /\ shutdown.pc # "none" /\ shutdown'.pc \in MetricsJoined
        /\ queueClosed' <=> shutdown'.pc \in {"closed", "cancelled", "done"}
    BY <1>14 DEF ShutdownJoinMetrics, ShutdownClose, ShutdownCancel, ShutdownWait, TypeOK,
       ShutdownStates, MetricsJoined, ShutdownOrder
  <2>3. shutdown.metricsCancel => metrics.pc = "exited"
    <3>1. CASE ShutdownJoinMetrics
      BY <2>2, <3>1 DEF ShutdownJoinMetrics, ReporterPhases, ShutdownOrder, TypeOK,
         MetricsStates
    <3>2. CASE ShutdownClose \/ ShutdownCancel \/ ShutdownWait
      BY <3>2 DEF ShutdownClose, ShutdownCancel, ShutdownWait, ShutdownOrder, MetricsJoined
    <3> QED
      BY <1>14, <3>1, <3>2
  <2>4. shutdown'.pc = "done" /\ shutdown.metricsCancel =>
            \A w \in Workers : worker[w].pc = "exited"
    BY <1>14, <2>2 DEF ShutdownJoinMetrics, ShutdownClose, ShutdownCancel, ShutdownWait,
       WaitGroupZero, ShutdownOrder, TypeOK, ShutdownStates
  <2> QED
    BY <2>1, <2>2, <2>3, <2>4 DEF ReporterPhases, ShutdownOrder, Untouched, MetricsJoined
<1>15. CASE ParentCancel \/ UNCHANGED vars
  BY <1>15 DEF ParentCancel, vars, ReporterPhases, ShutdownOrder, Untouched
<1> QED
  BY <1>1, <1>2, <1>3, <1>4, <1>5, <1>6, <1>7, <1>8, <1>9, <1>10, <1>11, <1>12, <1>13,
     <1>14, <1>15
     DEF Next, CallerStep, WorkerStep, MetricsStep, ShutdownStep

LEMMA ShutdownInvHolds == Spec => []ShutdownInv
  BY InitShutdownInv, NextShutdownInv, TypeCorrect, PTL DEF Spec

\* When Shutdown has returned, no pool goroutine executes or reports and no
\* completion callback is outstanding, also when it overtook Start.
THEOREM ShutdownIsQuiet == Spec => []QuietAfterShutdown
<1>1. ShutdownInv => QuietAfterShutdown
  BY DEF ShutdownInv, ReporterPhases, ShutdownOrder, Untouched, MetricsJoined,
     QuietAfterShutdown
<1> QED
  BY <1>1, ShutdownInvHolds, PTL

-----------------------------------------------------------------------------
(* Registrations and their holders.  A unit of work is with one holder at  *)
(* a time (HeldOnce); as long as the reporter has not force-removed it,    *)
(* the entry of its action ID is its own (HeldIsRegistered); and an entry  *)
(* has a holder (NoOrphanEntry).                                           *)

Sending(c) == caller[c].pc \in {"send", "full"}
Executing(w) == worker[w].pc = "exec"
Slots == 1..Len(actionQueue)

HeldOnce ==
    /\ \A i, j \in Slots : actionQueue[i].gen = actionQueue[j].gen => i = j
    /\ \A v, w \in Workers : Executing(v) /\ Executing(w)
            /\ worker[v].work.gen = worker[w].work.gen => v = w
    /\ \A w \in Workers, i \in Slots :
            Executing(w) => worker[w].work.gen # actionQueue[i].gen
    /\ \A c \in Callers : Sending(c) =>
        /\ \A i \in Slots : actionQueue[i].gen # caller[c].work.gen
        /\ \A w \in Workers : Executing(w) => worker[w].work.gen # caller[c].work.gen

IsRegistered(work) == work.gen \in forced \/ inProgress[work.id].gen = work.gen

\* The tick goroutine registers nothing else before it has sent or rolled back,
\* so the entry it may roll back is its own or gone.
HeldIsRegistered ==
    /\ \A c \in Callers : Sending(c) =>
        /\ IsRegistered(caller[c].work)
        /\ inProgress[caller[c].work.id].gen \in {0, caller[c].work.gen}
    /\ \A i \in Slots : IsRegistered(actionQueue[i])
    /\ \A w \in Workers : Executing(w) => IsRegistered(worker[w].work)

HolderInv == HeldOnce /\ HeldIsRegistered

LEMMA InitHolderInv == Init => HolderInv
<1> SUFFICES ASSUME Init PROVE HolderInv
  OBVIOUS
<1>1. Slots = {}
  BY DEF Init, Slots
<1>2. \A c \in Callers : ~Sending(c)
  BY DEF Init, Sending, Idle
<1>3. \A w \in Workers : ~Executing(w)
  BY DEF Init, Executing
<1> QED
  BY <1>1, <1>2, <1>3 DEF HolderInv, HeldOnce, HeldIsRegistered

LEMMA NextHolderInv ==
    TypeOK /\ Fresh /\ ShutdownInv /\ HolderInv /\ [Next]_vars => HolderInv'
<1> SUFFICES ASSUME TypeOK, Fresh, ShutdownInv, HolderInv, [Next]_vars PROVE HolderInv'
  OBVIOUS
<1> USE DEF HolderInv
<1>a. /\ nextGeneration \in Nat
      /\ \A id \in ActionIDs : inProgress[id].gen \in Nat
      /\ \A c \in Callers : Sending(c) => /\ caller[c].work.id \in ActionIDs
                                          /\ caller[c].work.gen \in Nat \ {0}
      /\ \A w \in Workers : Executing(w) => /\ worker[w].work.id \in ActionIDs
                                            /\ worker[w].work.gen \in Nat \ {0}
      /\ \A i \in Slots : /\ actionQueue[i].id \in ActionIDs
                          /\ actionQueue[i].gen \in Nat \ {0}
  <2>1. Gens \subseteq Nat \ {0} /\ 0..MaxGen \subseteq Nat
    BY ExecutorAssumption DEF Gens
  <2> QED
    BY <2>1, HeldTypes DEF TypeOK, Works, Sending, Executing, Slots
\* Steps after which everybody who holds work held it before.
<1>b. ASSUME \A c \in Callers : Sending(c)' => Sending(c) /\ caller'[c].work = caller[c].work,
             \A w \in Workers : Executing(w)' => Executing(w) /\ worker'[w].work = worker[w].work,
             actionQueue' = actionQueue
      PROVE  HeldOnce'
  BY <1>b DEF HeldOnce, Slots
<1>c. ASSUME \A c \in Callers : Sending(c)' => Sending(c) /\ caller'[c].work = caller[c].work,
             \A w \in Workers : Executing(w)' => Executing(w) /\ worker'[w].work = worker[w].work,
             actionQueue' = actionQueue,
             UNCHANGED forced,
             \A id \in ActionIDs : inProgress'[id].gen = inProgress[id].gen
      PROVE  HolderInv'
  <2>1. \A work : work.id \in ActionIDs => (IsRegistered(work)' <=> IsRegistered(work))
    BY <1>c DEF IsRegistered
  <2>2. HeldIsRegistered'
    BY <1>a, <1>c, <2>1 DEF HeldIsRegistered, Slots
  <2> QED
    BY <1>b, <1>c, <2>2
<1>1. CASE StartRegister \/ StartMetrics \/ MetricsExit \/ ShutdownStep \/ ParentCancel
           \/ UNCHANGED vars \/ \E g \in Gens : MetricsCallback(g)
  <2>1. UNCHANGED <<inProgress, actionQueue, caller, worker, forced>>
    BY <1>1 DEF StartRegister, StartMetrics, MetricsExit, ParentCancel, vars,
                MetricsCallback, ShutdownStep, ShutdownStop, ShutdownCancelMetrics,
                ShutdownJoinMetrics, ShutdownClose, ShutdownCancel, ShutdownWait
  <2> QED
    BY <1>c, <2>1 DEF Sending, Executing
<1>2. CASE StartSpawn
  <2>1. UNCHANGED <<inProgress, actionQueue, caller, forced>>
    BY <1>2 DEF StartSpawn
  <2>2. \A w \in Workers : ~Executing(w)'
    BY <1>2 DEF StartSpawn, Executing, Idle
  <2> QED
    BY <1>c, <2>1, <2>2 DEF Sending
<1>3. ASSUME NEW c \in Callers, NEW id \in ActionIDs, EnqueueRegister(c, id)
      PROVE  HolderInv'
  <2> DEFINE new == [id |-> id, gen |-> nextGeneration + 1]
  <2>1. /\ UNCHANGED <<actionQueue, worker, forced>>
        /\ \A d \in Callers : d = c
        /\ Sending(c)' /\ caller'[c].work = new
    BY <1>3, SingleCallerAssumption DEF EnqueueRegister, Sending, TypeOK
  <2>2. /\ inProgress[id].gen = 0
        /\ \A j \in ActionIDs : inProgress'[j].gen =
                IF j = id THEN nextGeneration + 1 ELSE inProgress[j].gen
    BY <1>3 DEF EnqueueRegister, NoEntry, TypeOK
  <2>3. /\ \A i \in Slots : actionQueue[i].gen # new.gen
        /\ \A w \in Workers : Executing(w) => worker[w].work.gen # new.gen
    BY <1>a DEF Fresh, Slots
  <2>4. HeldOnce'
    BY <2>1, <2>3 DEF HeldOnce, Slots, Executing
  \* Nobody else has this action ID, unless force-removed: its entry was free.
  <2>5. ASSUME NEW work, work.id \in ActionIDs, work.gen \in Nat \ {0}, IsRegistered(work)
        PROVE  IsRegistered(work)'
    BY <2>1, <2>2, <2>5 DEF IsRegistered
  <2>6. inProgress'[caller'[c].work.id].gen = caller'[c].work.gen
    BY <2>1, <2>2
  <2>7. HeldIsRegistered'
    <3>1. \A i \in Slots : IsRegistered(actionQueue[i])'
      <4> TAKE i \in Slots
      <4> QED
        BY <1>a, <2>1, <2>5 DEF HeldIsRegistered
    <3>2. \A w \in Workers : Executing(w) => IsRegistered(worker[w].work)'
      <4> TAKE w \in Workers
      <4> QED
        BY <1>a, <2>1, <2>5 DEF HeldIsRegistered
    <3> QED
      BY <2>1, <2>6, <3>1, <3>2 DEF HeldIsRegistered, IsRegistered, Slots, Executing
  <2> QED
    BY <2>4, <2>7
<1>4. ASSUME NEW c \in Callers, EnqueueSend(c)
      PROVE  HolderInv'
  <2> DEFINE work == caller[c].work
  <2>1. /\ UNCHANGED <<inProgress, worker, forced>>
        /\ Sending(c)
        /\ \A d \in Callers : ~Sending(d)'
    BY <1>4, SingleCallerAssumption DEF EnqueueSend, Sending, Idle, TypeOK
  <2>2. /\ Slots' = Slots \cup {Len(actionQueue) + 1}
        /\ Len(actionQueue) + 1 \notin Slots
        /\ actionQueue'[Len(actionQueue) + 1] = work
        /\ \A i \in Slots : actionQueue'[i] = actionQueue[i]
    BY <1>4 DEF EnqueueSend, Slots, TypeOK
  <2>3. HeldOnce'
    BY <2>1, <2>2 DEF HeldOnce, Executing
  <2>4. HeldIsRegistered'
    BY <2>1, <2>2 DEF HeldIsRegistered, IsRegistered, Executing
  <2> QED
    BY <2>3, <2>4
<1>5. ASSUME NEW c \in Callers, EnqueueFull(c) \/ EnqueuePanic(c)
      PROVE  HolderInv'
  <2>1. UNCHANGED <<inProgress, actionQueue, worker, forced>>
    BY <1>5 DEF EnqueueFull, EnqueuePanic
  <2>2. \A d \in Callers : Sending(d)' => Sending(d) /\ caller'[d].work = caller[d].work
    <3>1. CASE EnqueueFull(c)
      BY <3>1 DEF EnqueueFull, Sending, TypeOK
    <3>2. CASE EnqueuePanic(c)
      BY <3>2 DEF EnqueuePanic, Sending, Idle, TypeOK
    <3> QED
      BY <1>5, <3>1, <3>2
  <2> QED
    BY <1>c, <2>1, <2>2 DEF Executing
<1>6. ASSUME NEW c \in Callers, EnqueueRollback(c)
      PROVE  HolderInv'
  <2> DEFINE mine == caller[c].work
  <2>1. /\ UNCHANGED <<actionQueue, worker, forced>>
        /\ Sending(c)
        /\ \A d \in Callers : ~Sending(d)'
    BY <1>6, SingleCallerAssumption DEF EnqueueRollback, Sending, Idle, TypeOK
  <2>2. \A j \in ActionIDs : inProgress'[j].gen =
            IF j = mine.id THEN 0 ELSE inProgress[j].gen
    BY <1>6 DEF EnqueueRollback, Unregister, NoEntry, TypeOK
  <2>3. HeldOnce'
    BY <2>1 DEF HeldOnce, Slots, Executing
  <2>4. ASSUME NEW work, work.id \in ActionIDs, work.gen \in Nat \ {0},
               IsRegistered(work), work.gen # mine.gen
        PROVE  IsRegistered(work)'
    BY <2>1, <2>2, <2>4 DEF IsRegistered, HeldIsRegistered
  <2>5. HeldIsRegistered'
    BY <1>a, <2>1, <2>4 DEF HeldIsRegistered, HeldOnce, Slots, Executing
  <2> QED
    BY <2>3, <2>5
<1>7. ASSUME NEW w \in Workers, WorkerReceive(w)
      PROVE  HolderInv'
  <2>1. /\ UNCHANGED <<inProgress, caller, forced>>
        /\ actionQueue # <<>>
        /\ actionQueue' = Tail(actionQueue)
        /\ worker' = [worker EXCEPT ![w] = [pc |-> "exec", work |-> actionQueue[1]]]
    BY <1>7 DEF WorkerReceive, TypeOK
  <2>2. actionQueue \in Seq(Works)
    BY DEF TypeOK
  <2>3. \A i \in Slots' : i + 1 \in Slots /\ i + 1 # 1 /\ actionQueue'[i] = actionQueue[i + 1]
    BY <2>1, <2>2 DEF Slots
  <2>4. 1 \in Slots
    BY <2>1, <2>2 DEF Slots
  <2>5. /\ worker'[w].work = actionQueue[1]
        /\ \A v \in Workers : v # w => worker'[v] = worker[v]
    BY <2>1 DEF TypeOK
  <2>a. /\ \A v \in Workers \ {w} : Executing(v)' <=> Executing(v)
        /\ \A c \in Callers : Sending(c)' <=> Sending(c)
    BY <2>1, <2>5 DEF Executing, Sending
  <2>6. HeldOnce'
    <3>1. \A i, j \in Slots' : i + 1 = j + 1 => i = j
      BY DEF Slots
    <3>2. \A i, j \in Slots' : actionQueue'[i].gen = actionQueue'[j].gen => i = j
      BY <2>3, <3>1 DEF HeldOnce
    <3>3. \A i \in Slots' : actionQueue'[i].gen # actionQueue[1].gen
      BY <2>3, <2>4 DEF HeldOnce
    <3>4. \A v \in Workers \ {w} : Executing(v) => worker[v].work.gen # actionQueue[1].gen
      BY <2>4 DEF HeldOnce
    <3>5. \A u, v \in Workers : Executing(u)' /\ Executing(v)'
            /\ worker'[u].work.gen = worker'[v].work.gen => u = v
      BY <2>5, <2>a, <3>4 DEF HeldOnce
    <3>6. \A v \in Workers, i \in Slots' :
            Executing(v)' => worker'[v].work.gen # actionQueue'[i].gen
      BY <2>3, <2>5, <2>a, <3>3 DEF HeldOnce
    <3>7. \A c \in Callers : Sending(c)' =>
            /\ \A i \in Slots' : actionQueue'[i].gen # caller'[c].work.gen
            /\ \A v \in Workers : Executing(v)' => worker'[v].work.gen # caller'[c].work.gen
      <4> TAKE c \in Callers
      <4> HAVE Sending(c)'
      <4>1. /\ caller'[c].work = caller[c].work
            /\ \A i \in Slots : actionQueue[i].gen # caller[c].work.gen
            /\ \A v \in Workers : Executing(v) => worker[v].work.gen # caller[c].work.gen
        BY <2>1, <2>a DEF HeldOnce
      <4>2. \A i \in Slots' : actionQueue'[i].gen # caller'[c].work.gen
        BY <2>3, <4>1
      <4>3. \A v \in Workers : Executing(v)' => worker'[v].work.gen # caller'[c].work.gen
        BY <2>4, <2>5, <2>a, <4>1
      <4> QED
        BY <4>2, <4>3
    <3> QED
      BY <3>2, <3>5, <3>6, <3>7 DEF HeldOnce
  <2>7. HeldIsRegistered'
    <3>1. \A i \in Slots' : IsRegistered(actionQueue[i])'
      BY <2>1, <2>3 DEF HeldIsRegistered, IsRegistered
    <3>2. \A v \in Workers : Executing(v)' => IsRegistered(worker[v].work)'
      BY <2>1, <2>4, <2>5, <2>a DEF HeldIsRegistered, IsRegistered
    <3>3. \A c \in Callers : Sending(c)' =>
            /\ IsRegistered(caller[c].work)'
            /\ inProgress'[caller'[c].work.id].gen \in {0, caller'[c].work.gen}
      BY <2>1, <2>a DEF HeldIsRegistered, IsRegistered
    <3> QED
      BY <3>1, <3>2, <3>3 DEF HeldIsRegistered
  <2> QED
    BY <2>6, <2>7
<1>8. ASSUME NEW w \in Workers, WorkerExit(w) \/ WorkerCallback(w)
      PROVE  HolderInv'
  <2>1. UNCHANGED <<inProgress, actionQueue, caller, forced>>
    BY <1>8 DEF WorkerExit, WorkerCallback
  <2>2. \A v \in Workers : Executing(v)' => Executing(v) /\ worker'[v].work = worker[v].work
    <3>1. CASE WorkerExit(w)
      BY <3>1 DEF WorkerExit, Executing, TypeOK
    <3>2. CASE WorkerCallback(w)
      BY <3>2 DEF WorkerCallback, Executing, Idle, TypeOK
    <3> QED
      BY <1>8, <3>1, <3>2
  <2> QED
    BY <1>c, <2>1, <2>2 DEF Sending
<1>9. ASSUME NEW w \in Workers, WorkerComplete(w)
      PROVE  HolderInv'
  <2> DEFINE mine == worker[w].work
  <2>1. Executing(w) /\ UNCHANGED <<actionQueue, caller, forced>>
    BY <1>9 DEF WorkerComplete, Executing
  <2>2. \A v \in Workers : /\ Executing(v)' => v # w
                           /\ v # w => worker'[v] = worker[v]
    <3>1. CASE GenerationMatch(mine)
      <4>1. worker' = [worker EXCEPT ![w].pc = "report"]
        BY <1>9, <3>1 DEF WorkerComplete
      <4> QED
        BY <4>1 DEF Executing, TypeOK
    <3>2. CASE ~GenerationMatch(mine)
      BY <1>9, <3>2 DEF WorkerComplete, Executing, Idle, TypeOK
    <3> QED
      BY <3>1, <3>2
  <2>3. \A v \in Workers : Executing(v)' => Executing(v) /\ worker'[v].work = worker[v].work
    BY <2>2 DEF Executing
  <2>4. CASE GenerationMatch(mine)
    <3>1. \A j \in ActionIDs : inProgress'[j].gen =
              IF j = mine.id THEN 0 ELSE inProgress[j].gen
      BY <1>9, <2>4 DEF WorkerComplete, Unregister, NoEntry, TypeOK
    <3>2. inProgress[mine.id].gen = mine.gen
      BY <2>4 DEF GenerationMatch
    <3>3. ASSUME NEW work, work.id \in ActionIDs, work.gen \in Nat \ {0},
                 IsRegistered(work), work.gen # mine.gen
          PROVE  IsRegistered(work)'
      BY <2>1, <3>1, <3>2, <3>3 DEF IsRegistered
    <3>4. \A c \in Callers : Sending(c)' =>
            Sending(c) /\ caller'[c] = caller[c] /\ caller[c].work.gen # mine.gen
      BY <2>1 DEF HeldOnce, Sending
    <3>5. \A i \in Slots : actionQueue[i].gen # mine.gen
      BY <2>1 DEF HeldOnce
    <3>6. \A v \in Workers : Executing(v)' => worker[v].work.gen # mine.gen
      BY <2>1, <2>2, <2>3 DEF HeldOnce
    <3>7. HeldIsRegistered'
      BY <1>a, <2>1, <2>3, <3>1, <3>3, <3>4, <3>5, <3>6 DEF HeldIsRegistered, Slots
    <3> QED
      BY <1>b, <2>1, <2>3, <3>7 DEF Sending
  <2>5. CASE ~GenerationMatch(mine)
    <3>1. UNCHANGED inProgress
      BY <1>9, <2>5 DEF WorkerComplete
    <3> QED
      BY <1>c, <2>1, <2>3, <3>1 DEF Sending
  <2> QED
    BY <2>4, <2>5
<1>10. ASSUME NEW id \in ActionIDs, Elapse(id)
       PROVE  HolderInv'
  <2>1. UNCHANGED <<actionQueue, caller, worker, forced>>
    BY <1>10 DEF Elapse
  <2>2. \A j \in ActionIDs : inProgress'[j].gen = inProgress[j].gen
    BY <1>10 DEF Elapse, TypeOK
  <2> QED
    BY <1>c, <2>1, <2>2 DEF Sending, Executing
<1>11. CASE MetricsTick
  <2>1. UNCHANGED <<actionQueue, caller, worker>> /\ forced' = forced \cup ExpiredGens
    BY <1>11 DEF MetricsTick
  <2>2. \A id \in ActionIDs : inProgress'[id].gen =
            IF Expired(id) THEN 0 ELSE inProgress[id].gen
    <3>1. \A e \in Entries : [e EXCEPT !.stuckReported = TRUE].gen = e.gen
      BY DEF Entries, NoEntry
    <3>2. \A id \in ActionIDs : inProgress[id] \in Entries
      BY DEF TypeOK
    <3> QED
      BY <1>11, <3>1, <3>2 DEF MetricsTick, NoEntry
  <2>3. \A id \in ActionIDs : Expired(id) => inProgress[id].gen \in forced'
    BY <2>1 DEF ExpiredGens
  <2>4. ASSUME NEW work, work.id \in ActionIDs, IsRegistered(work)
        PROVE  IsRegistered(work)'
    BY <2>1, <2>2, <2>3, <2>4 DEF IsRegistered
  <2>5. HeldIsRegistered'
    BY <1>a, <2>1, <2>2, <2>4 DEF HeldIsRegistered, Slots, Sending, Executing
  <2> QED
    BY <1>b, <2>1, <2>5 DEF Sending, Executing
<1> QED
  BY <1>1, <1>2, <1>3, <1>4, <1>5, <1>6, <1>7, <1>8, <1>9, <1>10, <1>11
     DEF Next, CallerStep, WorkerStep, MetricsStep

LEMMA HolderInvHolds == Spec => []HolderInv
<1>1. CallbackInv => Fresh
  BY DEF CallbackInv
<1> QED
  BY <1>1, InitHolderInv, NextHolderInv, CallbackInvHolds, ShutdownInvHolds, PTL DEF Spec

\* Two pool goroutines are in Execute of the same action ID only if the reporter
\* gave up the older execution, for every pool size and channel capacity.
THEOREM ExecutionsExclude == Spec => []OneLiveExecution
<1>1. HolderInv => OneLiveExecution
  <2> SUFFICES ASSUME HolderInv, NEW v \in Workers, NEW w \in Workers,
                      v # w, Executing(v), Executing(w),
                      worker[v].work.id = worker[w].work.id,
                      worker[v].work.gen \notin forced, worker[w].work.gen \notin forced
               PROVE  FALSE
    BY DEF OneLiveExecution, Executing
  <2>1. worker[v].work.gen = worker[w].work.gen
    BY DEF HolderInv, HeldIsRegistered, IsRegistered
  <2> QED
    BY <2>1 DEF HolderInv, HeldOnce
<1> QED
  BY <1>1, HolderInvHolds, PTL

\* No step drops a registration's holder and keeps the registration.
LEMMA NextNoOrphanEntry ==
    TypeOK /\ ShutdownInv /\ NoOrphanEntry /\ [Next]_vars => NoOrphanEntry'
<1> SUFFICES ASSUME TypeOK, ShutdownInv, NoOrphanEntry, [Next]_vars,
                    ~sentOnClosed', NEW j \in ActionIDs, inProgress'[j] # NoEntry
             PROVE  HeldBySomeone(j, inProgress[j].gen)'
  BY DEF NoOrphanEntry
<1> DEFINE key == [id |-> j, gen |-> inProgress[j].gen]
<1>a. ASSUME UNCHANGED sentOnClosed, inProgress[j] # NoEntry
      PROVE  /\ inProgress[j].gen # 0 /\ key.gen # 0
             /\ \/ \E c \in Callers : caller[c].work = key
                \/ \E i \in Slots : actionQueue[i] = key
                \/ \E w \in Workers : worker[w].pc = "exec" /\ worker[w].work = key
  <2>1. HeldBySomeone(j, inProgress[j].gen)
    BY <1>a DEF NoOrphanEntry
  <2>2. inProgress[j].gen # 0
    BY <1>a, HeldTypes
  <2> QED
    BY <2>1, <2>2 DEF HeldBySomeone, Holds, Slots
\* A step that keeps the entry's generation and its holder.
<1>b. ASSUME UNCHANGED sentOnClosed, inProgress[j] # NoEntry,
             inProgress'[j].gen = inProgress[j].gen,
             \A c \in Callers : caller[c].work = key => caller'[c].work = key,
             \A i \in Slots : actionQueue'[i] = actionQueue[i],
             Slots \subseteq Slots',
             \A w \in Workers : worker[w].pc = "exec" /\ worker[w].work = key
                => worker'[w].pc = "exec" /\ worker'[w].work = key
      PROVE  HeldBySomeone(j, inProgress[j].gen)'
  <2>1. CASE \E c \in Callers : caller[c].work = key
    <3>1. \E c \in Callers : caller'[c].work = [id |-> j, gen |-> inProgress'[j].gen]
      BY <1>b, <2>1
    <3> QED
      BY <3>1 DEF HeldBySomeone, Holds
  <2>2. CASE \E i \in Slots : actionQueue[i] = key
    <3>1. \E i \in Slots' : actionQueue'[i] = [id |-> j, gen |-> inProgress'[j].gen]
      BY <1>b, <2>2
    <3> QED
      BY <3>1 DEF HeldBySomeone, Slots
  <2>3. CASE \E w \in Workers : worker[w].pc = "exec" /\ worker[w].work = key
    <3>1. \E w \in Workers : /\ worker'[w].pc = "exec"
                             /\ worker'[w].work = [id |-> j, gen |-> inProgress'[j].gen]
      BY <1>b, <2>3
    <3> QED
      BY <3>1 DEF HeldBySomeone, Holds
  <2> QED
    BY <1>a, <1>b, <2>1, <2>2, <2>3
<1>1. CASE StartRegister \/ StartMetrics \/ MetricsExit \/ ShutdownStep \/ ParentCancel
           \/ UNCHANGED vars \/ \E g \in Gens : MetricsCallback(g)
  <2>1. UNCHANGED <<inProgress, actionQueue, caller, worker, sentOnClosed>>
    BY <1>1 DEF StartRegister, StartMetrics, MetricsExit, ParentCancel, vars,
                MetricsCallback, ShutdownStep, ShutdownStop, ShutdownCancelMetrics,
                ShutdownJoinMetrics, ShutdownClose, ShutdownCancel, ShutdownWait
  <2> QED
    BY <1>b, <2>1 DEF Slots
<1>2. CASE StartSpawn
  \* Start has not ended, so nothing is registered.
  BY <1>2 DEF StartSpawn, ShutdownInv, ShutdownOrder, Untouched
<1>3. ASSUME NEW c \in Callers, NEW id \in ActionIDs, EnqueueRegister(c, id)
      PROVE  HeldBySomeone(j, inProgress[j].gen)'
  <2>1. UNCHANGED <<actionQueue, worker, sentOnClosed>> /\ caller[c].work.gen = 0
    BY <1>3 DEF EnqueueRegister, Idle, NoWork
  <2>2. CASE j = id
    <3>1. caller'[c].work = [id |-> j, gen |-> inProgress'[j].gen]
      BY <1>3, <2>2 DEF EnqueueRegister, TypeOK
    <3> QED
      BY <3>1 DEF HeldBySomeone, Holds
  <2>3. CASE j # id
    <3>1. inProgress'[j] = inProgress[j] /\ \A d \in Callers \ {c} : caller'[d] = caller[d]
      BY <1>3, <2>3 DEF EnqueueRegister, TypeOK
    <3>2. \A d \in Callers : caller[d].work = key => caller'[d].work = key
      BY <1>a, <2>1, <3>1
    <3> QED
      BY <1>b, <2>1, <3>1, <3>2 DEF Slots
  <2> QED
    BY <2>2, <2>3
<1>4. ASSUME NEW c \in Callers, EnqueueSend(c)
      PROVE  HeldBySomeone(j, inProgress[j].gen)'
  <2> DEFINE last == Len(actionQueue) + 1
  <2>1. /\ UNCHANGED <<inProgress, worker, sentOnClosed>>
        /\ \A d \in Callers \ {c} : caller'[d] = caller[d]
    BY <1>4 DEF EnqueueSend, TypeOK
  <2>2. /\ Slots \subseteq Slots' /\ last \in Slots'
        /\ actionQueue'[last] = caller[c].work
        /\ \A i \in Slots : actionQueue'[i] = actionQueue[i]
    BY <1>4 DEF EnqueueSend, Slots, TypeOK
  <2>3. CASE caller[c].work = key
    <3>1. \E i \in Slots' : actionQueue'[i] = [id |-> j, gen |-> inProgress'[j].gen]
      BY <2>1, <2>2, <2>3
    <3> QED
      BY <3>1 DEF HeldBySomeone, Slots
  <2>4. CASE caller[c].work # key
    <3>1. \A d \in Callers : caller[d].work = key => caller'[d].work = key
      BY <2>1, <2>4
    <3> QED
      BY <1>b, <2>1, <2>2, <3>1
  <2> QED
    BY <2>3, <2>4
<1>5. ASSUME NEW c \in Callers, EnqueueFull(c)
      PROVE  HeldBySomeone(j, inProgress[j].gen)'
  <2>1. /\ UNCHANGED <<inProgress, actionQueue, worker, sentOnClosed>>
        /\ \A d \in Callers : caller'[d].work = caller[d].work
    BY <1>5 DEF EnqueueFull, TypeOK
  <2> QED
    BY <1>b, <2>1 DEF Slots
<1>6. ASSUME NEW c \in Callers, EnqueueRollback(c)
      PROVE  HeldBySomeone(j, inProgress[j].gen)'
  <2>1. /\ UNCHANGED <<actionQueue, worker, sentOnClosed>>
        /\ \A d \in Callers \ {c} : caller'[d] = caller[d]
    BY <1>6 DEF EnqueueRollback, TypeOK
  <2>2. caller[c].work.id # j /\ inProgress'[j] = inProgress[j]
    BY <1>6 DEF EnqueueRollback, Unregister, TypeOK
  <2>3. \A d \in Callers : caller[d].work = key => caller'[d].work = key
    BY <2>1, <2>2
  <2> QED
    BY <1>b, <2>1, <2>2, <2>3 DEF Slots
<1>7. ASSUME NEW c \in Callers, EnqueuePanic(c)
      PROVE  HeldBySomeone(j, inProgress[j].gen)'
  BY <1>7 DEF EnqueuePanic
<1>8. ASSUME NEW w \in Workers, WorkerReceive(w)
      PROVE  HeldBySomeone(j, inProgress[j].gen)'
  <2>1. /\ UNCHANGED <<inProgress, caller, sentOnClosed>>
        /\ worker[w].pc = "idle" /\ actionQueue # <<>> /\ actionQueue' = Tail(actionQueue)
        /\ worker'[w].pc = "exec" /\ worker'[w].work = actionQueue[1]
        /\ \A v \in Workers \ {w} : worker'[v] = worker[v]
    BY <1>8 DEF WorkerReceive, Idle, TypeOK
  <2>2. actionQueue \in Seq(Works)
    BY DEF TypeOK
  <2>3. \A i \in Slots : i # 1 => i - 1 \in Slots' /\ actionQueue'[i - 1] = actionQueue[i]
    BY <2>1, <2>2 DEF Slots
  <2>4. CASE \E c \in Callers : caller[c].work = key
    BY <2>1, <2>4 DEF HeldBySomeone, Holds
  <2>5. CASE \E i \in Slots : actionQueue[i] = key
    <3>1. PICK i \in Slots : actionQueue[i] = key
      BY <2>5
    <3>2. CASE i = 1
      BY <2>1, <3>1, <3>2 DEF HeldBySomeone, Holds
    <3>3. CASE i # 1
      <4>1. \E k \in Slots' : actionQueue'[k] = [id |-> j, gen |-> inProgress'[j].gen]
        BY <2>1, <2>3, <3>1, <3>3
      <4> QED
        BY <4>1 DEF HeldBySomeone, Slots
    <3> QED
      BY <3>2, <3>3
  <2>6. CASE \E v \in Workers : worker[v].pc = "exec" /\ worker[v].work = key
    <3>1. PICK v \in Workers : worker[v].pc = "exec" /\ worker[v].work = key
      BY <2>6
    <3>2. v # w /\ worker'[v] = worker[v]
      BY <2>1, <3>1
    <3> QED
      BY <2>1, <3>1, <3>2 DEF HeldBySomeone, Holds
  <2> QED
    BY <1>a, <2>1, <2>4, <2>5, <2>6
<1>9. ASSUME NEW w \in Workers, WorkerExit(w) \/ WorkerCallback(w)
      PROVE  HeldBySomeone(j, inProgress[j].gen)'
  <2>1. /\ UNCHANGED <<inProgress, actionQueue, caller, sentOnClosed>>
        /\ worker[w].pc # "exec" /\ \A v \in Workers \ {w} : worker'[v] = worker[v]
    BY <1>9 DEF WorkerExit, WorkerCallback, Idle, TypeOK
  <2> QED
    BY <1>b, <2>1 DEF Slots
<1>10. ASSUME NEW w \in Workers, WorkerComplete(w)
       PROVE  HeldBySomeone(j, inProgress[j].gen)'
  <2> DEFINE mine == worker[w].work
  <2>1. UNCHANGED <<actionQueue, caller, sentOnClosed>>
    BY <1>10 DEF WorkerComplete
  <2>2. inProgress'[j] = inProgress[j] /\ mine # key
    <3>1. CASE GenerationMatch(mine)
      <4>1. inProgress' = [inProgress EXCEPT ![mine.id] = NoEntry]
        BY <1>10, <3>1 DEF WorkerComplete, Unregister
      <4>2. mine.id # j
        BY <4>1 DEF TypeOK
      <4> QED
        BY <4>1, <4>2 DEF TypeOK
    <3>2. CASE ~GenerationMatch(mine)
      BY <1>10, <3>2 DEF WorkerComplete, GenerationMatch
    <3> QED
      BY <3>1, <3>2
  <2>3. \A v \in Workers \ {w} : worker'[v] = worker[v]
    <3>1. CASE GenerationMatch(mine)
      BY <1>10, <3>1 DEF WorkerComplete, TypeOK
    <3>2. CASE ~GenerationMatch(mine)
      BY <1>10, <3>2 DEF WorkerComplete, TypeOK
    <3> QED
      BY <3>1, <3>2
  <2> QED
    BY <1>b, <2>1, <2>2, <2>3 DEF Slots
<1>11. ASSUME NEW id \in ActionIDs, Elapse(id)
       PROVE  HeldBySomeone(j, inProgress[j].gen)'
  <2>1. UNCHANGED <<actionQueue, caller, worker, sentOnClosed>>
    BY <1>11 DEF Elapse
  <2>2. inProgress'[j].gen = inProgress[j].gen /\ inProgress[j] # NoEntry
    BY <1>11 DEF Elapse, TypeOK
  <2> QED
    BY <1>b, <2>1, <2>2 DEF Slots
<1>12. CASE MetricsTick
  <2>1. UNCHANGED <<actionQueue, caller, worker, sentOnClosed>>
    BY <1>12 DEF MetricsTick
  <2>2. /\ ~Expired(j)
        /\ inProgress'[j] = IF Stuck(j) THEN [inProgress[j] EXCEPT !.stuckReported = TRUE]
                            ELSE inProgress[j]
    BY <1>12 DEF MetricsTick
  <2>3. inProgress[j] \in Entries
    BY DEF TypeOK
  <2>4. ~Stuck(j) \/ inProgress[j] # NoEntry
    BY ExecutorAssumption DEF Stuck, NoEntry
  <2>5. inProgress'[j].gen = inProgress[j].gen /\ inProgress[j] # NoEntry
    BY <2>2, <2>3, <2>4 DEF Entries, NoEntry
  <2> QED
    BY <1>b, <2>1, <2>5 DEF Slots
<1> QED
  BY <1>1, <1>2, <1>3, <1>4, <1>5, <1>6, <1>7, <1>8, <1>9, <1>10, <1>11, <1>12
     DEF Next, CallerStep, WorkerStep, MetricsStep

\* No action ID stays in progress without a goroutine or a channel slot that
\* will complete it, except after a send on the closed channel.
THEOREM EntriesHaveHolders == Spec => []NoOrphanEntry
<1>1. Init => NoOrphanEntry
  BY DEF Init, NoOrphanEntry
<1> QED
  BY <1>1, NextNoOrphanEntry, TypeCorrect, ShutdownInvHolds, PTL DEF Spec
=============================================================================
