----------------------------- MODULE FsmManager -----------------------------
(***************************************************************************)
(* The FSM v1 manager (umh-core/pkg/fsm/base_manager.go) over instances of *)
(* one kind.  One action is one call of its Reconcile: at most one         *)
(* creation, update, change of desired state or start of a removal, each   *)
(* held back by a cooldown of its own, and otherwise a reconcile of every  *)
(* instance.  The configuration changes between ticks.                     *)
(*                                                                         *)
(* calm: from some point on nothing fails, the configuration stays as it   *)
(* is and every service does as it is told.  Progress is stated for that   *)
(* case only.                                                              *)
(***************************************************************************)
EXTENDS BaseFsm

CONSTANTS
    Names,          \* instance names
    Kinds,          \* kinds the manager may be built for
    Versions,       \* [kind -> configurations of one instance]
    Cooldowns,      \* [add, update, state, remove -> SUBSET Nat]: schedule(base)
    FaultsInRun     \* faults a reconcile may meet

VARIABLES
    kind,           \* the kind of this manager
    config,         \* [Names -> desired configuration or Absent]
    insts,          \* [Names -> instance or Absent]
    next,           \* ticks until nextAddTick, nextUpdateTick...
    svc,            \* [Names -> {"none", "present", "abandoned"}] services
    calm

vars == <<kind, config, insts, next, svc, calm>>

Absent == [kind |-> "absent"]
Operations == {"add", "update", "state", "remove"}

ASSUME ManagerAssumption ==
    /\ Kinds \subseteq AllKinds /\ Kinds \subseteq DOMAIN Versions
    /\ Cooldowns \in [Operations -> SUBSET (Nat \ {0, 1})]
    /\ "none" \in FaultsInRun /\ FaultsInRun \subseteq Faults

Configs == [want : {"up", "stopped"}, ver : Versions[kind]]

(* An instance of kind k in memory, see BaseFsm. *)
Instances(k) ==
    [kind : {k}, st : LifecycleStates \cup OperationalStates(k),
     desired : {"up", "stopped"}, ver : Versions[k], armed : BOOLEAN,
     errs : 0..Len(BackoffWaits), wait : Nat, perm : BOOLEAN, marked : BOOLEAN,
     streak : 0..MaxTicksInTransientState, last : LifecycleStates \cup {"none"}]

(* Every instance is of the manager's kind, in a state of the library's    *)
(* tables, and has no more errors counted than its backoff allows.         *)
TypeOK ==
    /\ kind \in Kinds
    /\ config \in [Names -> Configs \cup {Absent}]
    /\ insts \in [Names -> Instances(kind) \cup {Absent}]
    /\ next \in [Operations -> Nat]
    /\ svc \in [Names -> {"none", "present", "abandoned"}]
    /\ calm \in BOOLEAN

Has(n) == insts[n] # Absent
Configured(n) == config[n] # Absent

Init ==
    /\ kind \in Kinds
    /\ config = [n \in Names |-> Absent]
    /\ insts = [n \in Names |-> Absent]
    /\ next = [op \in Operations |-> 0]
    /\ svc = [n \in Names |-> "none"]
    /\ calm = FALSE

(* The configuration file: an entry is added, changed or taken out. *)
SetConfig(n) ==
    /\ ~calm
    /\ \E c \in Configs \cup {Absent} : c # config[n] /\ config' = [config EXCEPT ![n] = c]
    /\ UNCHANGED <<kind, insts, next, svc, calm>>

CalmDown ==
    /\ ~calm
    /\ calm' = TRUE
    /\ UNCHANGED <<kind, config, insts, next, svc>>

-----------------------------------------------------------------------------
(* One tick of the manager.  Every counter of ticks gets one nearer to its *)
(* end first.                                                              *)

Aged(n) == Age(insts[n])
AgedAll == [n \in Names |-> IF Has(n) THEN Aged(n) ELSE Absent]
Cooled == [op \in Operations |-> IF next[op] > 0 THEN next[op] - 1 ELSE 0]

Schedule(op) == next' \in {[Cooled EXCEPT ![op] = t] : t \in Cooldowns[op]}

(* What the configuration asks to be done with a name, if anything. *)
Pending(n) ==
    CASE ~Configured(n) -> "nothing"
      [] Configured(n) /\ ~Has(n) -> "add"
      [] Configured(n) /\ Has(n) ->
            IF insts[n].st = "removed" THEN "nothing"
            ELSE IF insts[n].ver # config[n].ver THEN "update"
            ELSE IF insts[n].desired # config[n].want THEN "state" ELSE "nothing"

MayDo(n) == Pending(n) # "nothing" /\ Cooled[Pending(n)] = 0

(* Step 2: the first entry that may be acted on; the tick ends there. *)
ApplyConfig(n) ==
    /\ MayDo(n)
    /\ insts' = [AgedAll EXCEPT ![n] =
            CASE Pending(n) = "add" -> NewBaseFSMInstance(kind, config[n].want, config[n].ver)
              [] Pending(n) = "update" -> [@ EXCEPT !.ver = config[n].ver]
              [] Pending(n) = "state" -> [@ EXCEPT !.desired = config[n].want]]
    /\ Schedule(Pending(n))
    /\ UNCHANGED <<kind, config, svc, calm>>

(* Step 3: an instance without an entry is told to remove itself; the tick *)
(* ends there.  A removal that is refused is tried again.                  *)
Removable(n) ==
    /\ Has(n) /\ ~Configured(n)
    /\ insts[n].st \notin {"removing", "removed"}
    /\ Cooled["remove"] = 0

StartRemoval(n, f) ==
    /\ ~\E m \in Names : MayDo(m)
    /\ Removable(n)
    /\ LET r == Remove(Aged(n), f) IN
        /\ insts' = [AgedAll EXCEPT ![n] = r.inst]
        /\ IF r.ok THEN Schedule("remove") ELSE next' = Cooled
    /\ UNCHANGED <<kind, config, svc, calm>>

(* Step 4: an instance seen removed leaves the map, every other one is      *)
(* reconciled, in parallel.  Its results are the instance as it is then     *)
(* and the service.  A permanent error takes it out of the map, unless the  *)
(* tick's deadline passed before the goroutine could ask for it ("late").  *)
(* An instance is left alone when there is no time for it ("skip").        *)
ServiceAfter(n, r) ==
    IF ~Profiles[kind].service THEN "none"
    ELSE CASE r.svc = "created" -> "present"
           [] r.svc = "gone" -> "none"
           [] r.svc = "abandoned" -> IF svc[n] = "present" THEN "abandoned" ELSE svc[n]
           [] r.svc = "same" -> svc[n]

Outcomes(n, r, f) ==
    LET after(i) == [inst |-> i, svc |-> ServiceAfter(n, r)] IN
    IF r.err # "permanent" THEN {after(MaybeEscalateRemoval(r.inst, f))}
    ELSE IF calm THEN {after(Absent)} ELSE {after(Absent), after(r.inst)}

ReconcileInstance(n, decisions, f) ==
    UNION {Outcomes(n, r, f) : r \in {Reconcile(Aged(n), d, f) : d \in decisions}}

(* Left alone, or not there. *)
Unchanged(n) == [inst |-> IF Has(n) THEN Aged(n) ELSE Absent, svc |-> svc[n]]

(* The results that one reconcile of n can have, over all faults; in the   *)
(* calm period there is one.                                               *)
FaultyResults(n) ==
    LET decisions(f) == LET i == Observed(Aged(n), f) IN Decisions(kind, i.st, i.desired)
        usual == decisions("none")
    IN  {Unchanged(n)} \cup
        UNION {ReconcileInstance(n, IF f = "drift" THEN decisions(f) ELSE usual, f) :
                f \in FaultsInRun}

CalmDecision(n) ==
    LET i == insts[n] IN
    IF i.st \in LifecycleStates THEN Wait
    ELSE (CHOOSE t \in DecisionTables[kind] : t[1] = i.st /\ t[2] = i.desired /\ t[4])[3]

Results(n) ==
    CASE ~Has(n) -> {Unchanged(n)}
      [] Has(n) /\ insts[n].st = "removed" -> {[inst |-> Absent, svc |-> svc[n]]}
      [] Has(n) /\ insts[n].st # "removed" ->
            IF calm THEN ReconcileInstance(n, {CalmDecision(n)}, "none") ELSE FaultyResults(n)

ReconcileInstances ==
    /\ ~\E m \in Names : MayDo(m) \/ Removable(m)
    /\ \E results \in {UNION {{<<n, r>> : r \in Results(n)} : n \in Names}} :
        \E r \in [Names -> {x[2] : x \in results}] :
            /\ \A n \in Names : <<n, r[n]>> \in results
            /\ insts' = [n \in Names |-> r[n].inst]
            /\ svc' = [n \in Names |-> r[n].svc]
    /\ next' = Cooled
    /\ UNCHANGED <<kind, config, calm>>

(* The context has expired before the tick begins: only time passes. *)
ExpiredTick ==
    /\ ~calm
    /\ insts' = AgedAll /\ next' = Cooled
    /\ UNCHANGED <<kind, config, svc, calm>>

Tick ==
    \/ \E n \in Names : ApplyConfig(n)
    \/ \E n \in Names, f \in IF calm THEN {"none"} ELSE FaultsInRun : StartRemoval(n, f)
    \/ ReconcileInstances
    \/ ExpiredTick

Next ==
    \/ \E n \in Names : SetConfig(n)
    \/ CalmDown
    \/ Tick

(* The control loop calls every manager in every tick; only the ticks of   *)
(* the calm period are assumed.                                            *)
Spec == Init /\ [][Next]_vars /\ WF_vars(calm /\ Tick)

-----------------------------------------------------------------------------
(* Properties *)

(* The reconcile functions and the transition tables are two lists kept by *)
(* hand: whatever an instance observes in a state it can reach, the event  *)
(* it decides on is one the table accepts there and that leaves the state  *)
(* (the library reports both others as errors, which count towards a       *)
(* permanent failure).                                                     *)
EventAccepted ==
    \A n \in Names : Has(n) =>
        \A d \in Decisions(kind, insts[n].st, insts[n].desired) :
            d.event \notin {"none", "fatal"} => Accepts(kind, insts[n].st, d.event)

(* An instance that has finished its removal, or has left the manager, has  *)
(* no service running: either the service is gone, or even the forced       *)
(* removal failed (HandlePermanentError).                                   *)
NoForgottenService ==
    \A n \in Names : ~Has(n) \/ insts[n].st = "removed" => svc[n] # "present"

(* The instance of a name shows what the configuration asks for. *)
Settled(n) ==
    IF ~Configured(n) THEN ~Has(n)
    ELSE /\ Has(n)
         /\ insts[n].ver = config[n].ver
         /\ insts[n].desired = config[n].want
         /\ insts[n].st = IF config[n].want = "up" THEN GoalState(kind) ELSE "stopped"

(* S6 only: told to run while it is still stopping. *)
StuckStopping(n) ==
    kind = "s6" /\ Has(n) /\ insts[n].st = "stopping" /\ insts[n].desired = "up"

(* Once failures stop and the configuration stays as it is, every instance *)
(* arrives where the configuration wants it and stays, whatever happened   *)
(* before: errors in every step, permanent failures, removals that were    *)
(* begun and withdrawn.  (The stuck s6 service is the subject of a run of  *)
(* its own.)                                                               *)
ConvergesWhenCalm ==
    \A n \in Names : <>[]calm => <>[](Settled(n) \/ StuckStopping(n))

(* s6/reconcile.go says of Reconcile: "Over multiple calls, it converges   *)
(* the actual state to the desired state."                                 *)
S6Converges ==
    \A n \in Names : <>[]calm => <>[]Settled(n)
=============================================================================
