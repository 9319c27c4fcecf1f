------------------------------- MODULE BaseFsm -------------------------------
(***************************************************************************)
(* The base of every FSM v1 instance: internal/fsm/baseFSM.go with its     *)
(* backoff manager (pkg/backoff/manager.go), and the Reconcile function    *)
(* that every kind repeats (pkg/fsm/<kind>/reconcile.go), whose variations *)
(* are the kinds' profiles.                                                *)
(*                                                                         *)
(* An instance is a record:                                                *)
(*   kind, st, desired, ver   its kind, FSM states and configuration       *)
(*   armed     the enter_stopped callback that fires "remove" is installed *)
(*   errs      errors since the last ResetState                            *)
(*   wait      ticks until suspendedUntilTick                              *)
(*   perm      permanentFailure                                            *)
(*   marked    the text of lastError carries the permanent-failure mark    *)
(*   streak, last   transientStreakCounter, lastObservedLifecycleState     *)
(*                                                                         *)
(* A fault is what goes wrong in one reconcile:                            *)
(*   deadline  the context has expired when Reconcile is called            *)
(*   ext       refreshing the observed state runs into the deadline        *)
(*   call      a service operation returns an error                        *)
(*   event     SendEvent refuses for lack of time                          *)
(*   sub       the manager of the service underneath returns an error      *)
(*   force     ForceRemove returns an error                                *)
(*   pending   creation or removal is not finished, or the bridge waits    *)
(*   callback  the remove event sent by the callback is refused            *)
(*   bad_dir   (s6) the service directory is corrupt                       *)
(*   drift     (s6) the configuration on disk is another one               *)
(* An observation that could not be refreshed is an old one: decisions are *)
(* taken over all observations.                                            *)
(***************************************************************************)
EXTENDS InstanceMachines

CONSTANTS
    BackoffWaits,               \* ticks suspended after the 1st, 2nd... error
    MaxTicksInTransientState    \* MaxTicksToRemainInTransientState

ASSUME BackoffAssumption ==
    /\ BackoffWaits \in Seq(Nat \ {0})
    /\ MaxTicksInTransientState \in Nat \ {0}

Faults == {"none", "deadline", "ext", "call", "event", "sub", "force", "pending",
           "callback", "bad_dir", "drift"}

LifecycleStates == {"to_be_created", "creating", "removing", "removed"}

LifecycleTransitions ==
    Tr("create", {"to_be_created"}, "creating")
    \cup Tr("create_done", {"creating"}, "stopped")
    \cup Tr("remove", {"stopped"}, "removing")
    \cup Tr("remove_done", {"removing"}, "removed")

-----------------------------------------------------------------------------
(* What distinguishes the kinds' Reconcile functions:                      *)
(*   wanting   a desired state of stopped already counts as shutdown       *)
(*   sub       a manager underneath is reconciled after the transition     *)
(*   service   there is a service to create and to force-remove            *)
(*   records   an expired context is recorded as an error                  *)

Profile(wanting, sub, service, records) ==
    [wanting |-> wanting, sub |-> sub, service |-> service, records |-> records]

S6Profile == Profile(TRUE, FALSE, TRUE, TRUE)
BenthosProfile == Profile(TRUE, TRUE, TRUE, TRUE)
RedpandaProfile == Profile(TRUE, TRUE, TRUE, TRUE)
BenthosMonitorProfile == Profile(FALSE, TRUE, TRUE, TRUE)
RedpandaMonitorProfile == Profile(FALSE, TRUE, TRUE, TRUE)
(* The forceRemove of container always returns an error. *)
ContainerProfile == Profile(TRUE, FALSE, FALSE, TRUE)
AgentProfile == Profile(FALSE, FALSE, FALSE, TRUE)
NmapProfile == Profile(TRUE, TRUE, TRUE, TRUE)
ConnectionProfile == Profile(FALSE, TRUE, TRUE, TRUE)
DfcProfile == Profile(FALSE, TRUE, TRUE, TRUE)
PcProfile == Profile(FALSE, TRUE, TRUE, TRUE)
SpProfile == Profile(FALSE, TRUE, TRUE, FALSE)
TbProfile == Profile(TRUE, TRUE, TRUE, TRUE)

Profiles ==
    [s6 |-> S6Profile, benthos |-> BenthosProfile, redpanda |-> RedpandaProfile,
     benthos_monitor |-> BenthosMonitorProfile, redpanda_monitor |-> RedpandaMonitorProfile,
     container |-> ContainerProfile, agent_monitor |-> AgentProfile, nmap |-> NmapProfile,
     connection |-> ConnectionProfile, dataflowcomponent |-> DfcProfile,
     protocolconverter |-> PcProfile, streamprocessor |-> SpProfile,
     topicbrowser |-> TbProfile]

NewBaseFSMInstance(k, desired, ver) ==
    [kind |-> k, st |-> "to_be_created", desired |-> desired, ver |-> ver,
     armed |-> FALSE, errs |-> 0, wait |-> 0, perm |-> FALSE, marked |-> FALSE,
     streak |-> 0, last |-> "none"]

-----------------------------------------------------------------------------
(* The backoff manager.  A tick brings the end of a suspension nearer. *)

Age(i) == [i EXCEPT !.wait = IF @ > 0 THEN @ - 1 ELSE 0]

SetError(i, marked) ==
    IF i.perm THEN [i EXCEPT !.marked = marked]
    ELSE IF i.errs = Len(BackoffWaits)
    THEN [i EXCEPT !.perm = TRUE, !.marked = marked, !.wait = 0]
    ELSE [i EXCEPT !.errs = @ + 1, !.marked = marked, !.wait = BackoffWaits[i.errs + 1]]

\* Mutant: the permanent failure outlives the reset.
ResetState_KeepsFailure(i) == [i EXCEPT !.errs = 0, !.wait = 0, !.marked = FALSE]

ResetState(i) ==
    [i EXCEPT !.errs = 0, !.wait = 0, !.perm = FALSE, !.marked = FALSE]

ShouldSkip(i) == i.perm \/ i.wait > 0

-----------------------------------------------------------------------------
(* Events and removal. *)

(* Where looplab/fsm lets an event lead.  It refuses an event without an   *)
(* entry for the state, and one that leads back into it.                   *)
Destinations(k, s, event) ==
    {t[3] : t \in {t \in TransitionTables[k] : t[1] = event /\ t[2] = s}
              \cup {t \in LifecycleTransitions : t[1] = event /\ t[2] = s}} \ {s}

Accepts(k, s, event) == Destinations(k, s, event) # {}

(* Entering stopped runs the callback that Remove installed; its error is  *)
(* recorded with tick 0, so it suspends nothing.                           *)
SendEvent(i, event, f) ==
    LET entered(dest) ==
            LET j == [i EXCEPT !.st = dest] IN
            IF ~(dest = "stopped" /\ i.armed) THEN j
            ELSE IF f = "callback" THEN [SetError(j, TRUE) EXCEPT !.wait = 0]
            ELSE [j EXCEPT !.st = "removing"]
        sent(dests) ==
            IF f = "event" \/ dests = {} THEN [inst |-> i, ok |-> FALSE]
            ELSE [inst |-> entered(CHOOSE d \in dests : TRUE), ok |-> TRUE]
    IN  sent(Destinations(i.kind, i.st, event))

Remove(i, f) ==
    LET stopped == [i EXCEPT !.desired = "stopped"] IN
    IF i.st \in {"removed", "removing"} THEN [inst |-> i, ok |-> TRUE]
    ELSE IF i.st = "stopped" THEN SendEvent(stopped, "remove", f)
    ELSE [inst |-> [stopped EXCEPT !.armed = TRUE], ok |-> TRUE]

IsInShutdownState(i, f) ==
    \/ i.st \in {"removed", "removing", "stopping", "stopped"}
    \/ Profiles[i.kind].wanting /\ i.desired = "stopped"
    \/ i.kind = "s6" /\ f = "bad_dir"

\* Mutant: an instance that is shutting down is given up without force.
HandlePermanentError_NoForce(i, f) ==
    LET removal == Remove(ResetState(i), f) IN
    IF IsInShutdownState(i, f) \/ ~removal.ok
    THEN [inst |-> i, err |-> "permanent", svc |-> "same"]
    ELSE [inst |-> removal.inst, err |-> "nil", svc |-> "same"]

(* The error is what Reconcile returns to the manager; svc says what       *)
(* happened to the service: it was created, it is gone, it had to be given *)
(* up because even the forced removal failed, or nothing.                  *)
HandlePermanentError(i, f) ==
    LET forceFails == f = "force" \/ ~Profiles[i.kind].service
        forced(j, err) == [inst |-> [j EXCEPT !.st = "removed"], err |-> err, svc |-> "gone"]
        failed(j) == [inst |-> j, err |-> "permanent", svc |-> "abandoned"]
        after(removal) ==
            IF removal.ok THEN [inst |-> removal.inst, err |-> "nil", svc |-> "same"]
            ELSE IF forceFails THEN failed(removal.inst) ELSE forced(removal.inst, "nil")
    IN  IF ~IsInShutdownState(i, f) THEN after(Remove(ResetState(i), f))
        ELSE IF forceFails THEN failed(i) ELSE forced(i, "permanent")

(* agent_monitor hands the error to the manager without removing anything. *)
AgentHandlePermanentError(i, f) ==
    IF IsInShutdownState(i, f)
    THEN [inst |-> i, err |-> "permanent", svc |-> "same"]
    ELSE [inst |-> Remove(ResetState(i), f).inst, err |-> "nil", svc |-> "same"]

-----------------------------------------------------------------------------
(* One reconcile. *)

(* The lifecycle states; the counter is only kept here, so it still holds  *)
(* its last value in the operational states.                               *)
ReconcileLifecycleStates(i, f) ==
    LET counted == [i EXCEPT
            !.streak = IF i.last # i.st THEN 0
                       ELSE IF @ < MaxTicksInTransientState THEN @ + 1 ELSE @,
            !.last = i.st]
        advance(event, effect) ==
            LET r == SendEvent(counted, event, f) IN
            [inst |-> r.inst, res |-> IF r.ok THEN "ok" ELSE "error", svc |-> effect]
        stay(res) == [inst |-> counted, res |-> res, svc |-> "same"]
    IN  CASE i.st = "to_be_created" ->
                IF f = "call" THEN stay("error") ELSE advance("create", "created")
          [] i.st = "creating" ->
                IF f = "pending" THEN stay("ok") ELSE advance("create_done", "same")
          [] i.st = "removing" ->
                IF f = "call" THEN stay("error")
                ELSE IF f = "pending" THEN stay("ok") ELSE advance("remove_done", "gone")
          [] i.st = "removed" -> stay("removed")

(* reconcileStateTransition of the kinds, for the decision taken. *)
ReconcileStateTransition(i, decision, f) ==
    IF decision = Fatal THEN [inst |-> i, res |-> "marked", svc |-> "same"]
    ELSE IF /\ i.kind = "protocolconverter"
            /\ i.st = "to_be_created" /\ i.desired = "up" /\ f = "pending"
    THEN [inst |-> i, res |-> "ok", svc |-> "same"]
    ELSE IF i.st \in LifecycleStates THEN ReconcileLifecycleStates(i, f)
    ELSE IF decision.call /\ f = "call" THEN [inst |-> i, res |-> "error", svc |-> "same"]
    ELSE IF decision.event = "none" THEN [inst |-> i, res |-> "ok", svc |-> "same"]
    ELSE LET sent(r) ==
                [inst |-> r.inst, res |-> IF r.ok THEN "ok" ELSE "error", svc |-> "same"]
         IN  sent(SendEvent(i, decision.event, f))

(* S6 removes itself when the configuration on disk is not its own. *)
Observed(i, f) == IF i.kind = "s6" /\ f = "drift" THEN Remove(i, f).inst ELSE i

(* The decisions open to an instance over all its observations. *)
Decisions(k, s, d) ==
    IF s \notin LifecycleStates
    THEN {t[3] : t \in {t \in DecisionTables[k] : t[1] = s /\ t[2] = d}}
    ELSE IF k = "s6" THEN {Wait, Fatal} ELSE {Wait}

(* While removing, these kinds do not refresh their observation. *)
SkipsObservation ==
    {"benthos", "redpanda", "connection", "dataflowcomponent", "protocolconverter",
     "streamprocessor", "topicbrowser"}

(* The order of the checks is the same in every kind; decision is one of   *)
(* the Decisions of the instance as Observed.                              *)
Reconcile(i, decision, f) ==
    LET ended(j, effect) == [inst |-> j, err |-> "nil", svc |-> effect]
        profile == Profiles[i.kind]
        after(r) ==
            CASE r.res = "removed" -> ended(r.inst, r.svc)
              [] r.res = "error" -> ended(SetError(r.inst, FALSE), r.svc)
              [] r.res = "marked" -> ended(SetError(r.inst, TRUE), r.svc)
              [] r.res = "ok" ->
                    ended(IF profile.sub /\ f = "sub" THEN SetError(r.inst, FALSE)
                          ELSE ResetState(r.inst), r.svc)
    IN  IF f = "deadline"
        THEN ended(IF profile.records THEN SetError(i, FALSE) ELSE i, "same")
        ELSE IF ShouldSkip(i)
        THEN IF ~i.perm /\ ~i.marked THEN ended(i, "same")
             ELSE IF i.kind = "agent_monitor" THEN AgentHandlePermanentError(i, f)
             ELSE HandlePermanentError(i, f)
        ELSE IF i.kind = "topicbrowser" /\ i.st = "stopped" /\ i.desired = "stopped"
        THEN ended(i, "same")
        ELSE IF f = "ext" /\ ~(i.st = "removing" /\ i.kind \in SkipsObservation)
        THEN ended(SetError(i, FALSE), "same")
        ELSE after(ReconcileStateTransition(Observed(i, f), decision, f))

(* maybeEscalateRemoval of the manager: an instance that stays too long in *)
(* a transient state is removed.  No instance implements ForceRemove, so   *)
(* one that is stuck in removing is only reported.                         *)
MaybeEscalateRemoval(i, f) ==
    IF i.streak >= MaxTicksInTransientState THEN Remove(i, f).inst ELSE i
=============================================================================
