------------------------- MODULE ChildReconciliation -------------------------
(***************************************************************************)
(* A running supervisor and its children                                   *)
(* (fsmv2/supervisor/reconciliation.go reconcileChildren,                  *)
(* applyDisableMapping, processSignal; lifecycle.go handleWorkerRestart).  *)
(*                                                                         *)
(* Every tick of the parent first reconciles the children with the child   *)
(* specs it has rendered and then ticks them, all on one goroutine.  A     *)
(* child is a supervisor with one worker; asked to shut down, the worker   *)
(* goes through its own states and signals removal some ticks later.  In   *)
(* between it may ask for a restart, and the specs may change again.       *)
(* Store and factory failures, restarts and spec changes are bounded       *)
(* nondeterminism.                                                         *)
(*                                                                         *)
(* A definition named Op_Suffix is a mutant of Op.                         *)
(***************************************************************************)
EXTENDS Naturals, FiniteSets

CONSTANTS
    Names,         \* names of child specs
    MaxChanges,    \* bound: spec changes
    MaxRestarts,   \* bound: SignalNeedsRestart
    MaxFaults      \* bound: failing store or factory calls

ASSUME ReconcileAssumption ==
    /\ IsFiniteSet(Names)
    /\ MaxChanges \in Nat
    /\ MaxRestarts \in Nat
    /\ MaxFaults \in Nat

VARIABLES
    specs,            \* per name: not wanted, or wanted enabled or disabled
    child,            \* s.children: the child supervisor and its worker
    pendingRemoval,   \* s.pendingRemoval
    toTick,           \* children this tick still has to tick
    phase,            \* reconciling, or ticking the children
    escalated,        \* history: children whose collector was given up
    changes, restarts, faults   \* bounds used up

vars == <<specs, child, pendingRemoval, toTick, phase, escalated, changes,
          restarts, faults>>

Wishes == {"absent", "enabled", "disabled"}
Wanted(c) == specs[c] # "absent"

\* exists: the child supervisor is in s.children; worker: its registry holds the
\* worker; flags: the lifecycle flags of the worker's stored desired state;
\* restarting, readd: pendingRestart and pendingReAdds of the child.  A restart
\* is pending for a registered worker, a re-add for a missing one.
ChildStates ==
    {r \in [exists : BOOLEAN, worker : BOOLEAN,
            flags : SUBSET {"shutdown", "disabled"},
            restarting : BOOLEAN, readd : BOOLEAN] :
        /\ r.worker => r.exists /\ ~r.readd
        /\ r.restarting => r.worker
        /\ r.readd => r.exists}

NoChild == [exists |-> FALSE, worker |-> FALSE, flags |-> {},
            restarting |-> FALSE, readd |-> FALSE]

NewChild == [NoChild EXCEPT !.exists = TRUE, !.worker = TRUE]

TypeOK ==
    /\ specs \in [Names -> Wishes]
    /\ child \in [Names -> ChildStates]
    /\ pendingRemoval \in SUBSET Names
    /\ toTick \in SUBSET Names
    /\ phase \in {"reconcile", "tick"}
    /\ escalated \in SUBSET Names
    /\ changes \in 0..MaxChanges
    /\ restarts \in 0..MaxRestarts
    /\ faults \in 0..MaxFaults

Init ==
    /\ specs \in [Names -> Wishes]
    /\ child = [c \in Names |-> NoChild]
    /\ pendingRemoval = {}
    /\ toTick = {}
    /\ phase = "reconcile"
    /\ escalated = {}
    /\ changes = 0
    /\ restarts = 0
    /\ faults = 0

-----------------------------------------------------------------------------
(* reconcileChildren.  fails: a factory or store call made for this child  *)
(* fails.                                                                  *)

\* A missing child is created; any failure on the way skips it until the next
\* tick.
Created(c, fails) ==
    IF Wanted(c) /\ ~child[c].exists /\ ~fails THEN NewChild ELSE child[c]

\* A mapping that visits the children created in this pass only.
DisableMapped_NewOnly(c, r, fails) ==
    IF Wanted(c) /\ r.exists /\ ~child[c].exists /\ ~fails
    THEN [r EXCEPT !.flags = IF specs[c] = "disabled" THEN @ \cup {"disabled"}
                                                      ELSE @ \ {"disabled"}]
    ELSE r

\* SetDisabled on every worker of a wanted child.
DisableMapped(c, r, fails) ==
    IF Wanted(c) /\ r.exists /\ r.worker /\ ~fails
    THEN [r EXCEPT !.flags = IF specs[c] = "disabled" THEN @ \cup {"disabled"}
                                                      ELSE @ \ {"disabled"}]
    ELSE r

\* A test that forgets to look the child up in the specs.
ToRequest_Wanted(c) == child[c].exists /\ c \notin pendingRemoval

\* A child that is no longer wanted and not marked yet.
ToRequest(c) == child[c].exists /\ ~Wanted(c) /\ c \notin pendingRemoval

\* A shutdown request that reaches no worker.
Requested_Nothing(c, r, fails) == r

\* RequestShutdown logs a failure and returns nil.
Requested(c, r, fails) ==
    IF ToRequest(c) /\ r.worker /\ ~fails
    THEN [r EXCEPT !.flags = @ \cup {"shutdown"}]
    ELSE r

\* Marks that a reappearing child keeps.
Marked_Kept == {c \in Names : c \in pendingRemoval \/ ToRequest(c)}

\* Marks after the update of reappeared children and the request phase.
Marked == {c \in Names : ~Wanted(c) /\ (c \in pendingRemoval \/ ToRequest(c))}

\* Marked children without workers are shut down and dropped.
Reapable(c, r) == c \in Marked /\ r.exists /\ ~r.worker

\* The calls of one pass that may fail: the creation of a child, and the write
\* of a flag to its worker's document.
Calls == Names \X {"create", "flag"}

Reconciled(c, failing) ==
    LET flag == <<c, "flag">> \in failing
        r == Requested(c, DisableMapped(c, Created(c, <<c, "create">> \in failing),
                                        flag), flag)
    IN  IF Reapable(c, r) THEN NoChild ELSE r

Reconcile(failing) ==
    /\ phase = "reconcile"
    /\ faults + Cardinality(failing) <= MaxFaults
    /\ faults' = faults + Cardinality(failing)
    /\ child' = [c \in Names |-> Reconciled(c, failing)]
    /\ pendingRemoval' = {c \in Marked : child'[c].exists}
    /\ toTick' = {c \in Names : child'[c].exists}
    /\ phase' = "tick"
    /\ UNCHANGED <<specs, escalated, changes, restarts>>

-----------------------------------------------------------------------------
(* The tick of a child.                                                    *)

Ticked(c, r) ==
    /\ phase = "tick"
    /\ c \in toTick
    /\ child' = [child EXCEPT ![c] = r]
    /\ toTick' = toTick \ {c}
    /\ UNCHANGED <<specs, pendingRemoval, phase, changes>>

Fault == faults < MaxFaults /\ faults' = faults + 1
NoFault == UNCHANGED faults

\* The worker has nothing to signal, or there is none and nothing is pending.
\* timedOut: checkRestartTimeouts drops an overdue restart.
TickQuiet(c, timedOut) ==
    /\ ~child[c].worker => ~child[c].readd
    /\ timedOut => child[c].restarting
    /\ Ticked(c, [child[c] EXCEPT !.restarting = @ /\ ~timedOut])
    /\ NoFault
    /\ UNCHANGED <<escalated, restarts>>

\* SignalNeedsRestart; the request behind it may fail.
TickNeedsRestart(c) ==
    /\ child[c].worker
    /\ "shutdown" \notin child[c].flags
    /\ restarts < MaxRestarts
    /\ restarts' = restarts + 1
    /\ \/ NoFault /\ Ticked(c, [child[c] EXCEPT !.restarting = TRUE,
                                               !.flags = @ \cup {"shutdown"}])
       \/ Fault /\ Ticked(c, [child[c] EXCEPT !.restarting = TRUE])
    /\ UNCHANGED escalated

\* The collector is unresponsive and its restart attempts are used up: the
\* worker is asked to shut down, without a restart.  That request may fail too.
TickEscalates(c) ==
    /\ child[c].worker
    /\ "shutdown" \notin child[c].flags
    /\ escalated' = escalated \cup {c}
    /\ \/ NoFault /\ Ticked(c, [child[c] EXCEPT !.flags = @ \cup {"shutdown"}])
       \/ Fault /\ Ticked(c, child[c])
    /\ UNCHANGED restarts

\* SignalNeedsRemoval of a worker that is to go.
TickRemoved(c) ==
    /\ child[c].worker
    /\ "shutdown" \in child[c].flags
    /\ ~child[c].restarting
    /\ Ticked(c, [child[c] EXCEPT !.worker = FALSE])
    /\ NoFault
    /\ UNCHANGED <<escalated, restarts>>

\* SignalNeedsRemoval of a worker that is to restart: a new worker with freshly
\* derived flags, or a failed factory call, or a failed AddWorker.
TickRestarted(c) ==
    /\ child[c].worker
    /\ "shutdown" \in child[c].flags
    /\ child[c].restarting
    /\ \/ NoFault /\ Ticked(c, NewChild)
       \/ \E retry \in BOOLEAN :
            Fault /\ Ticked(c, [NoChild EXCEPT !.exists = TRUE, !.readd = retry,
                                               !.flags = child[c].flags \ {"shutdown"}])
    /\ UNCHANGED <<escalated, restarts>>

\* A retry that forgets to drop the entry.
TickReAdds_Keeps(c) ==
    /\ ~child[c].worker
    /\ child[c].readd
    /\ \/ NoFault /\ Ticked(c, [NewChild EXCEPT !.readd = TRUE])
       \/ Fault /\ Ticked(c, child[c])
    /\ UNCHANGED <<escalated, restarts>>

\* retryPendingReAdds.
TickReAdds(c) ==
    /\ ~child[c].worker
    /\ child[c].readd
    /\ \/ NoFault /\ Ticked(c, NewChild)
       \/ Fault /\ Ticked(c, child[c])
    /\ UNCHANGED <<escalated, restarts>>

TickEnds ==
    /\ phase = "tick"
    /\ toTick = {}
    /\ phase' = "reconcile"
    /\ UNCHANGED <<specs, child, pendingRemoval, toTick, escalated, changes, restarts,
                   faults>>

\* The parent's next tick renders different specs.
SpecChanges(c, wish) ==
    /\ phase = "reconcile"
    /\ specs[c] # wish
    /\ changes < MaxChanges
    /\ changes' = changes + 1
    /\ specs' = [specs EXCEPT ![c] = wish]
    /\ UNCHANGED <<child, pendingRemoval, toTick, phase, escalated, restarts, faults>>

-----------------------------------------------------------------------------
TickChild(c) ==
    \/ \E timedOut \in BOOLEAN : TickQuiet(c, timedOut)
    \/ TickNeedsRestart(c) \/ TickEscalates(c)
    \/ TickRemoved(c) \/ TickRestarted(c) \/ TickReAdds(c)

Next ==
    \/ \E failing \in SUBSET Calls : Reconcile(failing)
    \/ \E c \in Names : TickChild(c)
    \/ TickEnds
    \/ \E c \in Names, wish \in Wishes : SpecChanges(c, wish)

Spec == Init /\ [][Next]_vars

\* A pass over the children comes to its end, and a worker that is asked to shut
\* down stops after finitely many ticks.
FairSpec ==
    /\ Spec
    /\ WF_vars(TickEnds)
    /\ \A c \in Names :
        /\ WF_vars(TickChild(c))
        /\ SF_vars(TickRemoved(c) \/ TickRestarted(c))

-----------------------------------------------------------------------------
(* Properties                                                              *)

\* A child's worker is never ticked with an Enabled setting other than the one
\* of its spec, although every restart and re-creation resets the stored flag:
\* the mapping runs before the tick (store faults excepted).
DisabledBeforeTick ==
    \A c \in toTick :
        Wanted(c) /\ child[c].worker /\ faults = 0
            => ("disabled" \in child[c].flags <=> specs[c] = "disabled")

\* While the children are ticked, exactly the unwanted children carry a removal
\* mark: no child that reappeared is on its way out, and no mark outlives its
\* child, where it would swallow the request of the child's next life.
MarksAreCurrent ==
    phase = "tick" =>
        pendingRemoval = {c \in Names : child[c].exists /\ ~Wanted(c)}

\* The parent's tickLoop goes on, and its ticks do not return for ever before they
\* reach the children (CircuitBreakers' TickReturns).
ParentReconciles == WF_vars(\E failing \in SUBSET Calls : Reconcile(failing))

\* Without a restart and without a failing call: a child whose spec is gone for
\* good is shut down and dropped, however often its spec changed before and
\* whether or not its collector was given up.
RemovedChildrenGo ==
    ParentReconciles =>
        \A c \in Names :
            [](restarts = 0 /\ faults = 0) /\ <>[](~Wanted(c)) => <>[](~child[c].exists)

\* The spec came back before the child was gone.
Reappears(c) == c \in pendingRemoval /\ Wanted(c)

\* Under the same conditions, a child that is wanted in the end has a running
\* worker, unless its spec was away for a time too short to remove it or its
\* collector was given up, after which nothing brings the worker back.
KeptChildrenRun ==
    ParentReconciles =>
        \A c \in Names :
            /\ [](restarts = 0 /\ faults = 0 /\ ~Reappears(c) /\ c \notin escalated)
            /\ <>[](Wanted(c))
            => <>[](child[c].exists /\ child[c].worker)

\* A child whose spec stays, and whose collector answers, has a running worker in
\* the end.
WantedChildrenRun ==
    ParentReconciles =>
        \A c \in Names :
            [](c \notin escalated) /\ <>[](Wanted(c)) => <>[](child[c].exists /\ child[c].worker)
=============================================================================
