---------------------- MODULE ChildReconciliationProofs ----------------------
(***************************************************************************)
(* The safety properties of ChildReconciliation, for every finite set of   *)
(* child names and all bounds.                                             *)
(***************************************************************************)
EXTENDS ChildReconciliation, FiniteSetTheorems, TLAPS

USE DEF Wishes

\* Nothing is left to tick between two passes, so specs change only then.
TickedBetweenPasses == phase = "reconcile" => toTick = {}

ReconcileInv ==
    /\ TypeOK
    /\ MarksAreCurrent
    /\ DisabledBeforeTick
    /\ TickedBetweenPasses

\* What a set of failing calls costs; only the empty set costs nothing.
LEMMA FailingCost ==
    ASSUME NEW failing \in SUBSET Calls
    PROVE  /\ Cardinality(failing) \in Nat
           /\ Cardinality(failing) = 0 => failing = {}
<1>1. IsFiniteSet({"create", "flag"})
  <2>1. IsFiniteSet({"create"})
    BY FS_Singleton
  <2>2. {"create", "flag"} = {"create"} \cup {"flag"}
    OBVIOUS
  <2>3. IsFiniteSet({"create"} \cup {"flag"})
    BY <2>1, FS_AddElement
  <2> QED BY <2>2, <2>3
<1>2. IsFiniteSet(Calls)
  BY <1>1, ReconcileAssumption, FS_Product DEF Calls
<1>3. IsFiniteSet(failing)
  BY <1>2, FS_Subset
<1> QED BY <1>3, FS_CardinalityType, FS_EmptySet

\* A pass maps child records to child records.
LEMMA ReconciledType ==
    ASSUME TypeOK, NEW c \in Names, NEW failing
    PROVE  Reconciled(c, failing) \in ChildStates
<1> DEFINE create == <<c, "create">> \in failing
           flag == <<c, "flag">> \in failing
           r1 == Created(c, create)
           r2 == DisableMapped(c, r1, flag)
           r3 == Requested(c, r2, flag)
<1>1. r1 \in ChildStates
  BY DEF TypeOK, Created, NewChild, NoChild, ChildStates
<1>2. r2 \in ChildStates
  <2> HIDE DEF r1
  <2> QED BY <1>1 DEF DisableMapped, ChildStates
<1>3. r3 \in ChildStates
  <2> HIDE DEF r2
  <2> QED BY <1>2 DEF Requested, ChildStates
<1>4. NoChild \in ChildStates
  BY DEF NoChild, ChildStates
<1>5. Reconciled(c, failing) = IF Reapable(c, r3) THEN NoChild ELSE r3
  BY DEF Reconciled
<1> HIDE DEF r3
<1> QED BY <1>3, <1>4, <1>5

\* A child that is there after a pass and not wanted was there before it.
LEMMA ReconciledExists ==
    ASSUME TypeOK, NEW c \in Names, NEW failing,
           Reconciled(c, failing).exists, ~Wanted(c)
    PROVE  child[c].exists
BY DEF TypeOK, Reconciled, Requested, DisableMapped, Created, NoChild, ChildStates

\* Without failures a pass leaves a wanted child with the flag of its spec.
LEMMA ReconciledFlag ==
    ASSUME TypeOK, NEW c \in Names, Wanted(c), Reconciled(c, {}).worker
    PROVE  "disabled" \in Reconciled(c, {}).flags <=> specs[c] = "disabled"
<1> DEFINE r1 == Created(c, FALSE)
           r2 == DisableMapped(c, r1, FALSE)
<1>1. r1 \in ChildStates
  BY DEF TypeOK, Created, NewChild, NoChild, ChildStates
<1>2. Reconciled(c, {}) = r2
  <2>1. ~Reapable(c, r2)
    BY DEF Reapable, Marked
  <2>2. Requested(c, r2, FALSE) = r2
    BY DEF Requested, ToRequest
  <2>3. (<<c, "create">> \in {}) = FALSE /\ (<<c, "flag">> \in {}) = FALSE
    OBVIOUS
  <2> QED BY <2>1, <2>2, <2>3 DEF Reconciled
<1>3. r2.worker => "disabled" \in r2.flags <=> specs[c] = "disabled"
  <2> HIDE DEF r1
  <2> QED BY <1>1 DEF DisableMapped, ChildStates
<1> QED BY <1>2, <1>3

LEMMA ReconcileStep ==
    ASSUME ReconcileInv, NEW failing \in SUBSET Calls, Reconcile(failing)
    PROVE  ReconcileInv'
<1> USE DEF ReconcileInv
<1>1. TypeOK'
  <2>1. child' \in [Names -> ChildStates]
    BY ReconciledType DEF Reconcile
  <2>2. faults' \in 0..MaxFaults
    BY FailingCost, ReconcileAssumption DEF Reconcile, TypeOK
  <2>3. pendingRemoval' \in SUBSET Names /\ toTick' \in SUBSET Names
    BY DEF Reconcile, Marked
  <2> QED BY <2>1, <2>2, <2>3 DEF TypeOK, Reconcile
<1>2. MarksAreCurrent'
  <2>1. ASSUME NEW c \in Names, child'[c].exists, ~Wanted(c)
        PROVE  c \in Marked
    BY <2>1, ReconciledExists DEF Reconcile, Marked, ToRequest
  <2>2. \A c \in Names : Wanted(c)' <=> Wanted(c)
    BY DEF Wanted, Reconcile
  <2>3. \A c \in Marked : c \in Names /\ ~Wanted(c)
    BY DEF Marked
  <2>4. pendingRemoval' = {c \in Marked : child'[c].exists}
    BY DEF Reconcile
  <2> QED BY <2>1, <2>2, <2>3, <2>4 DEF MarksAreCurrent
<1>3. DisabledBeforeTick'
  <2> SUFFICES ASSUME NEW c \in toTick', Wanted(c)', child'[c].worker, faults' = 0
               PROVE  "disabled" \in child'[c].flags <=> specs'[c] = "disabled"
    BY DEF DisabledBeforeTick
  <2>1. c \in Names /\ Wanted(c) /\ specs' = specs
    BY DEF Reconcile, Wanted
  <2>2. failing = {}
    BY FailingCost, ReconcileAssumption DEF Reconcile, TypeOK
  <2>3. child'[c] = Reconciled(c, {})
    BY <2>1, <2>2 DEF Reconcile
  <2> QED BY <2>1, <2>3, ReconciledFlag
<1>4. TickedBetweenPasses'
  BY DEF TickedBetweenPasses, Reconcile
<1> QED BY <1>1, <1>2, <1>3, <1>4

\* The tick of a child disturbs that child only, and takes it off the list.
LEMMA TickedStep ==
    ASSUME ReconcileInv, NEW c \in Names, NEW r \in ChildStates, Ticked(c, r),
           r.exists <=> child[c].exists,
           faults' \in 0..MaxFaults, restarts' \in 0..MaxRestarts,
           escalated' \in SUBSET Names,
           faults' = 0 => faults = 0
    PROVE  ReconcileInv'
<1> USE DEF ReconcileInv
<1>1. TypeOK'
  BY DEF TypeOK, Ticked
<1>2. \A d \in Names : Wanted(d)' <=> Wanted(d)
  BY DEF Wanted, Ticked
<1>3. MarksAreCurrent'
  BY <1>2 DEF MarksAreCurrent, TypeOK, Ticked
<1>4. DisabledBeforeTick'
  <2> SUFFICES ASSUME NEW d \in toTick', Wanted(d)', child'[d].worker, faults' = 0
               PROVE  "disabled" \in child'[d].flags <=> specs'[d] = "disabled"
    BY DEF DisabledBeforeTick
  <2>1. d \in toTick /\ d # c /\ d \in Names
    BY DEF Ticked, TypeOK
  <2>2. child'[d] = child[d] /\ specs' = specs
    BY <2>1 DEF Ticked, TypeOK
  <2> QED BY <1>2, <2>1, <2>2 DEF DisabledBeforeTick
<1>5. TickedBetweenPasses'
  BY DEF TickedBetweenPasses, Ticked
<1> QED BY <1>1, <1>3, <1>4, <1>5

LEMMA TickChildStep ==
    ASSUME ReconcileInv, NEW c \in Names, TickChild(c)
    PROVE  ReconcileInv'
<1> USE DEF ReconcileInv
<1>1. child[c] \in ChildStates
  BY DEF TypeOK
<1>2. /\ faults \in 0..MaxFaults /\ restarts \in 0..MaxRestarts
      /\ escalated \in SUBSET Names
  BY DEF TypeOK
<1>3. /\ Fault => faults' \in 0..MaxFaults /\ faults' # 0
      /\ NoFault => faults' = faults
  BY <1>2, ReconcileAssumption DEF Fault, NoFault
<1>4. ASSUME NEW timedOut \in BOOLEAN, TickQuiet(c, timedOut)
      PROVE  ReconcileInv'
  <2> DEFINE r == [child[c] EXCEPT !.restarting = @ /\ ~timedOut]
  <2>1. r \in ChildStates /\ (r.exists <=> child[c].exists)
    BY <1>1 DEF ChildStates
  <2>2. Ticked(c, r) /\ NoFault /\ UNCHANGED <<escalated, restarts>>
    BY <1>4 DEF TickQuiet
  <2> HIDE DEF r
  <2> QED BY <1>2, <1>3, <2>1, <2>2, TickedStep
<1>5. CASE TickNeedsRestart(c)
  <2>0. restarts' \in 0..MaxRestarts /\ UNCHANGED escalated
    BY <1>2, <1>5, ReconcileAssumption DEF TickNeedsRestart
  <2> DEFINE r == [child[c] EXCEPT !.restarting = TRUE, !.flags = @ \cup {"shutdown"}]
             q == [child[c] EXCEPT !.restarting = TRUE]
  <2>1. /\ r \in ChildStates /\ (r.exists <=> child[c].exists)
        /\ q \in ChildStates /\ (q.exists <=> child[c].exists)
    BY <1>1, <1>5 DEF ChildStates, TickNeedsRestart
  <2>2. (NoFault /\ Ticked(c, r)) \/ (Fault /\ Ticked(c, q))
    BY <1>5 DEF TickNeedsRestart
  <2> HIDE DEF r, q
  <2> QED BY <1>2, <1>3, <2>0, <2>1, <2>2, TickedStep
<1>5a. CASE TickEscalates(c)
  <2> DEFINE r == [child[c] EXCEPT !.flags = @ \cup {"shutdown"}]
  <2>1. r \in ChildStates /\ (r.exists <=> child[c].exists)
    BY <1>1 DEF ChildStates
  <2>2. /\ (NoFault /\ Ticked(c, r)) \/ (Fault /\ Ticked(c, child[c]))
        /\ escalated' \in SUBSET Names /\ restarts' = restarts
    BY <1>2, <1>5a DEF TickEscalates
  <2> HIDE DEF r
  <2> QED BY <1>1, <1>2, <1>3, <2>1, <2>2, TickedStep
<1>6. CASE TickRemoved(c)
  <2> DEFINE r == [child[c] EXCEPT !.worker = FALSE]
  <2>1. r \in ChildStates /\ (r.exists <=> child[c].exists)
    BY <1>1, <1>6 DEF ChildStates, TickRemoved
  <2>2. Ticked(c, r) /\ NoFault /\ UNCHANGED <<escalated, restarts>>
    BY <1>6 DEF TickRemoved
  <2> HIDE DEF r
  <2> QED BY <1>2, <1>3, <2>1, <2>2, TickedStep
<1>7. NewChild \in ChildStates /\ NewChild.exists
  BY DEF NewChild, NoChild, ChildStates
<1>8. CASE TickRestarted(c)
  <2>0. child[c].exists /\ UNCHANGED <<escalated, restarts>>
    BY <1>1, <1>8 DEF TickRestarted, ChildStates
  <2>1. CASE NoFault /\ Ticked(c, NewChild)
    BY <1>2, <1>3, <1>7, <2>0, <2>1, TickedStep
  <2>2. ASSUME NEW retry \in BOOLEAN, Fault,
               Ticked(c, [NoChild EXCEPT !.exists = TRUE, !.readd = retry,
                                         !.flags = child[c].flags \ {"shutdown"}])
        PROVE  ReconcileInv'
    <3> DEFINE r == [NoChild EXCEPT !.exists = TRUE, !.readd = retry,
                                    !.flags = child[c].flags \ {"shutdown"}]
    <3>1. r \in ChildStates /\ r.exists
      BY <1>1 DEF ChildStates, NoChild
    <3>2. Ticked(c, r)
      BY <2>2
    <3> HIDE DEF r
    <3> QED BY <1>2, <1>3, <2>0, <2>2, <3>1, <3>2, TickedStep
  <2> QED BY <1>8, <2>1, <2>2 DEF TickRestarted
<1>9. CASE TickReAdds(c)
  <2>0. child[c].exists /\ UNCHANGED <<escalated, restarts>>
    BY <1>1, <1>9 DEF TickReAdds, ChildStates
  <2>1. (NoFault /\ Ticked(c, NewChild)) \/ (Fault /\ Ticked(c, child[c]))
    BY <1>9 DEF TickReAdds
  <2> QED BY <1>1, <1>2, <1>3, <1>7, <2>0, <2>1, TickedStep
<1> QED BY <1>4, <1>5, <1>5a, <1>6, <1>8, <1>9 DEF TickChild

LEMMA OtherSteps ==
    ASSUME ReconcileInv,
           \/ TickEnds
           \/ \E c \in Names, wish \in Wishes : SpecChanges(c, wish)
           \/ UNCHANGED vars
    PROVE  ReconcileInv'
<1> USE DEF ReconcileInv
<1>1. CASE TickEnds
  BY <1>1 DEF TickEnds, TypeOK, MarksAreCurrent, DisabledBeforeTick,
              TickedBetweenPasses, Wanted
<1>2. ASSUME NEW c \in Names, NEW wish \in Wishes, SpecChanges(c, wish)
      PROVE  ReconcileInv'
  <2>1. toTick' = {} /\ phase' = "reconcile"
    BY <1>2 DEF SpecChanges, TickedBetweenPasses
  <2>2. TypeOK'
    BY <1>2, ReconcileAssumption DEF SpecChanges, TypeOK
  <2> QED BY <2>1, <2>2 DEF MarksAreCurrent, DisabledBeforeTick, TickedBetweenPasses
<1>3. CASE UNCHANGED vars
  BY <1>3 DEF vars, TypeOK, MarksAreCurrent, DisabledBeforeTick,
              TickedBetweenPasses, Wanted
<1> QED BY <1>1, <1>2, <1>3

LEMMA InitHolds == Init => ReconcileInv
<1> SUFFICES ASSUME Init PROVE ReconcileInv
  OBVIOUS
<1>1. NoChild \in ChildStates
  BY DEF NoChild, ChildStates
<1>2. TypeOK
  BY <1>1, ReconcileAssumption DEF Init, TypeOK
<1> QED BY <1>2 DEF Init, ReconcileInv, MarksAreCurrent, DisabledBeforeTick,
                    TickedBetweenPasses

LEMMA Inductive == Spec => []ReconcileInv
<1>1. ReconcileInv /\ [Next]_vars => ReconcileInv'
  BY ReconcileStep, TickChildStep, OtherSteps DEF Next
<1> QED BY <1>1, InitHolds, PTL DEF Spec

\* Every child record is well formed: a restart is pending only for a
\* registered worker and a re-add only for a missing one, whatever fails.
THEOREM TypeCorrect == Spec => []TypeOK
BY Inductive, PTL DEF ReconcileInv

\* reconcileChildren keeps the removal marks in step with the specs: while the
\* children are ticked, the marked ones are the unwanted ones.
THEOREM MarksCurrent == Spec => []MarksAreCurrent
BY Inductive, PTL DEF ReconcileInv

\* applyDisableMapping repairs the flag that a creation or a restart reset
\* before the child is ticked again.
THEOREM DisabledFirst == Spec => []DisabledBeforeTick
BY Inductive, PTL DEF ReconcileInv
=============================================================================
