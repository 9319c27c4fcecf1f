----------------------- MODULE CircuitBreakersProofs -----------------------
(***************************************************************************)
(* Proofs about the circuit breakers, for every tree of supervisors.       *)
(*                                                                         *)
(* An infrastructure circuit is kept honest by the order of a pass: a      *)
(* child's circuits change in the child's tick only, and the parent has    *)
(* looked at them, and closed its own circuit, before it ticks the child.  *)
(* The argument needs that a pass never has a supervisor and one of its    *)
(* descendants on its agenda at the same time.                             *)
(***************************************************************************)
EXTENDS CircuitBreakers, TLAPS

-----------------------------------------------------------------------------
(* The tree.                                                               *)

ClosedDown(S) == \A m \in S : Children(m) \subseteq S

\* The descendants of n: the least set of supervisors that holds its children
\* and, with a supervisor, that one's children.
Below(n) ==
    {m \in Nodes : \A S \in SUBSET Nodes : Children(n) \subseteq S /\ ClosedDown(S) => m \in S}

LEMMA ChildrenAreNodes == \A n : Children(n) \subseteq Nodes
BY DEF Children

LEMMA ChildrenBelow == \A n : Children(n) \subseteq Below(n)
BY DEF Below, Children

LEMMA BelowClosed == \A n : ClosedDown(Below(n))
<1> SUFFICES ASSUME NEW n, NEW m \in Below(n), NEW c \in Children(m)
             PROVE  c \in Below(n)
  BY DEF ClosedDown
<1>1. ASSUME NEW S \in SUBSET Nodes, Children(n) \subseteq S, ClosedDown(S)
      PROVE  c \in S
  BY <1>1 DEF Below, ClosedDown
<1> QED
  BY <1>1, ChildrenAreNodes DEF Below

\* What contains the children of n and is closed contains all descendants.
LEMMA BelowLeast ==
    ASSUME NEW n, NEW S \in SUBSET Nodes, Children(n) \subseteq S, ClosedDown(S)
    PROVE  Below(n) \subseteq S
BY DEF Below

LEMMA BelowTransitive ==
    ASSUME NEW n, NEW c \in Below(n)
    PROVE  Below(c) \subseteq Below(n)
<1>1. Below(n) \in SUBSET Nodes /\ Children(c) \subseteq Below(n) /\ ClosedDown(Below(n))
  BY BelowClosed DEF Below, ClosedDown
<1> QED
  BY <1>1, BelowLeast

\* A descendant's parent is a descendant, or the supervisor itself.
LEMMA ParentOfBelow ==
    ASSUME NEW n, NEW c \in Below(n)
    PROVE  c # Root /\ Parent[c] \in Below(n) \cup {n}
<1> DEFINE S == {m \in Below(n) : m # Root /\ Parent[m] \in Below(n) \cup {n}}
<1>1. S \in SUBSET Nodes
  BY DEF Below
<1>2. Children(n) \subseteq S
  BY ChildrenBelow DEF Children
<1>3. ClosedDown(S)
  BY BelowClosed DEF ClosedDown, Children
<1>4. Below(n) \subseteq S
  BY <1>1, <1>2, <1>3, BelowLeast
<1> QED
  BY <1>4

-----------------------------------------------------------------------------
(* The inductive invariant.                                                *)

\* The panics that do not open the circuit are below the limit.
PanicsCounted ==
    \A n \in Nodes : panics[n] = MaxTickPanics => panicCircuit[n]

\* No supervisor on the agenda is a descendant of one on the agenda.
AgendaIsAntichain == \A m, n \in agenda : m \notin Below(n)

\* A running supervisor whose children are being ticked has passed its check.
ParentsPassed ==
    \A c \in agenda \ {Root} : started[Parent[c]] => ~infraCircuit[Parent[c]]

BreakerInv ==
    /\ TypeOK /\ PanicsCounted
    /\ AgendaIsAntichain /\ ParentsPassed /\ InfraHasCause

LEMMA InitBreakerInv == Init => BreakerInv
BY TreeAssumption DEF Init, BreakerInv, TypeOK, PanicsCounted, AgendaIsAntichain,
   ParentsPassed, InfraHasCause

\* The variables keep their types: a tick that panics is not suppressed, so the
\* count it adds to is below the limit or has just left the window.
LEMMA TypeStep ==
    TypeOK /\ PanicsCounted /\ [Next]_vars => TypeOK' /\ PanicsCounted'
<1> SUFFICES ASSUME TypeOK, PanicsCounted, [Next]_vars PROVE TypeOK' /\ PanicsCounted'
  OBVIOUS
<1> USE TreeAssumption DEF TypeOK, PanicsCounted
<1>1. CASE TickerFires
  BY <1>1 DEF TickerFires
<1>2. ASSUME NEW n \in Nodes, TickSuppressed(n) PROVE TypeOK' /\ PanicsCounted'
  BY <1>2 DEF TickSuppressed
<1>3. ASSUME NEW n \in Nodes, TickGated(n) PROVE TypeOK' /\ PanicsCounted'
  BY <1>3 DEF TickGated, Suppressed
<1>4. ASSUME NEW n \in Nodes, TickCompletes(n) PROVE TypeOK' /\ PanicsCounted'
  <2>1. infraCircuit' \in [Nodes -> BOOLEAN]
    BY <1>4 DEF TickCompletes, InfraAfterCheck
  <2>2. PanicsCounted'
    BY <1>4 DEF TickCompletes, Suppressed
  <2>3. agenda' \in SUBSET Nodes
    BY <1>4, ChildrenAreNodes DEF TickCompletes
  <2> QED
    BY <1>4, <2>1, <2>2, <2>3 DEF TickCompletes
<1>5. ASSUME NEW n \in Nodes, TickPanics(n) PROVE TypeOK' /\ PanicsCounted'
  <2>1. infraCircuit' \in [Nodes -> BOOLEAN]
    BY <1>5 DEF TickPanics, InfraAfterCheck
  <2>2. panics[n] < MaxTickPanics
    BY <1>5 DEF TickPanics, Suppressed
  <2>3. panics' \in [Nodes -> 0..MaxTickPanics]
    BY <1>5, <2>2 DEF TickPanics
  <2>4. panicCircuit' \in [Nodes -> BOOLEAN]
    BY <1>5 DEF TickPanics
  <2>5. PanicsCounted'
    <3>1. panicCircuit'[n] <=> panics[n] + 1 >= MaxTickPanics
      BY <1>5 DEF TickPanics
    <3>2. panics'[n] = panics[n] + 1
      BY <1>5 DEF TickPanics
    <3>3. \A m \in Nodes \ {n} : UNCHANGED <<panics[m], panicCircuit[m]>>
      BY <1>5 DEF TickPanics
    <3> QED
      BY <3>1, <3>2, <3>3
  <2> QED
    BY <1>5, <2>1, <2>3, <2>4, <2>5 DEF TickPanics
<1>5a. ASSUME NEW n \in Nodes, TickReturns(n) PROVE TypeOK' /\ PanicsCounted'
  <2>1. infraCircuit' \in [Nodes -> BOOLEAN]
    BY <1>5a DEF TickReturns, InfraAfterCheck
  <2>2. PanicsCounted'
    BY <1>5a DEF TickReturns, Suppressed
  <2> QED
    BY <1>5a, <2>1, <2>2 DEF TickReturns
<1>6. ASSUME NEW n \in Nodes, PanicExpires(n) PROVE TypeOK' /\ PanicsCounted'
  BY <1>6 DEF PanicExpires
<1>7. ASSUME NEW n \in Nodes, ShutdownBegins(n) PROVE TypeOK' /\ PanicsCounted'
  BY <1>7 DEF ShutdownBegins
<1>8. CASE UNCHANGED vars
  BY <1>8 DEF vars
<1> QED
  BY <1>1, <1>2, <1>3, <1>4, <1>5, <1>5a, <1>6, <1>7, <1>8 DEF Next, Tick

\* A tick that leaves the agenda, and one that is replaced by its children.
LEMMA AntichainStep ==
    ASSUME TypeOK, AgendaIsAntichain, [Next]_vars
    PROVE  AgendaIsAntichain'
<1>1. ASSUME agenda' \subseteq agenda PROVE AgendaIsAntichain'
  BY <1>1 DEF AgendaIsAntichain
<1>2. CASE TickerFires
  <2>1. Root \notin Below(Root)
    BY ParentOfBelow
  <2> QED
    BY <1>2, <2>1 DEF TickerFires, AgendaIsAntichain
<1>3. ASSUME NEW n \in Nodes, TickCompletes(n) PROVE AgendaIsAntichain'
  <2>1. n \in agenda /\ agenda' = (agenda \ {n}) \cup Children(n)
    BY <1>3 DEF TickCompletes
  <2>2. ASSUME NEW c \in Children(n)
        PROVE  c \in Below(n) /\ Below(c) \subseteq Below(n) /\ c # Root /\ Parent[c] = n
    BY ChildrenBelow, BelowTransitive DEF Children
  <2>3. ASSUME NEW x \in agenda', NEW y \in agenda', x \in Below(y) PROVE FALSE
    <3>1. CASE x \in agenda \ {n} /\ y \in agenda \ {n}
      BY <2>3, <3>1 DEF AgendaIsAntichain
    <3>2. CASE x \in agenda \ {n} /\ y \in Children(n)
      BY <2>1, <2>2, <2>3, <3>2 DEF AgendaIsAntichain
    <3>3. CASE x \in Children(n) /\ y \in agenda \ {n}
      <4>1. n \in Below(y) \cup {y}
        BY <2>2, <2>3, <3>3, ParentOfBelow
      <4> QED
        BY <2>1, <3>3, <4>1 DEF AgendaIsAntichain
    <3>4. CASE x \in Children(n) /\ y \in Children(n)
      <4>1. n \in Below(y) \cup {y}
        BY <2>2, <2>3, <3>4, ParentOfBelow
      <4> QED
        BY <2>1, <2>2, <3>4, <4>1 DEF AgendaIsAntichain
    <3> QED
      BY <2>1, <2>3, <3>1, <3>2, <3>3, <3>4
  <2> QED
    BY <2>3 DEF AgendaIsAntichain
<1>4. ASSUME NEW n \in Nodes,
             \/ TickSuppressed(n) \/ TickGated(n) \/ TickReturns(n) \/ TickPanics(n)
             \/ PanicExpires(n) \/ ShutdownBegins(n)
      PROVE  agenda' \subseteq agenda
  BY <1>4 DEF TickSuppressed, TickGated, TickReturns, TickPanics, PanicExpires,
     ShutdownBegins
<1>5. CASE UNCHANGED vars
  BY <1>1, <1>5 DEF vars
<1> QED
  BY <1>1, <1>2, <1>3, <1>4, <1>5 DEF Next, Tick

LEMMA CauseStep ==
    BreakerInv /\ [Next]_vars => ParentsPassed' /\ InfraHasCause'
<1> SUFFICES ASSUME BreakerInv, [Next]_vars PROVE ParentsPassed' /\ InfraHasCause'
  OBVIOUS
<1> USE TreeAssumption DEF BreakerInv, TypeOK
\* The circuits of n change while n is on the agenda and its children are not.
<1>1. ASSUME NEW n \in agenda,
             UNCHANGED started,
             \A m \in Nodes \ {n} : UNCHANGED <<infraCircuit[m], panicCircuit[m]>>,
             started[n] /\ infraCircuit'[n] =>
                \E c \in Children(n) : IsCircuitOpen(c) /\ (c = n => IsCircuitOpen(c)')
      PROVE  InfraHasCause'
  <2> SUFFICES ASSUME NEW m \in Nodes, started'[m], infraCircuit'[m]
               PROVE  \E c \in Children(m) : IsCircuitOpen(c)'
    BY DEF InfraHasCause
  <2>1. CASE m = n
    BY <1>1, <2>1, ChildrenAreNodes DEF IsCircuitOpen
  <2>2. CASE m # n
    <3>1. started[m] /\ infraCircuit[m]
      BY <1>1, <2>2
    <3>2. PICK c \in Children(m) : IsCircuitOpen(c)
      BY <3>1 DEF InfraHasCause
    <3>3. c # n
      BY <3>1, <3>2 DEF ParentsPassed, Children
    <3> QED
      BY <1>1, <3>2, <3>3, ChildrenAreNodes DEF IsCircuitOpen
  <2> QED
    BY <2>1, <2>2
<1>2. CASE TickerFires
  BY <1>2 DEF TickerFires, ParentsPassed, InfraHasCause, IsCircuitOpen
<1>3. ASSUME NEW n \in Nodes, TickSuppressed(n) PROVE ParentsPassed' /\ InfraHasCause'
  BY <1>3 DEF TickSuppressed, ParentsPassed, InfraHasCause, IsCircuitOpen
<1>4. ASSUME NEW n \in Nodes, TickGated(n) PROVE ParentsPassed' /\ InfraHasCause'
  <2>1. \A c \in agenda' \ {Root} : c \in agenda /\ Parent[c] # n
    BY <1>4, ChildrenBelow DEF TickGated, AgendaIsAntichain, Children
  <2>2. ParentsPassed'
    BY <1>4, <2>1 DEF TickGated, ParentsPassed
  <2>3. InfraHasCause'
    BY <1>1, <1>4 DEF TickGated, Gated, IsCircuitOpen
  <2> QED
    BY <2>2, <2>3
<1>5. ASSUME NEW n \in Nodes, TickCompletes(n) PROVE ParentsPassed' /\ InfraHasCause'
  <2>1. started[n] => ~infraCircuit'[n]
    BY <1>5 DEF TickCompletes, InfraAfterCheck
  <2>2. \A m \in Nodes \ {n} : UNCHANGED <<infraCircuit[m], panicCircuit[m]>>
    BY <1>5 DEF TickCompletes, InfraAfterCheck
  <2>3. n \in agenda /\ UNCHANGED started /\ agenda' = (agenda \ {n}) \cup Children(n)
    BY <1>5 DEF TickCompletes
  <2>4. \A c \in Nodes \ {Root} : Parent[c] \in Nodes
    OBVIOUS
  <2>5. ParentsPassed'
    BY <2>1, <2>2, <2>3, <2>4 DEF ParentsPassed, Children
  <2> QED
    BY <1>1, <2>1, <2>2, <2>3, <2>5
<1>6. ASSUME NEW n \in Nodes, TickPanics(n) PROVE ParentsPassed' /\ InfraHasCause'
  <2>1. started[n] => ~infraCircuit'[n]
    BY <1>6 DEF TickPanics, InfraAfterCheck
  <2>2. \A m \in Nodes \ {n} : UNCHANGED <<infraCircuit[m], panicCircuit[m]>>
    BY <1>6 DEF TickPanics, InfraAfterCheck
  <2>3. n \in agenda /\ UNCHANGED started /\ agenda' = agenda \ {n}
    BY <1>6 DEF TickPanics
  <2>4. \A c \in Nodes \ {Root} : Parent[c] \in Nodes
    OBVIOUS
  <2>5. ParentsPassed'
    BY <2>1, <2>2, <2>3, <2>4 DEF ParentsPassed
  <2> QED
    BY <1>1, <2>1, <2>2, <2>3, <2>5
<1>6a. ASSUME NEW n \in Nodes, TickReturns(n) PROVE ParentsPassed' /\ InfraHasCause'
  <2>1. started[n] => ~infraCircuit'[n]
    BY <1>6a DEF TickReturns, InfraAfterCheck
  <2>2. \A m \in Nodes \ {n} : UNCHANGED <<infraCircuit[m], panicCircuit[m]>>
    BY <1>6a DEF TickReturns, InfraAfterCheck
  <2>3. n \in agenda /\ UNCHANGED started /\ agenda' = agenda \ {n}
    BY <1>6a DEF TickReturns
  <2>4. \A c \in Nodes \ {Root} : Parent[c] \in Nodes
    OBVIOUS
  <2>5. ParentsPassed'
    BY <2>1, <2>2, <2>3, <2>4 DEF ParentsPassed
  <2> QED
    BY <1>1, <2>1, <2>2, <2>3, <2>5
<1>7. ASSUME NEW n \in Nodes, PanicExpires(n) PROVE ParentsPassed' /\ InfraHasCause'
  BY <1>7 DEF PanicExpires, ParentsPassed, InfraHasCause, IsCircuitOpen
<1>8. ASSUME NEW n \in Nodes, ShutdownBegins(n) PROVE ParentsPassed' /\ InfraHasCause'
  <2>1. \A m \in Nodes : started'[m] => started[m]
    BY <1>8 DEF ShutdownBegins
  <2>2. UNCHANGED <<panicCircuit, infraCircuit, agenda>>
    BY <1>8 DEF ShutdownBegins
  <2>3. \A c \in agenda \ {Root} : Parent[c] \in Nodes
    OBVIOUS
  <2> QED
    BY <2>1, <2>2, <2>3 DEF ParentsPassed, InfraHasCause, IsCircuitOpen
<1>9. CASE UNCHANGED vars
  BY <1>9 DEF vars, ParentsPassed, InfraHasCause, IsCircuitOpen
<1> QED
  BY <1>2, <1>3, <1>4, <1>5, <1>6, <1>6a, <1>7, <1>8, <1>9 DEF Next, Tick

LEMMA BreakerInvHolds == Spec => []BreakerInv
<1>1. BreakerInv /\ [Next]_vars => BreakerInv'
  BY TypeStep, AntichainStep, CauseStep DEF BreakerInv
<1> QED
  BY <1>1, InitBreakerInv, PTL DEF Spec

\* In every tree of supervisors, an open infrastructure circuit of a running
\* supervisor (infrastructure_health.go CheckChildConsistency) has a child with
\* an open circuit: none is held back by a child that has recovered.
THEOREM OpenCircuitHasCause == Spec => []InfraHasCause
<1>1. BreakerInv => InfraHasCause
  BY DEF BreakerInv
<1> QED
  BY <1>1, BreakerInvHolds, PTL
=============================================================================
