--------------------------- MODULE CircuitBreakers ---------------------------
(***************************************************************************)
(* The two circuit breakers of a tree of supervisors                       *)
(* (fsmv2/supervisor/reconciliation.go tick, panic_recovery.go,            *)
(* infrastructure_health.go, api.go IsCircuitOpen).                        *)
(*                                                                         *)
(* The root's tickLoop ticks the tree depth first: a supervisor's tick     *)
(* ends in the ticks of its children.  A tick that panics is recovered and *)
(* counted; too many panics in the sliding window open the supervisor's    *)
(* panic circuit, which its own tick closes again once the window is       *)
(* empty.  A supervisor that sees a child with an open circuit opens its   *)
(* infrastructure circuit and skips the rest of its tick, its children's   *)
(* ticks included, unless it is shutting down.                             *)
(*                                                                         *)
(* A definition named Op_Suffix is a mutant of Op.                         *)
(***************************************************************************)
EXTENDS Naturals

CONSTANTS
    Nodes,          \* the supervisors
    Root,           \* the one with the tickLoop
    Parent,         \* of every other supervisor
    MaxTickPanics   \* DefaultMaxTickPanics

ASSUME TreeAssumption ==
    /\ Root \in Nodes
    /\ Parent \in [Nodes \ {Root} -> Nodes]
    /\ MaxTickPanics \in Nat \ {0}

VARIABLES
    panicCircuit,   \* s.panicCircuitOpen
    infraCircuit,   \* s.circuitOpen
    panics,         \* panics the tracker's window still holds
    started,        \* s.started
    agenda          \* supervisors the current pass still has to tick

vars == <<panicCircuit, infraCircuit, panics, started, agenda>>

Children(n) == {c \in Nodes \ {Root} : Parent[c] = n}

TypeOK ==
    /\ panicCircuit \in [Nodes -> BOOLEAN]
    /\ infraCircuit \in [Nodes -> BOOLEAN]
    /\ panics \in [Nodes -> 0..MaxTickPanics]
    /\ started \in [Nodes -> BOOLEAN]
    /\ agenda \in SUBSET Nodes

Init ==
    /\ panicCircuit = [n \in Nodes |-> FALSE]
    /\ infraCircuit = [n \in Nodes |-> FALSE]
    /\ panics = [n \in Nodes |-> 0]
    /\ started = [n \in Nodes |-> TRUE]
    /\ agenda = {}

-----------------------------------------------------------------------------
\* The next tick of the root's ticker.
TickerFires ==
    /\ agenda = {}
    /\ agenda' = {Root}
    /\ UNCHANGED <<panicCircuit, infraCircuit, panics, started>>

IsCircuitOpen(c) == infraCircuit[c] \/ panicCircuit[c]

\* A panic circuit that nothing closes.
Suppressed_ForGood(n) == panicCircuit[n]

\* The panic circuit suppresses the whole tick.
Suppressed(n) == panicCircuit[n] /\ panics[n] > 0

\* A gate without the bypass.
Gated_InShutdownToo(n) == \E c \in Children(n) : IsCircuitOpen(c)

\* A gate that goes by a child's recent panics instead of its circuits.
Gated_OnRecentPanic(n) ==
    started[n] /\ \E c \in Children(n) : infraCircuit[c] \/ panics[c] > 0

\* CheckChildConsistency under the shutdown bypass.
Gated(n) == started[n] /\ \E c \in Children(n) : IsCircuitOpen(c)

TickSuppressed(n) ==
    /\ n \in agenda
    /\ Suppressed(n)
    /\ agenda' = agenda \ {n}
    /\ UNCHANGED <<panicCircuit, infraCircuit, panics, started>>

TickGated(n) ==
    /\ n \in agenda
    /\ ~Suppressed(n)
    /\ Gated(n)
    /\ panicCircuit' = [panicCircuit EXCEPT ![n] = FALSE]
    /\ infraCircuit' = [infraCircuit EXCEPT ![n] = TRUE]
    /\ agenda' = agenda \ {n}
    /\ UNCHANGED <<panics, started>>

\* The infrastructure circuit closes where the check is made and passes; the
\* bypass leaves it as it is.
InfraAfterCheck(n) == [infraCircuit EXCEPT ![n] = @ /\ ~started[n]]

TickCompletes(n) ==
    /\ n \in agenda
    /\ ~Suppressed(n)
    /\ ~Gated(n)
    /\ panicCircuit' = [panicCircuit EXCEPT ![n] = FALSE]
    /\ infraCircuit' = InfraAfterCheck(n)
    /\ agenda' = (agenda \ {n}) \cup Children(n)
    /\ UNCHANGED <<panics, started>>

\* A tick that returns between the check and its children: there is no worker, or
\* the derive, its save, the worker's tick, the validation of the specs or the
\* reconciliation of the children reports an error.
TickReturns(n) ==
    /\ n \in agenda
    /\ ~Suppressed(n)
    /\ ~Gated(n)
    /\ panicCircuit' = [panicCircuit EXCEPT ![n] = FALSE]
    /\ infraCircuit' = InfraAfterCheck(n)
    /\ agenda' = agenda \ {n}
    /\ UNCHANGED <<panics, started>>

\* The derive, the worker's tick or the reconciliation panics; the children are
\* not ticked.
TickPanics(n) ==
    /\ n \in agenda
    /\ ~Suppressed(n)
    /\ ~Gated(n)
    /\ panics' = [panics EXCEPT ![n] = @ + 1]
    /\ panicCircuit' = [panicCircuit EXCEPT ![n] = panics[n] + 1 >= MaxTickPanics]
    /\ infraCircuit' = InfraAfterCheck(n)
    /\ agenda' = agenda \ {n}
    /\ UNCHANGED started

\* The oldest panic leaves the sliding window.
PanicExpires(n) ==
    /\ panics[n] > 0
    /\ panics' = [panics EXCEPT ![n] = @ - 1]
    /\ UNCHANGED <<panicCircuit, infraCircuit, started, agenda>>

\* Shutdown clears started before it cascades to the children.
ShutdownBegins(n) ==
    /\ started[n]
    /\ n # Root => ~started[Parent[n]]
    /\ started' = [started EXCEPT ![n] = FALSE]
    /\ UNCHANGED <<panicCircuit, infraCircuit, panics, agenda>>

-----------------------------------------------------------------------------
Tick(n) ==
    \/ TickSuppressed(n) \/ TickGated(n)
    \/ TickCompletes(n) \/ TickReturns(n) \/ TickPanics(n)

Next ==
    \/ TickerFires
    \/ \E n \in Nodes : Tick(n) \/ PanicExpires(n) \/ ShutdownBegins(n)

Spec == Init /\ [][Next]_vars

\* The ticker fires, a pass comes to its end, and time passes.
FairSpec ==
    /\ Spec
    /\ WF_vars(TickerFires)
    /\ \A n \in Nodes : WF_vars(Tick(n)) /\ WF_vars(PanicExpires(n))

-----------------------------------------------------------------------------
(* Properties                                                              *)

\* An open infrastructure circuit of a running supervisor always has a cause
\* that is still there: a child with an open circuit.  No supervisor is held
\* back by a child that has recovered.
InfraHasCause ==
    \A n \in Nodes :
        started[n] /\ infraCircuit[n] => \E c \in Children(n) : IsCircuitOpen(c)

\* The root's panic circuit closes again.
RootCircuitResets == panicCircuit[Root] ~> ~panicCircuit[Root]

\* The root has a worker whose ticks do not report an error for ever.  While one
\* persists the children are not ticked, in a shutdown no more than before it.
RootTicksComplete == SF_vars(TickCompletes(Root))

\* Once a supervisor is shutting down, an unhealthy subtree no longer keeps it
\* from ticking its children: the shutdown request reaches the workers below,
\* unless the supervisor's own ticks panic or always return early.
ShutdownReachesChildren ==
    RootTicksComplete =>
        \A c \in Children(Root) :
            [](~started[Root] => <>(c \in agenda \/ panics[Root] > 0))

\* What the docs say of every supervisor's panic circuit: it auto-resets when
\* the sliding window drains.  A shutdown or a root that panics or always
\* returns early would excuse a child's circuit that stays open.
ChildCircuitResets ==
    RootTicksComplete =>
        \A n \in Nodes \ {Root} :
            panicCircuit[n] ~> (~panicCircuit[n] \/ ~started[Root] \/ panics[Root] > 0)
=============================================================================
