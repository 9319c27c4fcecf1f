-------------------------- MODULE FsmManagerProofs --------------------------
(***************************************************************************)
(* Theorems about the FSM v1 manager, for any names, versions, backoff,    *)
(* cooldowns and faults, over all kinds of instances: no service is left   *)
(* running behind the manager's back, and the events that the reconcile    *)
(* functions send are ones that the transition tables accept.              *)
(***************************************************************************)
EXTENDS FsmManager, TLAPS

-----------------------------------------------------------------------------
(* The tables.                                                             *)

(* Event e has an entry for state s in table T, and it leaves the state.   *)
Leads(T, s, e) == \E d : d # s /\ <<e, s, d>> \in T

(* The states that appear in table T, as sources and as destinations.      *)
StatesOf(T) == {t[2] : t \in T} \cup {t[3] : t \in T}

(* A decision is one that table T accepts in state s.                      *)
Fits(T, s, decision) ==
    decision.event \notin {"none", "fatal"} => Leads(T, s, decision.event)

LEMMA S6Fits ==
    ASSUME NEW s \in StatesOf(S6Transitions), NEW d \in {"up", "stopped"}, NEW o
    PROVE  Fits(S6Transitions, s, S6Decide(s, d, o))
<1>1. s \in {"stopped", "starting", "running", "stopping"}
  BY DEF StatesOf, Tr, S6Transitions
<1> QED
  BY <1>1 DEF Fits, Leads, Tr, S6Transitions, S6Decide, S6ToRunning, S6ToStopped,
              TowardsStopped, Wait, Send, CallThen, Call, Fatal

LEMMA BenthosFits ==
    ASSUME NEW s \in StatesOf(BenthosTransitions), NEW d \in {"up", "stopped"}, NEW o
    PROVE  Fits(BenthosTransitions, s, BenthosDecide(s, d, o))
<1> DEFINE Running == {"idle", "active", "degraded"}
<1>1. s \in BenthosStartingStates \cup Running \cup {"stopped", "stopping"}
  BY DEF StatesOf, Tr, BenthosTransitions, BenthosStartingStates
<1> USE DEF Fits, Leads, Tr, BenthosTransitions, BenthosStartingStates, Wait, Send, CallThen, Call
<1>2. CASE d = "stopped" \/ s = "stopping"
  BY <1>1, <1>2 DEF BenthosDecide, BenthosToStopped, TowardsStopped
<1>3. CASE d = "up" /\ s = "stopped"
  BY <1>3 DEF BenthosDecide
<1>4. CASE d = "up" /\ s \in BenthosStartingStates
  BY <1>4 DEF BenthosDecide, BenthosStarting
<1>5. CASE d = "up" /\ s \in Running
  BY <1>5 DEF BenthosDecide, BenthosRunning, IsBenthosDegraded
<1> QED
  BY <1>1, <1>2, <1>3, <1>4, <1>5

LEMMA RedpandaFits ==
    ASSUME NEW s \in StatesOf(RedpandaTransitions), NEW d \in {"up", "stopped"}, NEW o
    PROVE  Fits(RedpandaTransitions, s, RedpandaDecide(s, d, o))
<1>1. s \in {"stopped", "starting", "stopping", "idle", "active", "degraded"}
  BY DEF StatesOf, Tr, RedpandaTransitions
<1> QED
  BY <1>1 DEF Fits, Leads, Tr, RedpandaTransitions, RedpandaDecide, RedpandaStarting,
              RedpandaRunning, RedpandaToStopped, IsRedpandaDegraded,
              TowardsStopped, Wait, Send, CallThen, Call, Fatal

LEMMA BenthosMonitorFits ==
    ASSUME NEW s \in StatesOf(BenthosMonitorTransitions), NEW d \in {"up", "stopped"}, NEW o
    PROVE  Fits(BenthosMonitorTransitions, s, BenthosMonitorDecide(s, d, o))
<1>1. s \in {"stopped", "starting", "stopping", "active", "degraded"}
  BY DEF StatesOf, Tr, BenthosMonitorTransitions
<1> QED
  BY <1>1 DEF Fits, Leads, Tr, BenthosMonitorTransitions, BenthosMonitorDecide,
              BenthosMonitorRunning, BenthosMonitorToStopped,
              TowardsStopped, Wait, Send, CallThen, Call, Fatal

LEMMA ConnectionFits ==
    ASSUME NEW s \in StatesOf(ConnectionTransitions), NEW d \in {"up", "stopped"}, NEW o
    PROVE  Fits(ConnectionTransitions, s, ConnectionDecide(s, d, o))
<1>1. s \in {"stopped", "starting", "stopping", "up", "down", "degraded"}
  BY DEF StatesOf, Tr, ConnectionTransitions
<1> QED
  BY <1>1 DEF Fits, Leads, Tr, ConnectionTransitions, ConnectionDecide,
              ConnectionRunning, ConnectionToStopped,
              IsConnectionNmapRunning,
              TowardsStopped, Wait, Send, CallThen, Call, Fatal

LEMMA DfcFits ==
    ASSUME NEW s \in StatesOf(DfcTransitions), NEW d \in {"up", "stopped"}, NEW o
    PROVE  Fits(DfcTransitions, s, DfcDecide(s, d, o))
<1>1. s \in {"stopped", "starting", "starting_failed", "stopping", "idle", "active", "degraded"}
  BY DEF StatesOf, Tr, DfcTransitions
<1> QED
  BY <1>1 DEF Fits, Leads, Tr, DfcTransitions, DfcDecide, DfcRunning, DfcStarting,
              DfcToStopped,
              TowardsStopped, Wait, Send, CallThen, Call, Fatal

LEMMA PcFits ==
    ASSUME NEW s \in StatesOf(PcTransitions), NEW d \in {"up", "stopped"}, NEW o
    PROVE  Fits(PcTransitions, s, PcDecide(s, d, o))
<1> USE DEF PcStartingStates, PcFailedStates, PcRunningStates, PcDegradedStates
<1>1. s \in PcStartingStates \cup PcFailedStates \cup PcRunningStates
              \cup {"stopped", "stopping"}
  BY DEF StatesOf, Tr, PcTransitions
<1>2. \A e : Leads(PcTransitions, s, e) <=>
         \/ e = "start" /\ s = "stopped"
         \/ e = "start_connection_up" /\ s = "starting_connection"
         \/ e = "start_redpanda_up" /\ s = "starting_redpanda"
         \/ e = "start_retry" /\ s # "starting_connection"
              /\ s \in PcStartingStates \cup PcFailedStates
         \/ e = "start_dfc_up" /\ s = "starting_dfc"
         \/ e = "dfc_active" /\ s = "idle"
         \/ e = "dfc_idle" /\ s = "active"
         \/ e = "connection_unhealthy" /\ s \in PcRunningStates \ {"degraded_connection"}
         \/ e = "redpanda_degraded" /\ s \in PcRunningStates \ {"degraded_redpanda"}
         \/ e = "dfc_degraded" /\ s \in PcRunningStates \ {"degraded_dfc"}
         \/ e = "degraded_other" /\ s \in PcRunningStates \ {"degraded_other"}
         \/ e = "recovered" /\ s \in PcDegradedStates
         \/ e = "start_failed_dfc_missing" /\ s \in PcStartingStates
         \/ e = "start_failed_dfc" /\ s \in PcStartingStates
         \/ e = "stop" /\ s \in PcStartingStates \cup PcFailedStates \cup PcRunningStates
         \/ e = "stop_done" /\ s = "stopping"
  BY SMTT(30) DEF Leads, Tr, PcTransitions
<1> USE DEF Fits, Wait, Send, CallThen, Call
<1>3. CASE d = "stopped" \/ s \in {"stopped", "stopping"}
  BY <1>1, <1>2, <1>3 DEF PcDecide, PcToStopped, TowardsStopped
<1>4. CASE d = "up" /\ s \in PcStartingStates \cup PcFailedStates
  BY <1>2, <1>4 DEF PcDecide, PcStarting
<1>5. CASE d = "up" /\ s \in PcRunningStates
  BY <1>2, <1>5 DEF PcDecide, PcRunning, PcProblem, PcProblemState
<1> QED
  BY <1>1, <1>3, <1>4, <1>5

LEMMA SpFits ==
    ASSUME NEW s \in StatesOf(SpTransitions), NEW d \in {"up", "stopped"}, NEW o
    PROVE  Fits(SpTransitions, s, SpDecide(s, d, o))
<1> USE DEF SpStartingStates, SpDegradedStates, SpRunningStates
<1>1. s \in SpStartingStates \cup SpRunningStates \cup {"stopped", "stopping"}
  BY DEF StatesOf, Tr, SpTransitions
<1> USE DEF Fits, Leads, Tr, SpTransitions, Wait, Send, CallThen, Call
<1>2. CASE d = "stopped" \/ s = "stopping"
  BY <1>1, <1>2 DEF SpDecide, SpToStopped, TowardsStopped
<1>3. CASE d = "up" /\ s = "stopped"
  BY <1>3 DEF SpDecide
<1>4. CASE d = "up" /\ s \in SpStartingStates
  BY <1>4 DEF SpDecide, SpStarting
<1>5. CASE d = "up" /\ s \in SpRunningStates
  BY <1>5 DEF SpDecide, SpRunning, SpProblem, PcProblemState
<1> QED
  BY <1>1, <1>2, <1>3, <1>4, <1>5

LEMMA TbFits ==
    ASSUME NEW s \in StatesOf(TbTransitions), NEW d \in {"up", "stopped"}, NEW o
    PROVE  Fits(TbTransitions, s, TbDecide(s, d, o))
<1> USE DEF TbStartingStates, TbRunningStates
<1>1. s \in TbStartingStates \cup TbRunningStates \cup {"stopped", "stopping"}
  BY DEF StatesOf, Tr, TbTransitions
<1> USE DEF Fits, Leads, Tr, TbTransitions, Wait, Send, CallThen, Call
<1>2. CASE d = "stopped" \/ s = "stopping"
  BY <1>1, <1>2 DEF TbDecide, TbToStopped, TowardsStopped
<1>3. CASE d = "up" /\ s = "stopped"
  BY <1>3 DEF TbDecide
<1>4. CASE d = "up" /\ s \in TbStartingStates
  BY <1>4 DEF TbDecide, TbStarting
<1>5. CASE d = "up" /\ s \in TbRunningStates
  BY <1>5 DEF TbDecide, TbRunning
<1> QED
  BY <1>1, <1>2, <1>3, <1>4, <1>5

LEMMA NmapFits ==
    ASSUME NEW s \in StatesOf(NmapTransitions), NEW d \in {"up", "stopped"}, NEW o
    PROVE  Fits(NmapTransitions, s, NmapDecide(s, d, o))
<1> DEFINE Port(p) == Tr("port_" \o p, (PortStates \ {p}) \cup {"degraded"}, p)
<1>b. \A t \in NmapPortTransitions :
         t[2] \in PortStates \cup {"degraded"} /\ t[3] \in PortStates
  BY DEF Tr, NmapPortTransitions
<1>1. s \in PortStates \cup {"stopped", "starting", "stopping", "degraded"}
  BY <1>b DEF StatesOf, Tr, NmapTransitions
<1>2. ASSUME NEW p \in PortStates, s \in (PortStates \ {p}) \cup {"degraded"}
      PROVE  Leads(NmapTransitions, s, "port_" \o p)
  <2>1. <<"port_" \o p, s, p>> \in Port(p)
    BY <1>2 DEF Tr
  <2>2. <<"port_" \o p, s, p>> \in NmapTransitions
    BY <2>1 DEF NmapTransitions, NmapPortTransitions
  <2>3. p # s
    BY <1>2 DEF PortStates
  <2> QED
    BY <2>2, <2>3 DEF Leads
<1>3. /\ s = "stopped" => Leads(NmapTransitions, s, "start")
      /\ s = "starting" => Leads(NmapTransitions, s, "start_done")
      /\ s \in PortStates => Leads(NmapTransitions, s, "nmap_execution_failed")
      /\ s \in PortStates \cup {"degraded", "starting"} => Leads(NmapTransitions, s, "stop")
      /\ s = "stopping" => Leads(NmapTransitions, s, "stop_done")
  BY DEF Leads, Tr, NmapTransitions, PortStates
<1>4. CASE d = "stopped" \/ s \in {"stopped", "stopping", "starting"}
  BY <1>1, <1>3, <1>4
     DEF NmapDecide, NmapToStopped, TowardsStopped, Fits, Wait, Send, CallThen, PortStates
<1>5. CASE d = "up" /\ s \in PortStates \cup {"degraded"}
  <2>1. NmapDecide(s, d, o) = NmapRunning(s, o)
    BY <1>5 DEF NmapDecide, PortStates
  <2>2. CASE s \in PortStates /\ "healthy" \notin o
    BY <2>1, <2>2, <1>3 DEF NmapRunning, Fits, Send
  <2>3. CASE ~(s \in PortStates /\ "healthy" \notin o)
    <3>1. NmapDecide(s, d, o) = checkPortState(s, o)
      BY <2>1, <2>3 DEF NmapRunning
    <3> DEFINE ports == (o \cap PortStates) \ {s}
               port == CHOOSE p \in ports : TRUE
    <3>2. CASE ports = {}
      BY <3>1, <3>2 DEF checkPortState, Fits, Wait
    <3>3. CASE ports # {}
      <4>1. port \in ports
        BY <3>3
      <4>2. Leads(NmapTransitions, s, "port_" \o port)
        BY <4>1, <1>2, <1>5
      <4> QED
        BY <3>1, <3>3, <4>2 DEF checkPortState, Fits, Send
    <3> QED
      BY <3>2, <3>3
  <2> QED
    BY <2>2, <2>3
<1> QED
  BY <1>1, <1>4, <1>5

LEMMA MonitorsFit ==
    ASSUME NEW s \in StatesOf(BenthosMonitorTransitions), NEW d \in {"up", "stopped"}, NEW o
    PROVE  /\ Fits(RedpandaMonitorTransitions, s, RedpandaMonitorDecide(s, d, o))
           /\ Fits(ContainerTransitions, s, ContainerDecide(s, d, o))
           /\ Fits(AgentTransitions, s, AgentDecide(s, d, o))
<1>1. Fits(BenthosMonitorTransitions, s, BenthosMonitorDecide(s, d, o))
  BY BenthosMonitorFits
<1>2. Fits(BenthosMonitorTransitions, s, Wait)
  BY DEF Fits, Wait
<1> QED
  BY <1>1, <1>2 DEF RedpandaMonitorTransitions, RedpandaMonitorDecide, ContainerTransitions,
                    ContainerDecide, AgentTransitions, AgentDecide

(* The entries of the tables. *)
LEMMA Kinds13 ==
    AllKinds = {"s6", "benthos", "redpanda", "benthos_monitor", "redpanda_monitor",
                "container", "agent_monitor", "nmap", "connection", "dataflowcomponent",
                "protocolconverter", "streamprocessor", "topicbrowser"}
  BY DEF AllKinds, TransitionTables

LEMMA Entries ==
    /\ TransitionTables["s6"] = S6Transitions
    /\ TransitionTables["benthos"] = BenthosTransitions
    /\ TransitionTables["redpanda"] = RedpandaTransitions
    /\ TransitionTables["benthos_monitor"] = BenthosMonitorTransitions
    /\ TransitionTables["redpanda_monitor"] = RedpandaMonitorTransitions
    /\ TransitionTables["container"] = ContainerTransitions
    /\ TransitionTables["agent_monitor"] = AgentTransitions
    /\ TransitionTables["nmap"] = NmapTransitions
    /\ TransitionTables["connection"] = ConnectionTransitions
    /\ TransitionTables["dataflowcomponent"] = DfcTransitions
    /\ TransitionTables["protocolconverter"] = PcTransitions
    /\ TransitionTables["streamprocessor"] = SpTransitions
    /\ TransitionTables["topicbrowser"] = TbTransitions
  BY DEF TransitionTables

LEMMA DecideFits ==
    ASSUME NEW k \in AllKinds, NEW s \in OperationalStates(k), NEW d \in {"up", "stopped"}, NEW o
    PROVE  Fits(TransitionTables[k], s, Decide(k, s, d, o))
<1>1. s \in StatesOf(TransitionTables[k])
  BY DEF OperationalStates, StatesOf
<1>2. CASE k = "s6"
  BY <1>1, <1>2, Entries, S6Fits DEF Decide
<1>3. CASE k = "benthos"
  BY <1>1, <1>3, Entries, BenthosFits DEF Decide
<1>4. CASE k = "redpanda"
  BY <1>1, <1>4, Entries, RedpandaFits DEF Decide
<1>5. CASE k = "benthos_monitor"
  BY <1>1, <1>5, Entries, BenthosMonitorFits DEF Decide
<1>6. CASE k = "redpanda_monitor"
  BY <1>1, <1>6, Entries, MonitorsFit DEF Decide, RedpandaMonitorTransitions
<1>7. CASE k = "container"
  BY <1>1, <1>7, Entries, MonitorsFit DEF Decide, ContainerTransitions
<1>8. CASE k = "agent_monitor"
  BY <1>1, <1>8, Entries, MonitorsFit DEF Decide, AgentTransitions
<1>9. CASE k = "nmap"
  BY <1>1, <1>9, Entries, NmapFits DEF Decide
<1>10. CASE k = "connection"
  BY <1>1, <1>10, Entries, ConnectionFits DEF Decide
<1>11. CASE k = "dataflowcomponent"
  BY <1>1, <1>11, Entries, DfcFits DEF Decide
<1>12. CASE k = "protocolconverter"
  BY <1>1, <1>12, Entries, PcFits DEF Decide
<1>13. CASE k = "streamprocessor"
  BY <1>1, <1>13, Entries, SpFits DEF Decide
<1>14. CASE k = "topicbrowser"
  BY <1>1, <1>14, Entries, TbFits DEF Decide
<1> QED
  BY Kinds13, <1>2, <1>3, <1>4, <1>5, <1>6, <1>7, <1>8, <1>9, <1>10, <1>11, <1>12, <1>13, <1>14

(* The tables of the kinds leave the lifecycle states to the base machine. *)
LEMMA TableStates ==
    ASSUME NEW k \in AllKinds
    PROVE  "stopped" \in OperationalStates(k) /\ OperationalStates(k) \cap LifecycleStates = {}
<1> DEFINE Apart(T) ==
             /\ <<"stop_done", "stopping", "stopped">> \in T
             /\ \A t \in T : t[2] \notin LifecycleStates /\ t[3] \notin LifecycleStates
<1>1. Apart(S6Transitions)
  BY DEF Tr, LifecycleStates, S6Transitions
<1>2. Apart(BenthosTransitions)
  BY DEF Tr, LifecycleStates, BenthosTransitions, BenthosStartingStates
<1>3. Apart(RedpandaTransitions)
  BY DEF Tr, LifecycleStates, RedpandaTransitions
<1>4. Apart(BenthosMonitorTransitions)
  BY DEF Tr, LifecycleStates, BenthosMonitorTransitions
<1>5. Apart(NmapTransitions)
  <2>1. \A t \in NmapPortTransitions :
           t[2] \in PortStates \cup {"degraded"} /\ t[3] \in PortStates
    BY DEF Tr, NmapPortTransitions
  <2> QED
    BY <2>1 DEF Tr, LifecycleStates, NmapTransitions, PortStates
<1>6. Apart(ConnectionTransitions)
  BY DEF Tr, LifecycleStates, ConnectionTransitions
<1>7. Apart(DfcTransitions)
  BY DEF Tr, LifecycleStates, DfcTransitions
<1>8. Apart(PcTransitions)
  BY DEF Tr, LifecycleStates, PcTransitions, PcStartingStates, PcFailedStates,
         PcRunningStates, PcDegradedStates
<1>9. Apart(SpTransitions)
  BY DEF Tr, LifecycleStates, SpTransitions, SpStartingStates, SpRunningStates,
         SpDegradedStates
<1>10. Apart(TbTransitions)
  BY DEF Tr, LifecycleStates, TbTransitions, TbStartingStates, TbRunningStates
<1>11. Apart(TransitionTables[k])
  BY Kinds13, Entries, <1>1, <1>2, <1>3, <1>4, <1>5, <1>6, <1>7, <1>8, <1>9, <1>10
     DEF RedpandaMonitorTransitions, ContainerTransitions, AgentTransitions
<1>12. <<"stop_done", "stopping", "stopped">>[3] = "stopped"
  OBVIOUS
<1> QED
  BY <1>11, <1>12 DEF OperationalStates

-----------------------------------------------------------------------------
(* The operations of one instance keep its type, and they leave it in      *)
(* removed only with the service gone.                                     *)

(* Where an instance that is not removed may be after an operation.        *)
Stays(i, j) == i.st # "removed" => j.st # "removed"

LEMMA DestinationStates ==
    ASSUME NEW k \in AllKinds, NEW s, NEW e, NEW d \in Destinations(k, s, e)
    PROVE  /\ d \in LifecycleStates \cup OperationalStates(k)
           /\ s # "removing" => d # "removed"
<1>1. CASE \E t \in TransitionTables[k] : d = t[3]
  BY <1>1, TableStates DEF OperationalStates, LifecycleStates
<1>2. CASE \E t \in LifecycleTransitions : t[2] = s /\ d = t[3]
  BY <1>2, TableStates DEF LifecycleTransitions, LifecycleStates, Tr
<1> QED
  BY <1>1, <1>2 DEF Destinations

LEMMA AgeKeeps ==
    ASSUME NEW k \in AllKinds, NEW i \in Instances(k)
    PROVE  Age(i) \in Instances(k) /\ Age(i).st = i.st
  BY DEF Age, Instances

LEMMA SetErrorKeeps ==
    ASSUME NEW k \in AllKinds, NEW i \in Instances(k), NEW m \in BOOLEAN
    PROVE  SetError(i, m) \in Instances(k) /\ SetError(i, m).st = i.st
<1>1. i.errs # Len(BackoffWaits) =>
         i.errs + 1 \in 0..Len(BackoffWaits) /\ BackoffWaits[i.errs + 1] \in Nat
  BY BackoffAssumption DEF Instances
<1> QED
  BY <1>1, BackoffAssumption DEF SetError, Instances

LEMMA ResetStateKeeps ==
    ASSUME NEW k \in AllKinds, NEW i \in Instances(k)
    PROVE  ResetState(i) \in Instances(k) /\ ResetState(i).st = i.st
<1>1. 0 \in 0..Len(BackoffWaits)
  BY BackoffAssumption
<1> QED
  BY <1>1 DEF ResetState, Instances

LEMMA SendEventKeeps ==
    ASSUME NEW k \in AllKinds, NEW i \in Instances(k), NEW e, NEW f
    PROVE  LET r == SendEvent(i, e, f) IN
           /\ r.inst \in Instances(k) /\ r.ok \in BOOLEAN
           /\ i.st # "removing" => Stays(i, r.inst)
           /\ ~r.ok => r.inst = i
<1> DEFINE dests == Destinations(i.kind, i.st, e)
           dest == CHOOSE d \in dests : TRUE
           j == [i EXCEPT !.st = dest]
<1>1. i.kind = k
  BY DEF Instances
<1>2. CASE f = "event" \/ dests = {}
  <2>1. SendEvent(i, e, f) = [inst |-> i, ok |-> FALSE]
    BY <1>2 DEF SendEvent
  <2> QED
    BY <2>1 DEF Stays
<1>3. CASE f # "event" /\ dests # {}
  <2>1. dest \in dests
    BY <1>3
  <2>2. /\ dest \in LifecycleStates \cup OperationalStates(k)
        /\ i.st # "removing" => dest # "removed"
    BY <2>1, <1>1, DestinationStates
  <2> HIDE DEF dest
  <2>3. j \in Instances(k) /\ j.st = dest
    BY <2>2 DEF Instances
  <2>4. CASE ~(dest = "stopped" /\ i.armed)
    <3>1. SendEvent(i, e, f) = [inst |-> j, ok |-> TRUE]
      BY <1>3, <2>4 DEF SendEvent, dest
    <3> HIDE DEF j
    <3> QED
      BY <3>1, <2>2, <2>3 DEF Stays
  <2>5. CASE dest = "stopped" /\ i.armed /\ f = "callback"
    <3> DEFINE late == [SetError(j, TRUE) EXCEPT !.wait = 0]
    <3>1. SendEvent(i, e, f) = [inst |-> late, ok |-> TRUE]
      BY <1>3, <2>5 DEF SendEvent, dest
    <3>2. SetError(j, TRUE) \in Instances(k) /\ SetError(j, TRUE).st = "stopped"
      BY <2>3, <2>5, SetErrorKeeps
    <3>3. late \in Instances(k) /\ late.st = "stopped"
      BY <3>2 DEF Instances
    <3> HIDE DEF late
    <3> QED
      BY <3>1, <3>3 DEF Stays
  <2>6. CASE dest = "stopped" /\ i.armed /\ f # "callback"
    <3> DEFINE leaving == [j EXCEPT !.st = "removing"]
    <3>1. SendEvent(i, e, f) = [inst |-> leaving, ok |-> TRUE]
      BY <1>3, <2>6 DEF SendEvent, dest
    <3>2. leaving \in Instances(k) /\ leaving.st = "removing"
      BY <2>3 DEF Instances, LifecycleStates
    <3> HIDE DEF leaving
    <3> QED
      BY <3>1, <3>2 DEF Stays
  <2> QED
    BY <2>4, <2>5, <2>6
<1> QED
  BY <1>2, <1>3

LEMMA RemoveKeeps ==
    ASSUME NEW k \in AllKinds, NEW i \in Instances(k), NEW f
    PROVE  LET r == Remove(i, f) IN
           r.inst \in Instances(k) /\ r.ok \in BOOLEAN /\ Stays(i, r.inst)
<1> DEFINE stopped == [i EXCEPT !.desired = "stopped"]
<1>1. stopped \in Instances(k) /\ stopped.st = i.st
  BY DEF Instances
<1>2. CASE i.st \in {"removed", "removing"}
  BY <1>2 DEF Remove, Stays
<1>3. CASE i.st = "stopped"
  <2>1. Remove(i, f) = SendEvent(stopped, "remove", f)
    BY <1>3 DEF Remove
  <2> HIDE DEF stopped
  <2> QED
    BY <2>1, <1>1, <1>3, SendEventKeeps DEF Stays
<1>4. CASE i.st \notin {"removed", "removing", "stopped"}
  <2> DEFINE armed == [stopped EXCEPT !.armed = TRUE]
  <2>1. Remove(i, f) = [inst |-> armed, ok |-> TRUE]
    BY <1>4 DEF Remove
  <2>2. armed \in Instances(k) /\ armed.st = i.st
    BY <1>1 DEF Instances
  <2> HIDE DEF armed
  <2> QED
    BY <2>1, <2>2, <1>4 DEF Stays
<1> QED
  BY <1>2, <1>3, <1>4

(* What a reconcile may report: an instance that leaves, or that is        *)
(* removed, does so with the service gone or given up.                     *)
Effects == {"created", "gone", "abandoned", "same"}

Reported(k, i, r) ==
    /\ r.inst \in Instances(k) /\ r.svc \in Effects
    /\ i.st # "removed" /\ Profiles[k].service /\ (r.err = "permanent" \/ r.inst.st = "removed")
         => r.svc \in {"gone", "abandoned"}

LEMMA HandlePermanentErrorReports ==
    ASSUME NEW k \in AllKinds, NEW i \in Instances(k), NEW f
    PROVE  Reported(k, i, HandlePermanentError(i, f))
<1> DEFINE removal == Remove(ResetState(i), f)
           fails == f = "force" \/ ~Profiles[i.kind].service
           given == [inst |-> i, err |-> "permanent", svc |-> "abandoned"]
           forced == [inst |-> [i EXCEPT !.st = "removed"], err |-> "permanent", svc |-> "gone"]
<1>1. /\ removal.inst \in Instances(k) /\ removal.ok \in BOOLEAN /\ Stays(i, removal.inst)
  BY ResetStateKeeps, RemoveKeeps DEF Stays
<1>2. \A j \in Instances(k) : [j EXCEPT !.st = "removed"] \in Instances(k)
  BY DEF Instances, LifecycleStates
<1>3. CASE IsInShutdownState(i, f)
  <2>1. HandlePermanentError(i, f) = IF fails THEN given ELSE forced
    BY <1>3 DEF HandlePermanentError
  <2>2. Reported(k, i, given)
    BY DEF Reported, Effects
  <2>3. Reported(k, i, forced)
    BY <1>2 DEF Reported, Effects
  <2> QED
    BY <2>1, <2>2, <2>3
<1>4. CASE ~IsInShutdownState(i, f)
  <2> DEFINE kept == [inst |-> removal.inst, err |-> "nil", svc |-> "same"]
             left == [inst |-> removal.inst, err |-> "permanent", svc |-> "abandoned"]
             gone == [inst |-> [removal.inst EXCEPT !.st = "removed"], err |-> "nil", svc |-> "gone"]
  <2>1. HandlePermanentError(i, f) = IF removal.ok THEN kept ELSE IF fails THEN left ELSE gone
    BY <1>4 DEF HandlePermanentError
  <2> HIDE DEF removal
  <2>2. Reported(k, i, kept)
    BY <1>1 DEF Reported, Effects, Stays
  <2>3. Reported(k, i, left)
    BY <1>1 DEF Reported, Effects
  <2>4. Reported(k, i, gone)
    BY <1>1, <1>2 DEF Reported, Effects
  <2> QED
    BY <2>1, <2>2, <2>3, <2>4
<1> QED
  BY <1>3, <1>4

LEMMA AgentHandlePermanentErrorReports ==
    ASSUME NEW i \in Instances("agent_monitor"), NEW f
    PROVE  Reported("agent_monitor", i, AgentHandlePermanentError(i, f))
<1> DEFINE k == "agent_monitor"
           removal == Remove(ResetState(i), f)
<1>1. k \in AllKinds
  BY Kinds13
<1>2. ~Profiles[k].service
  BY DEF Profiles, AgentProfile, Profile
<1>3. removal.inst \in Instances(k)
  BY <1>1, ResetStateKeeps, RemoveKeeps
<1>4. /\ AgentHandlePermanentError(i, f).inst \in {i, removal.inst}
      /\ AgentHandlePermanentError(i, f).svc = "same"
  BY DEF AgentHandlePermanentError
<1> QED
  BY <1>2, <1>3, <1>4 DEF Reported, Effects

(* The same of a transition, whose result says ok or what went wrong.      *)
Moved(k, i, r) ==
    /\ r.inst \in Instances(k) /\ r.svc \in Effects
    /\ r.res \in {"ok", "error", "marked", "removed"}
    /\ i.st # "removed" /\ r.inst.st = "removed" => r.svc = "gone"

LEMMA ReconcileLifecycleStatesMoves ==
    ASSUME NEW k \in AllKinds, NEW i \in Instances(k), NEW f, i.st \in LifecycleStates
    PROVE  Moved(k, i, ReconcileLifecycleStates(i, f))
<1> DEFINE counted == [i EXCEPT
                !.streak = IF i.last # i.st THEN 0
                           ELSE IF @ < MaxTicksInTransientState THEN @ + 1 ELSE @,
                !.last = i.st]
           advance(event, effect) ==
                LET r == SendEvent(counted, event, f) IN
                [inst |-> r.inst, res |-> IF r.ok THEN "ok" ELSE "error", svc |-> effect]
           stay(res) == [inst |-> counted, res |-> res, svc |-> "same"]
<1>1. counted \in Instances(k) /\ counted.st = i.st
  <2> DEFINE streak == IF i.last # i.st THEN 0
                       ELSE IF i.streak < MaxTicksInTransientState THEN i.streak + 1
                       ELSE i.streak
  <2>1. streak \in 0..MaxTicksInTransientState
    BY BackoffAssumption DEF Instances
  <2>2. counted = [i EXCEPT !.streak = streak, !.last = i.st]
    BY DEF Instances
  <2> HIDE DEF streak
  <2> QED
    BY <2>1, <2>2 DEF Instances
<1>2. ReconcileLifecycleStates(i, f) =
        CASE i.st = "to_be_created" ->
                IF f = "call" THEN stay("error") ELSE advance("create", "created")
          [] i.st = "creating" ->
                IF f = "pending" THEN stay("ok") ELSE advance("create_done", "same")
          [] i.st = "removing" ->
                IF f = "call" THEN stay("error")
                ELSE IF f = "pending" THEN stay("ok") ELSE advance("remove_done", "gone")
          [] i.st = "removed" -> stay("removed")
  BY DEF ReconcileLifecycleStates
<1> HIDE DEF counted
<1>3. \A res \in {"ok", "error", "removed"} : Moved(k, i, stay(res))
  BY <1>1 DEF Moved, Effects
<1>4. ASSUME NEW e, NEW effect \in Effects, i.st = "removing" => effect = "gone"
      PROVE  Moved(k, i, advance(e, effect))
  <2>1. LET r == SendEvent(counted, e, f) IN
        /\ r.inst \in Instances(k) /\ r.ok \in BOOLEAN
        /\ i.st \notin {"removing", "removed"} => r.inst.st # "removed"
    BY <1>1, SendEventKeeps DEF Stays
  <2> QED
    BY <1>4, <2>1 DEF Moved
<1> HIDE DEF advance, stay
<1> QED
  BY <1>2, <1>3, <1>4 DEF LifecycleStates, Effects

LEMMA ReconcileStateTransitionMoves ==
    ASSUME NEW k \in AllKinds, NEW i \in Instances(k), NEW decision, NEW f
    PROVE  Moved(k, i, ReconcileStateTransition(i, decision, f))
<1> DEFINE R == ReconcileStateTransition(i, decision, f)
           kept(res) == [inst |-> i, res |-> res, svc |-> "same"]
           r == SendEvent(i, decision.event, f)
           sent == [inst |-> r.inst, res |-> IF r.ok THEN "ok" ELSE "error", svc |-> "same"]
<1>1. \A res \in {"ok", "error", "marked"} : Moved(k, i, kept(res))
  BY DEF Moved, Effects
<1>2. \/ R \in {kept("ok"), kept("error"), kept("marked")}
      \/ i.st \in LifecycleStates /\ R = ReconcileLifecycleStates(i, f)
      \/ i.st \notin LifecycleStates /\ R = sent
  BY DEF ReconcileStateTransition
<1>3. CASE i.st \notin LifecycleStates /\ R = sent
  <2>1. r.inst \in Instances(k) /\ r.ok \in BOOLEAN /\ Stays(i, r.inst)
    BY <1>3, SendEventKeeps DEF LifecycleStates
  <2> HIDE DEF r
  <2>2. Moved(k, i, sent)
    BY <2>1 DEF Moved, Effects, Stays
  <2> QED
    BY <1>3, <2>2
<1> HIDE DEF kept
<1> QED
  BY <1>1, <1>2, <1>3, ReconcileLifecycleStatesMoves

LEMMA ReconcileReports ==
    ASSUME NEW k \in AllKinds, NEW i \in Instances(k), i.st # "removed", NEW decision, NEW f
    PROVE  Reported(k, i, Reconcile(i, decision, f))
<1> DEFINE R == Reconcile(i, decision, f)
           j == Observed(i, f)
           t == ReconcileStateTransition(j, decision, f)
           ended(x, effect) == [inst |-> x, err |-> "nil", svc |-> effect]
<1>1. i.kind = k
  BY DEF Instances
<1>2. ASSUME NEW x \in Instances(k), NEW effect \in Effects, x.st = "removed" => effect = "gone"
      PROVE  Reported(k, i, ended(x, effect))
  BY <1>2 DEF Reported
<1>3. SetError(i, FALSE) \in Instances(k) /\ SetError(i, FALSE).st # "removed"
  BY SetErrorKeeps
<1>4. j \in Instances(k) /\ j.st # "removed"
  BY RemoveKeeps DEF Observed, Stays
<1>5. Moved(k, j, t)
  BY <1>4, ReconcileStateTransitionMoves
<1>6. /\ \A m \in BOOLEAN : SetError(t.inst, m) \in Instances(k)
                            /\ SetError(t.inst, m).st = t.inst.st
      /\ ResetState(t.inst) \in Instances(k) /\ ResetState(t.inst).st = t.inst.st
  BY <1>5, SetErrorKeeps, ResetStateKeeps DEF Moved
<1>7. \/ R = ended(i, "same")
      \/ R = ended(SetError(i, FALSE), "same")
      \/ k = "agent_monitor" /\ R = AgentHandlePermanentError(i, f)
      \/ R = HandlePermanentError(i, f)
      \/ \E x \in {t.inst, SetError(t.inst, FALSE), SetError(t.inst, TRUE), ResetState(t.inst)} :
            R = ended(x, t.svc)
  <2> HIDE DEF t
  <2>1. t.res \in {"ok", "error", "marked", "removed"}
    BY <1>5 DEF Moved
  <2> QED
    BY <2>1, <1>1 DEF Reconcile, t
<1>8. \A x \in {t.inst, SetError(t.inst, FALSE), SetError(t.inst, TRUE), ResetState(t.inst)} :
         x \in Instances(k) /\ t.svc \in Effects /\ (x.st = "removed" => t.svc = "gone")
  BY <1>4, <1>5, <1>6 DEF Moved
<1> HIDE DEF R, t, ended
<1>9. "same" \in Effects
  BY DEF Effects
<1> QED
  BY <1>1, <1>2, <1>3, <1>7, <1>8, <1>9, HandlePermanentErrorReports,
     AgentHandlePermanentErrorReports DEF R

-----------------------------------------------------------------------------
(* The manager.                                                            *)

FsmInv == TypeOK /\ NoForgottenService

LEMMA AbsentIsNoInstance == \A k \in AllKinds : Absent \notin Instances(k)
  BY Kinds13 DEF Absent, Instances

LEMMA KindType == TypeOK => kind \in AllKinds
  BY ManagerAssumption DEF TypeOK

LEMMA AgedAllType ==
    ASSUME TypeOK
    PROVE  /\ AgedAll \in [Names -> Instances(kind) \cup {Absent}]
           /\ \A n \in Names : /\ Has(n) <=> AgedAll[n] # Absent
                               /\ Has(n) => /\ AgedAll[n] = Aged(n) /\ Aged(n) \in Instances(kind)
                                            /\ Aged(n).st = insts[n].st
<1>1. ASSUME NEW n \in Names, Has(n)
      PROVE  Aged(n) \in Instances(kind) /\ Aged(n).st = insts[n].st
  BY <1>1, AgeKeeps, KindType DEF TypeOK, Has, Aged
<1> QED
  BY <1>1, AbsentIsNoInstance, KindType DEF AgedAll, Has

LEMMA CooledType ==
    ASSUME TypeOK
    PROVE  /\ Cooled \in [Operations -> Nat]
           /\ \A op \in Operations : Schedule(op) => next' \in [Operations -> Nat]
<1>1. Cooled \in [Operations -> Nat]
  BY DEF TypeOK, Cooled
<1> QED
  BY <1>1, ManagerAssumption DEF Schedule

(* A result of a reconcile keeps the service in view.                      *)
LEMMA ResultsKeep ==
    ASSUME FsmInv, NEW n \in Names, NEW x \in Results(n)
    PROVE  /\ x.inst \in Instances(kind) \cup {Absent}
           /\ x.svc \in {"none", "present", "abandoned"}
           /\ x.inst = Absent \/ x.inst.st = "removed" => x.svc # "present"
<1> USE DEF FsmInv
<1> DEFINE Kept(y) ==
             /\ y.inst \in Instances(kind) \cup {Absent}
             /\ y.svc \in {"none", "present", "abandoned"}
             /\ y.inst = Absent \/ y.inst.st = "removed" => y.svc # "present"
<1>1. kind \in AllKinds
  BY KindType
<1>2. svc[n] \in {"none", "present", "abandoned"}
  BY DEF TypeOK
<1>3. CASE ~Has(n)
  <2>1. x = [inst |-> Absent, svc |-> svc[n]]
    BY <1>3 DEF Results, Unchanged
  <2> QED
    BY <2>1, <1>2, <1>3 DEF NoForgottenService
<1>4. CASE Has(n) /\ insts[n].st = "removed"
  <2>1. x = [inst |-> Absent, svc |-> svc[n]]
    BY <1>4 DEF Results
  <2> QED
    BY <2>1, <1>2, <1>4 DEF NoForgottenService
<1>5. CASE Has(n) /\ insts[n].st # "removed"
  <2>1. Aged(n) \in Instances(kind) /\ Aged(n).st # "removed"
    BY <1>5, AgedAllType
  <2>2. Kept(Unchanged(n))
    BY <1>2, <1>5, <2>1, <1>1, AbsentIsNoInstance DEF Unchanged
  <2>3. ASSUME NEW decisions, NEW f, NEW y \in ReconcileInstance(n, decisions, f)
        PROVE  Kept(y)
    <3>1. PICK d \in decisions : y \in Outcomes(n, Reconcile(Aged(n), d, f), f)
      BY <2>3 DEF ReconcileInstance
    <3> DEFINE r == Reconcile(Aged(n), d, f)
               after == ServiceAfter(n, r)
               escalated == MaybeEscalateRemoval(r.inst, f)
    <3>2. Reported(kind, Aged(n), r)
      BY <2>1, <1>1, ReconcileReports
    <3>3. escalated \in Instances(kind) /\ Stays(r.inst, escalated)
      BY <3>2, <1>1, RemoveKeeps DEF MaybeEscalateRemoval, Reported, Stays
    <3>4. y \in {[inst |-> escalated, svc |-> after], [inst |-> Absent, svc |-> after],
                 [inst |-> r.inst, svc |-> after]}
          /\ (r.err # "permanent" => y = [inst |-> escalated, svc |-> after])
      BY <3>1 DEF Outcomes
    <3> HIDE DEF r, escalated
    <3>5. /\ after \in {"none", "present", "abandoned"}
          /\ r.err = "permanent" \/ r.inst.st = "removed" => after # "present"
      BY <3>2, <1>2, <2>1 DEF ServiceAfter, Reported, Effects
    <3> HIDE DEF after
    <3>6. r.inst \in Instances(kind)
      BY <3>2 DEF Reported
    <3> QED
      BY <3>3, <3>4, <3>5, <3>6, <1>1, AbsentIsNoInstance DEF Stays
  <2>4. CASE calm
    <3>1. x \in ReconcileInstance(n, {CalmDecision(n)}, "none")
      BY <1>5, <2>4 DEF Results
    <3> QED
      BY <2>3, <3>1
  <2>5. CASE ~calm
    <3>1. x \in FaultyResults(n)
      BY <1>5, <2>5 DEF Results
    <3>2. x = Unchanged(n) \/ \E decisions, f : x \in ReconcileInstance(n, decisions, f)
      BY <3>1 DEF FaultyResults
    <3> QED
      BY <2>2, <2>3, <3>2
  <2> QED
    BY <2>4, <2>5
<1> QED
  BY <1>3, <1>4, <1>5

LEMMA FsmInit == Init => FsmInv
<1> SUFFICES ASSUME Init
             PROVE  FsmInv
  OBVIOUS
<1>1. /\ kind \in Kinds /\ calm \in BOOLEAN
      /\ config \in [Names -> Configs \cup {Absent}]
      /\ insts \in [Names -> Instances(kind) \cup {Absent}]
  BY DEF Init
<1>2. next \in [Operations -> Nat]
  BY DEF Init
<1>3. /\ svc \in [Names -> {"none", "present", "abandoned"}]
      /\ \A n \in Names : svc[n] # "present"
  BY DEF Init
<1> QED
  BY <1>1, <1>2, <1>3 DEF FsmInv, TypeOK, NoForgottenService

LEMMA FsmNext == FsmInv /\ [Next]_vars => FsmInv'
<1> SUFFICES ASSUME FsmInv, [Next]_vars
             PROVE  FsmInv'
  OBVIOUS
<1> USE DEF FsmInv
<1>1. kind \in AllKinds
  BY KindType
<1>2. ASSUME NEW n \in Names, SetConfig(n)
      PROVE  FsmInv'
  BY <1>2 DEF SetConfig, TypeOK, NoForgottenService, Has, Configs
<1>3. CASE CalmDown
  BY <1>3 DEF CalmDown, TypeOK, NoForgottenService, Has, Configs
<1>4. ASSUME NEW n \in Names, ApplyConfig(n)
      PROVE  FsmInv'
  <2> DEFINE made == NewBaseFSMInstance(kind, config[n].want, config[n].ver)
             op == Pending(n)
             old == AgedAll[n]
             new == CASE op = "add" -> made
                      [] op = "update" -> [old EXCEPT !.ver = config[n].ver]
                      [] op = "state" -> [old EXCEPT !.desired = config[n].want]
  <2>1. op \in {"add", "update", "state"} /\ Configured(n)
        /\ (op # "add" => Has(n) /\ insts[n].st # "removed")
    BY <1>4 DEF ApplyConfig, MayDo, Pending
  <2>2. config[n].want \in {"up", "stopped"} /\ config[n].ver \in Versions[kind]
    BY <2>1 DEF TypeOK, Configured, Configs
  <2>3. made \in Instances(kind) /\ made.st # "removed"
    <3>1. 0 \in 0..Len(BackoffWaits) /\ 0 \in 0..MaxTicksInTransientState
      BY BackoffAssumption
    <3> QED
      BY <2>2, <3>1 DEF NewBaseFSMInstance, Instances, LifecycleStates
  <2>4. op # "add" => old \in Instances(kind) /\ old.st # "removed"
    BY <2>1, AgedAllType
  <2>5. new \in Instances(kind) /\ new.st # "removed"
    <3>1. CASE op = "add"
      BY <3>1, <2>3
    <3>2. CASE op # "add"
      <4> HIDE DEF old
      <4> QED
        BY <3>2, <2>1, <2>2, <2>4 DEF Instances
    <3> QED
      BY <3>1, <3>2
  <2>6. insts' = [AgedAll EXCEPT ![n] = new]
    BY <1>4 DEF ApplyConfig
  <2>7. next' \in [Operations -> Nat]
    BY <1>4, <2>1, CooledType DEF ApplyConfig, Operations
  <2> HIDE DEF new, op
  <2>8. insts' \in [Names -> Instances(kind) \cup {Absent}]
    BY <2>5, <2>6, AgedAllType
  <2>9. \A m \in Names : insts'[m] = Absent \/ insts'[m].st = "removed" => svc[m] # "present"
    BY <2>5, <2>6, <1>1, AgedAllType, AbsentIsNoInstance DEF NoForgottenService
  <2> QED
    BY <1>4, <2>7, <2>8, <2>9 DEF ApplyConfig, TypeOK, NoForgottenService, Has, Configs
<1>5. ASSUME NEW n \in Names, NEW f, StartRemoval(n, f)
      PROVE  FsmInv'
  <2> DEFINE removal == Remove(Aged(n), f)
  <2>1. Has(n) /\ insts[n].st # "removed"
    BY <1>5 DEF StartRemoval, Removable
  <2>2. removal.inst \in Instances(kind) /\ removal.inst.st # "removed"
    BY <2>1, <1>1, AgedAllType, RemoveKeeps DEF Stays
  <2>3. insts' = [AgedAll EXCEPT ![n] = removal.inst]
    BY <1>5 DEF StartRemoval
  <2>4. next' \in [Operations -> Nat]
    BY <1>5, CooledType DEF StartRemoval, Operations
  <2> HIDE DEF removal
  <2>5. insts' \in [Names -> Instances(kind) \cup {Absent}]
    BY <2>2, <2>3, AgedAllType
  <2>6. \A m \in Names : insts'[m] = Absent \/ insts'[m].st = "removed" => svc[m] # "present"
    BY <2>2, <2>3, <1>1, AgedAllType, AbsentIsNoInstance DEF NoForgottenService
  <2> QED
    BY <1>5, <2>4, <2>5, <2>6 DEF StartRemoval, TypeOK, NoForgottenService, Has, Configs
<1>6. CASE ReconcileInstances
  <2> DEFINE all == UNION {{<<n, x>> : x \in Results(n)} : n \in Names}
  <2>1. PICK r \in [Names -> {x[2] : x \in all}] :
           /\ \A n \in Names : <<n, r[n]>> \in all
           /\ insts' = [n \in Names |-> r[n].inst]
           /\ svc' = [n \in Names |-> r[n].svc]
    BY <1>6 DEF ReconcileInstances
  <2>2. \A n \in Names : r[n] \in Results(n)
    BY <2>1
  <2>3. \A n \in Names : r[n].inst \in Instances(kind) \cup {Absent}
    BY <2>2, ResultsKeep
  <2>a. \A n \in Names : r[n].svc \in {"none", "present", "abandoned"}
    BY <2>2, ResultsKeep
  <2>b. \A n \in Names : r[n].inst = Absent \/ r[n].inst.st = "removed" => r[n].svc # "present"
    BY <2>2, ResultsKeep
  <2>4. next' \in [Operations -> Nat]
    BY <1>6, CooledType DEF ReconcileInstances
  <2>5. kind' = kind /\ config' = config /\ calm' = calm
    BY <1>6 DEF ReconcileInstances
  <2>6. /\ insts' \in [Names -> Instances(kind) \cup {Absent}]
        /\ svc' \in [Names -> {"none", "present", "abandoned"}]
    BY <2>1, <2>3, <2>a
  <2> QED
    BY <2>1, <2>b, <2>4, <2>5, <2>6 DEF TypeOK, NoForgottenService, Has, Configs
<1>7. CASE ExpiredTick
  <2>1. next' \in [Operations -> Nat]
    BY <1>7, CooledType DEF ExpiredTick
  <2> QED
    BY <1>7, <2>1, AgedAllType DEF ExpiredTick, TypeOK, NoForgottenService, Has, Configs
<1>8. CASE UNCHANGED vars
  BY <1>8 DEF vars, TypeOK, NoForgottenService, Has, Configs
<1> QED
  BY <1>2, <1>3, <1>4, <1>5, <1>6, <1>7, <1>8 DEF Next, Tick

(* The instances of the manager stay in the states of their tables and     *)
(* count no more errors than the backoff allows (pkg/fsm/base_manager.go,  *)
(* internal/fsm/baseFSM.go).                                               *)
THEOREM TypeCorrect == Spec => []TypeOK
<1>1. Init => FsmInv
  BY FsmInit
<1>2. FsmInv /\ [Next]_vars => FsmInv'
  BY FsmNext
<1>3. FsmInv => TypeOK
  BY DEF FsmInv
<1> QED
  BY <1>1, <1>2, <1>3, PTL DEF Spec

(* However creation, removal, permanent failures, escalation and faults    *)
(* interleave: an instance that has finished its removal or has left the   *)
(* manager has no service running behind it.                               *)
THEOREM NoServiceForgotten == Spec => []NoForgottenService
<1>1. Init => FsmInv
  BY FsmInit
<1>2. FsmInv /\ [Next]_vars => FsmInv'
  BY FsmNext
<1>3. FsmInv => NoForgottenService
  BY DEF FsmInv
<1> QED
  BY <1>1, <1>2, <1>3, PTL DEF Spec

(* The decisions of every kind fit its transition table, in every state an *)
(* instance can be in and for everything it may observe there.             *)
LEMMA TypedDecisionsFit == TypeOK => EventAccepted
<1> SUFFICES ASSUME TypeOK, NEW n \in Names, Has(n),
                    NEW d \in Decisions(kind, insts[n].st, insts[n].desired),
                    d.event \notin {"none", "fatal"}
             PROVE  Accepts(kind, insts[n].st, d.event)
  BY DEF EventAccepted
<1> DEFINE s == insts[n].st
           w == insts[n].desired
<1>1. kind \in AllKinds
  BY KindType
<1>2. s \in LifecycleStates \cup OperationalStates(kind) /\ w \in {"up", "stopped"}
  BY DEF TypeOK, Has, Instances
<1>3. s \notin LifecycleStates
  BY DEF Decisions, Wait, Fatal
<1>4. PICK o : d = Decide(kind, s, w, o)
  BY <1>1, <1>3 DEF Decisions, DecisionTables, DecisionTable
<1>5. Leads(TransitionTables[kind], s, d.event)
  BY <1>1, <1>2, <1>3, <1>4, DecideFits DEF Fits
<1>6. PICK dest : dest # s /\ <<d.event, s, dest>> \in TransitionTables[kind]
  BY <1>5 DEF Leads
<1>7. dest \in Destinations(kind, s, d.event)
  <2> DEFINE t == <<d.event, s, dest>>
  <2>1. t[1] = d.event /\ t[2] = s /\ t[3] = dest
    OBVIOUS
  <2>2. t \in TransitionTables[kind]
    BY <1>6
  <2> HIDE DEF t
  <2> QED
    BY <2>1, <2>2, <1>6 DEF Destinations
<1> QED
  BY <1>7 DEF Accepts

(* The reconcile functions and the tables of all kinds agree: no reconcile *)
(* sends an event that looplab/fsm refuses (pkg/fsm/<kind>/reconcile.go,   *)
(* machine.go).                                                            *)
THEOREM EventsAccepted == Spec => []EventAccepted
  BY TypeCorrect, TypedDecisionsFit, PTL
=============================================================================
