-------------------------- MODULE InstanceMachines --------------------------
(***************************************************************************)
(* The operational state machines of FSM v1 (umh-core/pkg/fsm/<kind>).     *)
(* Every kind of instance has                                              *)
(*   - a table of transitions, given to looplab/fsm by its constructor     *)
(*     (machine.go): <<event, source, destination>>;                       *)
(*   - a decision for one reconcile (reconcile.go): what to call and which *)
(*     event to send, from the state, the desired state and what was       *)
(*     observed.                                                           *)
(* An observation is the set of the kind's predicates that hold (the       *)
(* Is... functions of actions.go).  Each kind has one desired state other  *)
(* than stopped (running, open, up or active), written "up" here.          *)
(***************************************************************************)
EXTENDS Naturals, FiniteSets, Sequences

(* One entry of a table: an event with several source states. *)
Tr(event, sources, dest) == {<<event, s, dest>> : s \in sources}

(* A decision: whether a service operation runs first, and the event sent  *)
(* afterwards.                                                             *)
Wait == [call |-> FALSE, event |-> "none"]
Send(event) == [call |-> FALSE, event |-> event]
CallThen(event) == [call |-> TRUE, event |-> event]
Call == CallThen("none")
(* S6 only: an error whose text marks it as permanent, and no event. *)
Fatal == [call |-> TRUE, event |-> "fatal"]

(* reconcileTransitionToStopped, the same in every kind but s6: stop, then *)
(* wait until the service underneath is seen stopped.                      *)
TowardsStopped(s, seenStopped) ==
    CASE s = "stopped" -> Wait
      [] s = "stopping" -> IF seenStopped THEN Send("stop_done") ELSE Wait
      [] s \notin {"stopped", "stopping"} -> CallThen("stop")

-----------------------------------------------------------------------------
(* S6 service *)

S6Transitions ==
    Tr("start", {"stopped"}, "starting")
    \cup Tr("start_done", {"starting"}, "running")
    \cup Tr("stop", {"running", "starting"}, "stopping")
    \cup Tr("stop_done", {"stopping"}, "stopped")

S6Observations ==
    {o \in SUBSET {"up", "down", "down_ready", "bad_dir", "recreate", "wait"} :
        /\ ~({"up", "down"} \subseteq o)
        /\ "down_ready" \in o => "down" \in o
        /\ ~({"recreate", "wait"} \subseteq o)}

S6ToRunning(s, o) ==
    IF s = "stopped" THEN CallThen("start")
    ELSE IF "down_ready" \in o THEN Call
    ELSE IF s = "starting" /\ "up" \in o THEN Send("start_done") ELSE Wait

S6ToStopped(s, o) ==
    IF s \in {"running", "starting"}
    THEN IF "bad_dir" \in o THEN Send("stop") ELSE CallThen("stop")
    ELSE IF s = "stopping" /\ o \cap {"down", "bad_dir"} # {}
    THEN Send("stop_done") ELSE Wait

(* The directive of Health comes before anything else. *)
S6Decide(s, d, o) ==
    IF "recreate" \in o THEN Fatal
    ELSE IF "wait" \in o THEN Wait
    ELSE IF d = "stopped" THEN S6ToStopped(s, o) ELSE S6ToRunning(s, o)

-----------------------------------------------------------------------------
(* Benthos *)

BenthosStartingStates ==
    {"starting", "starting_config_loading", "starting_waiting_for_healthchecks",
     "starting_waiting_for_service_to_remain_running"}

BenthosTransitions ==
    Tr("start", {"stopped"}, "starting")
    \cup Tr("s6_started", {"starting"}, "starting_config_loading")
    \cup Tr("config_loaded", {"starting_config_loading"},
            "starting_waiting_for_healthchecks")
    \cup Tr("healthchecks_passed", {"starting_waiting_for_healthchecks"},
            "starting_waiting_for_service_to_remain_running")
    \cup Tr("start_done", {"starting_waiting_for_service_to_remain_running"}, "idle")
    \cup Tr("start_failed", BenthosStartingStates, "starting")
    \cup Tr("stop", BenthosStartingStates \cup {"idle", "active", "degraded"}, "stopping")
    \cup Tr("data_received", {"idle"}, "active")
    \cup Tr("no_data_timeout", {"idle", "active"}, "idle")
    \cup Tr("degraded", {"active", "idle"}, "degraded")
    \cup Tr("recovered", {"degraded"}, "idle")
    \cup Tr("stop_done", {"stopping"}, "stopped")

(* "stable": ten seconds of uptime, no error in the log window or metrics. *)
BenthosObservations ==
    {o \in SUBSET {"s6_running", "s6_stopped", "loaded", "stable", "healthy", "activity"} :
        /\ ~({"s6_running", "s6_stopped"} \subseteq o)
        /\ "stable" \in o => "loaded" \in o}

(* The checks of a starting state, in order: a check that an earlier state *)
(* already passed sends the instance back, the state's own check waits.    *)
BenthosStarting(s, o) ==
    CASE s = "starting" ->
            IF "s6_running" \in o THEN Send("s6_started") ELSE Wait
      [] s # "starting" /\ "s6_running" \notin o -> Send("start_failed")
      [] s = "starting_config_loading" /\ "s6_running" \in o ->
            IF "loaded" \in o THEN Send("config_loaded") ELSE Wait
      [] s = "starting_waiting_for_healthchecks" /\ "s6_running" \in o ->
            IF "loaded" \notin o THEN Send("start_failed")
            ELSE IF "healthy" \in o THEN Send("healthchecks_passed") ELSE Wait
      [] s = "starting_waiting_for_service_to_remain_running" /\ "s6_running" \in o ->
            IF ~({"loaded", "healthy"} \subseteq o) THEN Send("start_failed")
            ELSE IF "stable" \in o THEN Send("start_done") ELSE Wait

IsBenthosDegraded(o) == ~({"s6_running", "stable", "healthy"} \subseteq o)

BenthosRunning(s, o) ==
    CASE s \in {"active", "idle"} /\ IsBenthosDegraded(o) -> Send("degraded")
      [] s = "active" /\ ~IsBenthosDegraded(o) ->
            IF "activity" \in o THEN Wait ELSE Send("no_data_timeout")
      [] s = "idle" /\ ~IsBenthosDegraded(o) ->
            IF "activity" \in o THEN Send("data_received") ELSE Wait
      [] s = "degraded" ->
            IF ~IsBenthosDegraded(o) THEN Send("recovered")
            ELSE IF "s6_running" \in o THEN Wait ELSE Call

BenthosToStopped(s, o) == TowardsStopped(s, "s6_stopped" \in o)

BenthosDecide(s, d, o) ==
    CASE d = "stopped" \/ s = "stopping" -> BenthosToStopped(s, o)
      [] d = "up" /\ s = "stopped" -> CallThen("start")
      [] d = "up" /\ s \in BenthosStartingStates -> BenthosStarting(s, o)
      [] d = "up" /\ s \in {"idle", "active", "degraded"} -> BenthosRunning(s, o)

-----------------------------------------------------------------------------
(* Redpanda *)

RedpandaTransitions ==
    Tr("start", {"stopped"}, "starting")
    \cup Tr("start_failed", {"starting"}, "stopped")
    \cup Tr("start_done", {"starting"}, "idle")
    \cup Tr("data_received", {"idle"}, "active")
    \cup Tr("no_data_timeout", {"idle", "active"}, "idle")
    \cup Tr("degraded", {"active", "idle"}, "degraded")
    \cup Tr("recovered", {"degraded"}, "idle")
    \cup Tr("stop", {"starting", "idle", "active", "degraded"}, "stopping")
    \cup Tr("stop_done", {"stopping"}, "stopped")

RedpandaObservations ==
    {o \in SUBSET {"s6_running", "s6_stopped", "started", "healthy", "error_free",
                   "restarted", "activity"} :
        ~({"s6_running", "s6_stopped"} \subseteq o)}

RedpandaStarting(o) ==
    IF {"s6_running", "started"} \subseteq o THEN Send("start_done") ELSE Wait

IsRedpandaDegraded(o) ==
    ~({"s6_running", "healthy", "error_free"} \subseteq o) \/ "restarted" \in o

RedpandaRunning(s, o) ==
    CASE s \in {"active", "idle"} /\ IsRedpandaDegraded(o) -> Send("degraded")
      [] s = "active" /\ ~IsRedpandaDegraded(o) ->
            IF "activity" \in o THEN Wait ELSE Send("no_data_timeout")
      [] s = "idle" /\ ~IsRedpandaDegraded(o) ->
            IF "activity" \in o THEN Send("data_received") ELSE Wait
      [] s = "degraded" ->
            IF ~IsRedpandaDegraded(o) THEN Send("recovered")
            ELSE IF "s6_running" \in o THEN Wait ELSE Call

RedpandaToStopped(s, o) == TowardsStopped(s, "s6_stopped" \in o)

RedpandaDecide(s, d, o) ==
    CASE d = "stopped" \/ s = "stopping" -> RedpandaToStopped(s, o)
      [] d = "up" /\ s = "stopped" -> CallThen("start")
      [] d = "up" /\ s = "starting" -> RedpandaStarting(o)
      [] d = "up" /\ s \in {"idle", "active", "degraded"} -> RedpandaRunning(s, o)

-----------------------------------------------------------------------------
(* The monitors: benthos_monitor, redpanda_monitor, container, agent_monitor. *)
(* The four tables are the same.                                           *)

BenthosMonitorTransitions ==
    Tr("start", {"stopped"}, "starting")
    \cup Tr("start_done", {"starting"}, "degraded")
    \cup Tr("metrics_not_ok", {"active"}, "degraded")
    \cup Tr("metrics_all_ok", {"degraded"}, "active")
    \cup Tr("stop", {"active", "degraded", "starting"}, "stopping")
    \cup Tr("stop_done", {"stopping"}, "stopped")
RedpandaMonitorTransitions == BenthosMonitorTransitions
ContainerTransitions == BenthosMonitorTransitions
AgentTransitions == BenthosMonitorTransitions

MonitorObservations == SUBSET {"healthy"}

BenthosMonitorRunning(s, o) ==
    IF s = "active" /\ "healthy" \notin o THEN Send("metrics_not_ok")
    ELSE IF s = "degraded" /\ "healthy" \in o THEN Send("metrics_all_ok") ELSE Wait

BenthosMonitorToStopped(s) == TowardsStopped(s, TRUE)

(* Starting needs no check and stopping waits for nothing. *)
BenthosMonitorDecide(s, d, o) ==
    CASE d = "stopped" \/ s = "stopping" -> BenthosMonitorToStopped(s)
      [] d = "up" /\ s = "stopped" -> CallThen("start")
      [] d = "up" /\ s = "starting" -> Send("start_done")
      [] d = "up" /\ s \in {"active", "degraded"} -> BenthosMonitorRunning(s, o)

RedpandaMonitorDecide(s, d, o) == BenthosMonitorDecide(s, d, o)

(* container and agent_monitor return at once when the state is the        *)
(* desired one, so the health of an active instance is never looked at.    *)
ContainerDecide(s, d, o) ==
    IF s = "active" /\ d = "up" THEN Wait ELSE BenthosMonitorDecide(s, d, o)
AgentDecide(s, d, o) ==
    IF s = "active" /\ d = "up" THEN Wait ELSE BenthosMonitorDecide(s, d, o)

-----------------------------------------------------------------------------
(* Nmap: one operational state per answer of the port scan. *)

PortStates ==
    {"open", "filtered", "closed", "unfiltered", "open_filtered", "closed_filtered"}

NmapPortTransitions ==
    UNION {Tr("port_" \o p, (PortStates \ {p}) \cup {"degraded"}, p) : p \in PortStates}

NmapTransitions ==
    Tr("start", {"stopped"}, "starting")
    \cup Tr("start_done", {"starting"}, "degraded")
    \cup Tr("nmap_execution_failed", PortStates, "degraded")
    \cup NmapPortTransitions
    \cup Tr("stop", PortStates \cup {"degraded", "starting"}, "stopping")
    \cup Tr("stop_done", {"stopping"}, "stopped")

(* The port state of the last scan, if there is one; "healthy" says that   *)
(* the scan is recent and without an error.                                *)
NmapObservations ==
    {o \in SUBSET (PortStates \cup {"healthy"}) : Cardinality(o \cap PortStates) <= 1}

checkPortState(s, o) ==
    LET ports == (o \cap PortStates) \ {s} IN
    IF ports = {} THEN Wait ELSE Send("port_" \o (CHOOSE p \in ports : TRUE))

NmapRunning(s, o) ==
    IF s \in PortStates /\ "healthy" \notin o
    THEN Send("nmap_execution_failed")
    ELSE checkPortState(s, o)

NmapToStopped(s) == TowardsStopped(s, TRUE)

NmapDecide(s, d, o) ==
    CASE d = "stopped" \/ s = "stopping" -> NmapToStopped(s)
      [] d = "up" /\ s = "stopped" -> CallThen("start")
      [] d = "up" /\ s = "starting" -> Send("start_done")
      [] d = "up" /\ s \in PortStates \cup {"degraded"} -> NmapRunning(s, o)

-----------------------------------------------------------------------------
(* Connection: an nmap instance underneath. *)

ConnectionTransitions ==
    Tr("start", {"stopped"}, "starting")
    \cup Tr("start_done", {"starting"}, "up")
    \cup Tr("probe_down", {"up", "degraded"}, "down")
    \cup Tr("probe_flaky", {"up", "down"}, "degraded")
    \cup Tr("probe_up", {"down", "degraded"}, "up")
    \cup Tr("stop", {"starting", "down", "up", "degraded"}, "stopping")
    \cup Tr("stop_done", {"stopping"}, "stopped")

(* "closed" stands for every port state but open. *)
ConnectionObservations ==
    {o \in SUBSET {"stopped", "degraded", "open", "closed", "flaky"} :
        Cardinality(o \ {"flaky"}) <= 1}

IsConnectionNmapRunning(o) == o \cap {"open", "closed", "degraded"} # {}
IsConnectionDegraded(o) == o \cap {"flaky", "degraded"} # {}
IsConnectionNmapUp(o) == "open" \in o /\ "flaky" \notin o

ConnectionRunning(s, o) ==
    IF s # "degraded" /\ IsConnectionDegraded(o) THEN Send("probe_flaky")
    ELSE IF s # "up" /\ IsConnectionNmapUp(o) THEN Send("probe_up")
    ELSE IF s # "down" /\ "closed" \in o THEN Send("probe_down") ELSE Wait

ConnectionToStopped(s, o) == TowardsStopped(s, "stopped" \in o)

ConnectionDecide(s, d, o) ==
    CASE d = "stopped" \/ s = "stopping" -> ConnectionToStopped(s, o)
      [] d = "up" /\ s = "stopped" -> CallThen("start")
      [] d = "up" /\ s = "starting" ->
            IF IsConnectionNmapRunning(o) THEN Send("start_done") ELSE Wait
      [] d = "up" /\ s \in {"up", "down", "degraded"} -> ConnectionRunning(s, o)

-----------------------------------------------------------------------------
(* Data flow component: a benthos instance underneath. *)

DfcTransitions ==
    Tr("start", {"stopped"}, "starting")
    \cup Tr("start_done", {"starting"}, "idle")
    \cup Tr("benthos_data_received", {"idle"}, "active")
    \cup Tr("benthos_degraded", {"active", "idle"}, "degraded")
    \cup Tr("benthos_no_data_received", {"active"}, "idle")
    \cup Tr("benthos_recovered", {"degraded"}, "idle")
    \cup Tr("start_failed", {"starting"}, "starting_failed")
    \cup Tr("stop", {"starting", "starting_failed", "idle", "active", "degraded"}, "stopping")
    \cup Tr("stop_done", {"stopping"}, "stopped")

DfcObservations ==
    {o \in SUBSET {"benthos_stopped", "benthos_running", "benthos_degraded", "activity"} :
        Cardinality(o \ {"activity"}) <= 1}

DfcRunning(s, o) ==
    CASE s \in {"active", "idle"} /\ "benthos_degraded" \in o -> Send("benthos_degraded")
      [] s = "active" /\ "benthos_degraded" \notin o ->
            IF "activity" \in o THEN Wait ELSE Send("benthos_no_data_received")
      [] s = "idle" /\ "benthos_degraded" \notin o ->
            IF "activity" \in o THEN Send("benthos_data_received") ELSE Wait
      [] s = "degraded" ->
            IF "benthos_degraded" \in o THEN Wait ELSE Send("benthos_recovered")

(* start_failed is never sent: both of its conditions return false.        *)
DfcStarting(o) ==
    IF o \cap {"benthos_running", "benthos_degraded"} # {}
    THEN Send("start_done") ELSE Wait

DfcToStopped(s, o) == TowardsStopped(s, "benthos_stopped" \in o)

DfcDecide(s, d, o) ==
    CASE d = "stopped" \/ s = "stopping" -> DfcToStopped(s, o)
      [] d = "up" /\ s = "stopped" -> CallThen("start")
      [] d = "up" /\ s = "starting" -> DfcStarting(o)
      [] d = "up" /\ s = "starting_failed" -> Wait
      [] d = "up" /\ s \in {"idle", "active", "degraded"} -> DfcRunning(s, o)

-----------------------------------------------------------------------------
(* Protocol converter (bridge): a connection, two data flow components and *)
(* the shared redpanda.                                                    *)

PcStartingStates == {"starting_connection", "starting_redpanda", "starting_dfc"}
PcDegradedStates ==
    {"degraded_connection", "degraded_redpanda", "degraded_dfc", "degraded_other"}
PcRunningStates == PcDegradedStates \cup {"idle", "active"}
PcFailedStates == {"starting_failed_dfc", "starting_failed_dfc_missing"}

PcTransitions ==
    Tr("start", {"stopped"}, "starting_connection")
    \cup Tr("start_connection_up", {"starting_connection"}, "starting_redpanda")
    \cup Tr("start_redpanda_up", {"starting_redpanda"}, "starting_dfc")
    \cup Tr("start_retry", PcStartingStates \cup PcFailedStates, "starting_connection")
    \cup Tr("start_dfc_up", {"starting_dfc"}, "idle")
    \cup Tr("dfc_active", {"idle"}, "active")
    \cup Tr("dfc_idle", {"active"}, "idle")
    \cup Tr("connection_unhealthy", PcRunningStates, "degraded_connection")
    \cup Tr("redpanda_degraded", PcRunningStates, "degraded_redpanda")
    \cup Tr("dfc_degraded", PcRunningStates, "degraded_dfc")
    \cup Tr("degraded_other", PcRunningStates, "degraded_other")
    \cup Tr("recovered", PcDegradedStates, "idle")
    \cup Tr("start_failed_dfc_missing", PcStartingStates, "starting_failed_dfc_missing")
    \cup Tr("start_failed_dfc", PcStartingStates, "starting_failed_dfc")
    \cup Tr("stop", PcStartingStates \cup PcFailedStates \cup PcRunningStates, "stopping")
    \cup Tr("stop_done", {"stopping"}, "stopped")

PcObservations ==
    {o \in SUBSET {"connection", "redpanda", "dfc", "other", "activity", "existing",
                   "all_stopped"} :
        "all_stopped" \in o => o \cap {"connection", "activity"} = {}}

PcStarting(s, o) ==
    CASE s = "starting_connection" ->
            IF "connection" \in o THEN CallThen("start_connection_up") ELSE Call
      [] s \in {"starting_redpanda", "starting_dfc"} /\ "connection" \notin o ->
            Send("start_retry")
      [] s = "starting_redpanda" /\ "connection" \in o ->
            IF "redpanda" \in o THEN Send("start_redpanda_up") ELSE Wait
      [] s = "starting_dfc" /\ "connection" \in o ->
            IF "redpanda" \notin o THEN Send("start_retry")
            ELSE IF "existing" \notin o THEN Send("start_failed_dfc_missing")
            ELSE IF "dfc" \in o THEN CallThen("start_dfc_up") ELSE Call
      [] s = "starting_failed_dfc_missing" ->
            IF "existing" \in o THEN Send("start_retry") ELSE Wait
      [] s = "starting_failed_dfc" -> Wait

(* The event of the first problem in the order of the code's switch, "none" *)
(* when there is none.                                                      *)
PcProblem(o) ==
    IF "other" \in o THEN "degraded_other"
    ELSE IF "connection" \notin o THEN "connection_unhealthy"
    ELSE IF "redpanda" \notin o THEN "redpanda_degraded"
    ELSE IF "dfc" \notin o THEN "dfc_degraded" ELSE "none"

PcProblemState(event) ==
    IF event = "connection_unhealthy" THEN "degraded_connection"
    ELSE IF event = "redpanda_degraded" THEN "degraded_redpanda"
    ELSE IF event = "dfc_degraded" THEN "degraded_dfc" ELSE event

\* Mutant: the event of the problem it is degraded for already is sent again.
PcRunning_Repeats(s, o) ==
    LET problem == PcProblem(o) IN
    IF problem # "none" THEN Send(problem)
    ELSE CASE s = "active" -> IF "activity" \in o THEN Wait ELSE Send("dfc_idle")
           [] s = "idle" -> IF "activity" \in o THEN Send("dfc_active") ELSE Wait
           [] s \in PcDegradedStates -> Send("recovered")

(* A problem the state already names is not reported again: the library     *)
(* answers a transition into the current state with an error.              *)
PcRunning(s, o) ==
    LET problem == PcProblem(o) IN
    IF problem # "none"
    THEN IF s = PcProblemState(problem) THEN Wait ELSE Send(problem)
    ELSE CASE s = "active" -> IF "activity" \in o THEN Wait ELSE Send("dfc_idle")
           [] s = "idle" -> IF "activity" \in o THEN Send("dfc_active") ELSE Wait
           [] s \in PcDegradedStates -> Send("recovered")

PcToStopped(s, o) == TowardsStopped(s, "all_stopped" \in o)

PcDecide(s, d, o) ==
    CASE d = "stopped" \/ s = "stopping" -> PcToStopped(s, o)
      [] d = "up" /\ s = "stopped" -> Send("start")
      [] d = "up" /\ s \in PcStartingStates \cup PcFailedStates -> PcStarting(s, o)
      [] d = "up" /\ s \in PcRunningStates -> PcRunning(s, o)

-----------------------------------------------------------------------------
(* Stream processor: a data flow component and the shared redpanda. *)

SpStartingStates == {"starting_redpanda", "starting_dfc", "starting_failed_dfc"}
SpDegradedStates == {"degraded_redpanda", "degraded_dfc", "degraded_other"}
SpRunningStates == SpDegradedStates \cup {"idle", "active"}

SpTransitions ==
    Tr("start", {"stopped"}, "starting_redpanda")
    \cup Tr("start_redpanda_up", {"starting_redpanda"}, "starting_dfc")
    \cup Tr("start_retry", SpStartingStates, "starting_redpanda")
    \cup Tr("start_dfc_up", {"starting_dfc"}, "idle")
    \cup Tr("dfc_active", {"idle"}, "active")
    \cup Tr("dfc_idle", {"active"}, "idle")
    \cup Tr("redpanda_degraded", SpRunningStates, "degraded_redpanda")
    \cup Tr("dfc_degraded", SpRunningStates, "degraded_dfc")
    \cup Tr("degraded_other", SpRunningStates, "degraded_other")
    \cup Tr("recovered", SpDegradedStates, "idle")
    \cup Tr("start_failed_dfc", {"starting_redpanda", "starting_dfc"}, "starting_failed_dfc")
    \cup Tr("stop", SpStartingStates \cup SpRunningStates, "stopping")
    \cup Tr("stop_done", {"stopping"}, "stopped")

SpObservations ==
    {o \in SUBSET {"redpanda", "dfc", "other", "activity", "dfc_stopped"} :
        /\ "activity" \in o => "dfc" \in o
        /\ ~({"dfc", "dfc_stopped"} \subseteq o)}

SpStarting(s, o) ==
    CASE s = "starting_redpanda" ->
            IF "redpanda" \in o THEN Send("start_redpanda_up") ELSE Wait
      [] s = "starting_dfc" ->
            IF "redpanda" \notin o THEN Send("start_retry")
            ELSE IF "dfc" \in o THEN Send("start_dfc_up") ELSE Wait
      [] s = "starting_failed_dfc" -> Wait

SpProblem(o) ==
    IF "other" \in o THEN "degraded_other"
    ELSE IF "redpanda" \notin o THEN "redpanda_degraded"
    ELSE IF "dfc" \notin o THEN "dfc_degraded" ELSE "none"

SpRunning(s, o) ==
    LET problem == SpProblem(o) IN
    IF problem # "none"
    THEN IF s = PcProblemState(problem) THEN Wait ELSE Send(problem)
    ELSE CASE s = "active" -> IF "activity" \in o THEN Wait ELSE Send("dfc_idle")
           [] s = "idle" -> IF "activity" \in o THEN Send("dfc_active") ELSE Wait
           [] s \in SpDegradedStates -> Send("recovered")

SpToStopped(s, o) == TowardsStopped(s, "dfc_stopped" \in o)

SpDecide(s, d, o) ==
    CASE d = "stopped" \/ s = "stopping" -> SpToStopped(s, o)
      [] d = "up" /\ s = "stopped" -> CallThen("start")
      [] d = "up" /\ s \in SpStartingStates -> SpStarting(s, o)
      [] d = "up" /\ s \in SpRunningStates -> SpRunning(s, o)

-----------------------------------------------------------------------------
(* Topic browser: a benthos instance and the shared redpanda. *)

TbStartingStates == {"starting", "starting_benthos", "starting_redpanda"}
TbRunningStates == {"idle", "active", "degraded_benthos", "degraded_redpanda"}

TbTransitions ==
    Tr("start", {"stopped"}, "starting")
    \cup Tr("benthos_started", {"starting"}, "starting_benthos")
    \cup Tr("redpanda_started", {"starting_benthos"}, "starting_redpanda")
    \cup Tr("start_done", {"starting_redpanda"}, "idle")
    \cup Tr("data_received", {"idle"}, "active")
    \cup Tr("no_data_timeout", {"active"}, "idle")
    \cup Tr("benthos_degraded", {"idle", "active"}, "degraded_benthos")
    \cup Tr("redpanda_degraded", {"idle", "active"}, "degraded_redpanda")
    \cup Tr("startup_failed", {"starting_benthos", "starting_redpanda"}, "starting")
    \cup Tr("recovered", {"degraded_benthos", "degraded_redpanda"}, "idle")
    \cup Tr("stop", TbStartingStates \cup TbRunningStates, "stopping")
    \cup Tr("stop_done", {"stopping"}, "stopped")

TbObservations ==
    {o \in SUBSET {"benthos", "redpanda", "activity", "benthos_stopped"} :
        ~({"benthos", "benthos_stopped"} \subseteq o)}

TbStarting(s, o) ==
    CASE s = "starting" ->
            IF "benthos" \in o THEN Send("benthos_started") ELSE Wait
      [] s # "starting" /\ "benthos" \notin o -> Send("startup_failed")
      [] s = "starting_benthos" /\ "benthos" \in o ->
            IF "redpanda" \in o THEN Send("redpanda_started") ELSE Wait
      [] s = "starting_redpanda" /\ "benthos" \in o ->
            IF "redpanda" \in o THEN Send("start_done") ELSE Send("startup_failed")

TbRunning(s, o) ==
    CASE s \in {"active", "idle"} /\ "benthos" \notin o -> Send("benthos_degraded")
      [] s \in {"active", "idle"} /\ "benthos" \in o ->
            IF "redpanda" \notin o THEN Send("redpanda_degraded")
            ELSE IF s = "active" /\ "activity" \notin o THEN Send("no_data_timeout")
            ELSE IF s = "idle" /\ "activity" \in o THEN Send("data_received")
            ELSE Wait
      [] s = "degraded_benthos" -> IF "benthos" \in o THEN Send("recovered") ELSE Wait
      [] s = "degraded_redpanda" -> IF "redpanda" \in o THEN Send("recovered") ELSE Wait

TbToStopped(s, o) == TowardsStopped(s, "benthos_stopped" \in o)

TbDecide(s, d, o) ==
    CASE d = "stopped" \/ s = "stopping" -> TbToStopped(s, o)
      [] d = "up" /\ s = "stopped" -> CallThen("start")
      [] d = "up" /\ s \in TbStartingStates -> TbStarting(s, o)
      [] d = "up" /\ s \in TbRunningStates -> TbRunning(s, o)

-----------------------------------------------------------------------------
(* The kinds together. *)

TransitionTables ==
    [s6 |-> S6Transitions, benthos |-> BenthosTransitions, redpanda |-> RedpandaTransitions,
     benthos_monitor |-> BenthosMonitorTransitions,
     redpanda_monitor |-> RedpandaMonitorTransitions,
     container |-> ContainerTransitions, agent_monitor |-> AgentTransitions,
     nmap |-> NmapTransitions, connection |-> ConnectionTransitions,
     dataflowcomponent |-> DfcTransitions, protocolconverter |-> PcTransitions,
     streamprocessor |-> SpTransitions, topicbrowser |-> TbTransitions]

ObservationTables ==
    [s6 |-> S6Observations, benthos |-> BenthosObservations, redpanda |-> RedpandaObservations,
     benthos_monitor |-> MonitorObservations, redpanda_monitor |-> MonitorObservations,
     container |-> MonitorObservations, agent_monitor |-> MonitorObservations,
     nmap |-> NmapObservations, connection |-> ConnectionObservations,
     dataflowcomponent |-> DfcObservations, protocolconverter |-> PcObservations,
     streamprocessor |-> SpObservations, topicbrowser |-> TbObservations]

AllKinds == DOMAIN TransitionTables

Decide(k, s, d, o) ==
    CASE k = "s6" -> S6Decide(s, d, o)
      [] k = "benthos" -> BenthosDecide(s, d, o)
      [] k = "redpanda" -> RedpandaDecide(s, d, o)
      [] k = "benthos_monitor" -> BenthosMonitorDecide(s, d, o)
      [] k = "redpanda_monitor" -> RedpandaMonitorDecide(s, d, o)
      [] k = "container" -> ContainerDecide(s, d, o)
      [] k = "agent_monitor" -> AgentDecide(s, d, o)
      [] k = "nmap" -> NmapDecide(s, d, o)
      [] k = "connection" -> ConnectionDecide(s, d, o)
      [] k = "dataflowcomponent" -> DfcDecide(s, d, o)
      [] k = "protocolconverter" -> PcDecide(s, d, o)
      [] k = "streamprocessor" -> SpDecide(s, d, o)
      [] k = "topicbrowser" -> TbDecide(s, d, o)

OperationalStates(k) ==
    {t[2] : t \in TransitionTables[k]} \cup {t[3] : t \in TransitionTables[k]}

(* What a service that does as it is told shows: stopped while the         *)
(* instance waits for it to stop, healthy and busy otherwise.              *)
CooperativeObservation(k, s) ==
    LET down == s \in {"stopping", "stopped"} IN
    CASE k = "s6" -> IF down THEN {"down"} ELSE {"up"}
      [] k = "benthos" ->
            IF down THEN {"s6_stopped"}
            ELSE {"s6_running", "loaded", "stable", "healthy", "activity"}
      [] k = "redpanda" ->
            IF down THEN {"s6_stopped"}
            ELSE {"s6_running", "started", "healthy", "error_free", "activity"}
      [] k \in {"benthos_monitor", "redpanda_monitor", "container", "agent_monitor"} ->
            {"healthy"}
      [] k = "nmap" -> {"open", "healthy"}
      [] k = "connection" -> IF down THEN {"stopped"} ELSE {"open"}
      [] k = "dataflowcomponent" ->
            IF down THEN {"benthos_stopped"} ELSE {"benthos_running", "activity"}
      [] k = "protocolconverter" ->
            IF down THEN {"all_stopped", "existing"}
            ELSE {"connection", "redpanda", "dfc", "activity", "existing"}
      [] k = "streamprocessor" ->
            IF down THEN {"dfc_stopped"} ELSE {"redpanda", "dfc", "activity"}
      [] k = "topicbrowser" ->
            IF down THEN {"benthos_stopped"} ELSE {"benthos", "redpanda", "activity"}

(* Every decision of a kind: <<state, desired state, decision, is it taken *)
(* on the observation of a cooperative service>>.                          *)
DecisionTable(k) ==
    {<<s, d, Decide(k, s, d, o), o = CooperativeObservation(k, s)>> :
        s \in OperationalStates(k), d \in {"up", "stopped"}, o \in ObservationTables[k]}

DecisionTables == [k \in AllKinds |-> DecisionTable(k)]

(* The state a healthy, busy instance of the kind settles in. *)
GoalState(k) ==
    CASE k = "s6" -> "running"
      [] k = "nmap" -> "open"
      [] k = "connection" -> "up"
      [] OTHER -> "active"
=============================================================================
