---------------------------- MODULE ConfigActions ----------------------------
(***************************************************************************)
(* The actions with which the management console changes an instance       *)
(* (pkg/communicator/actions), each on a goroutine of its own, over the    *)
(* config manager, and the control loop that reads the configuration and   *)
(* makes the running components follow it.                                 *)
(*                                                                         *)
(* An action makes an atomic update (lock, GetConfig, edit, writeConfig,   *)
(* unlock), waits until the running system shows the result, and undoes    *)
(* the update when that takes too long or the component reports a          *)
(* configuration error.  Bridge and stream processor edits first read the  *)
(* configuration outside of the lock; a data model's edit adds a data      *)
(* contract in a second update.                                            *)
(***************************************************************************)
EXTENDS ConfigManager, FiniteSets

CONSTANTS
  Actions,         \* the actions, numbered in the order their messages arrive
  Requests,        \* what they may be asked to do
  FailingConfigs,  \* settings with which a component never becomes active
  MaxEvents        \* bound: actions started and hand edits of the file together

ASSUME ActionsAssumption == IsFiniteSet(Actions) /\ Actions \subseteq Nat \ {0} /\ MaxEvents \in Nat

VARIABLES
  acts,     \* one record per action, see ActIdle
  holder,   \* who holds mutexAtomicUpdate
  applied,  \* the configuration the control loop works with
  runtime   \* the components that run, with the settings they run with

vars == <<file, cache, refresh, drifted, outside, acts, holder, applied, runtime>>

NoOne == 0
Parts == {"dfc", "pc", "sp"}
Flows == {"read", "write"}

Request(do, part, name, to, cfg) ==
  [do |-> do, part |-> part, name |-> name, to |-> to, cfg |-> cfg]

(* What the actions' Parse and Validate let through. *)
ASSUME RequestsAssumption ==
  \A req \in Requests :
    /\ req = Request(req.do, req.part, req.name, req.to, req.cfg)
    /\ \/ req.do = "set file"
       \/ /\ req.do \in {"deploy", "edit", "delete"}
          /\ req.part \in Parts \cup {"dm", "historian"}
    /\ req.do \in {"deploy", "edit"} /\ req.part \in {"pc", "sp"} =>
         DOMAIN req.cfg # {} /\ NoRef \notin {req.name, req.to}

NoRequest == Request("none", "none", "", "", <<>>)
NoEdit == Edit("none", "none", "", "", NoEntry)

NoYaml == CHOOSE y \in convertSpecToYaml(EmptyConfig) : TRUE

(* phase: the request's own update ("do"), the data contract that follows *)
(* it, or its undoing.  next is the configuration to be written, old the  *)
(* entry to go back to, expected the mtime a file edit was based on.      *)
(* before and alone remember the file the action found and whether nobody *)
(* else has written it since; hitch, what spoils the way back to it: an   *)
(* update made to a copy not written as the file ("stale"), a Stat that   *)
(* failed after the write ("stat"), an undoing that failed ("undo").      *)
ActIdle ==
  [stage |-> "idle", phase |-> "do", req |-> NoRequest, edit |-> NoEdit,
   next |-> EmptyConfig, old |-> NoEntry, expected |-> 0, outcome |-> "none",
   before |-> NoYaml, alone |-> FALSE, hitch |-> "none"]

Init ==
  /\ ManagerInit
  /\ acts = [a \in Actions |-> ActIdle]
  /\ holder = NoOne
  /\ applied = InitialConfig
  /\ runtime = [dfc |-> InitialConfig.dfc, pc |-> InitialConfig.pc, sp |-> InitialConfig.sp]

(* An action that is over keeps what FailureLeavesNoTrace asks for.       *)
Done(act, outcome) ==
  IF outcome = "failed"
  THEN [ActIdle EXCEPT !.stage = "done", !.outcome = outcome, !.req = act.req,
                       !.before = act.before, !.alone = act.alone, !.hitch = act.hitch]
  ELSE [ActIdle EXCEPT !.stage = "done", !.outcome = outcome]

(* What an error of an update means: the request failed, also when its    *)
(* undoing did; only a warning for the data contract.                     *)
Failed(act) ==
  CASE act.phase = "do" -> Done(act, "failed")
    [] act.phase = "contract" -> Done(act, "ok")
    [] act.phase = "undo" -> Done([act EXCEPT !.hitch = "undo"], "failed")

(* Everybody but a learns that the file changed under it.                 *)
Others(a, act) ==
  [b \in Actions |-> IF b = a THEN act ELSE [acts[b] EXCEPT !.alone = FALSE]]

Started == {a \in Actions : acts[a].stage # "idle"}
MayStart == Cardinality(Started) + outside < MaxEvents

-----------------------------------------------------------------------------
(* A request's own update, by action.  A deployed bridge or stream         *)
(* processor is its own template.                                          *)
DeployDataflowComponent(req) == Add("dfc", req.name, Entry(NoRef, req.cfg))
EditDataflowComponent(req) == Change("dfc", req.name, req.to, Entry(NoRef, req.cfg))
DeleteDataflowComponent(req) == Delete("dfc", req.name)
DeployProtocolConverter(req) == Add("pc", req.name, Entry(req.name, req.cfg))
DeleteProtocolConverter(req) == Delete("pc", req.name)
DeployStreamProcessor(req) == Add("sp", req.name, Entry(req.name, req.cfg))
DeleteStreamProcessor(req) == Delete("sp", req.name)
AddDataModel(req) == Add("dm", req.name, NoEntry)
EditDataModel(req) == Change("dm", req.name, req.name, NoEntry)
DeleteDataModel(req) == Delete("dm", req.name)
DeployHistorian(req) == Add("historian", req.name, NoEntry)
EditHistorian(req) == Change("historian", req.name, req.name, NoEntry)
DeleteHistorian(req) == Delete("historian", req.name)

FirstEdit(req) ==
  LET for(part, do) == req.part = part /\ req.do = do
  IN CASE for("dfc", "deploy") -> DeployDataflowComponent(req)
       [] for("dfc", "edit") -> EditDataflowComponent(req)
       [] for("dfc", "delete") -> DeleteDataflowComponent(req)
       [] for("pc", "deploy") -> DeployProtocolConverter(req)
       [] for("pc", "delete") -> DeleteProtocolConverter(req)
       [] for("sp", "deploy") -> DeployStreamProcessor(req)
       [] for("sp", "delete") -> DeleteStreamProcessor(req)
       [] for("dm", "deploy") -> AddDataModel(req)
       [] for("dm", "edit") -> EditDataModel(req)
       [] for("dm", "delete") -> DeleteDataModel(req)
       [] for("historian", "deploy") -> DeployHistorian(req)
       [] for("historian", "edit") -> EditHistorian(req)
       [] for("historian", "delete") -> DeleteHistorian(req)

ReadsFirst(req) == req.do = "edit" /\ req.part \in {"pc", "sp"}

(* handleAction starts a goroutine per message.  The console based a file *)
(* edit on the content and mtime it got from get-config-file.             *)
HandleActionMessage(a, req) ==
  /\ acts[a].stage = "idle"
  /\ MayStart /\ {b \in Actions : b < a} \subseteq Started
  /\ acts' = [acts EXCEPT ![a] =
       [@ EXCEPT !.req = req,
                 !.stage = IF req.do = "set file" THEN "set file"
                           ELSE IF ReadsFirst(req) THEN "mutate" ELSE "lock",
                 !.edit = IF req.do = "set file" \/ ReadsFirst(req) THEN NoEdit ELSE FirstEdit(req),
                 !.expected = IF req.do = "set file" THEN cache.mtime ELSE 0]]
  /\ UNCHANGED <<managerVars, holder, applied, runtime>>

(* An edit keeps the flows the request does not mention.                  *)
Merged(old, new) == [i \in DOMAIN old |-> IF new[i] = None THEN old[i] ELSE new[i]]

(* The flows a failed deployment of a bridge stops; the whole bridge when *)
(* none of them is active.                                                *)
flowsToStop(entry) ==
  LET active == Flows \ entry.stopped
  IN IF active = {} THEN {{"bridge"}} ELSE SUBSET active \ {{}}

(* The update that follows a read outside of the lock, given the entry    *)
(* read: applyMutation of the edit actions (an edited bridge or stream     *)
(* processor becomes its own template; the stream processor with the new   *)
(* name is the one that is changed), the stop of a bridge whose deployment *)
(* failed, and the contract for a model's latest version.                  *)
EditProtocolConverter(req, entry) ==
  Change("pc", req.name, req.to,
         [entry EXCEPT !.ref = req.to, !.cfg = Merged(entry.cfg, req.cfg)])

EditStreamProcessor(req, entry) ==
  Change("sp", req.to, req.to, [entry EXCEPT !.ref = req.to, !.cfg = req.cfg])

StopFlows(req, entry) ==
  {Change("pc", req.name, req.name, [entry EXCEPT !.stopped = @ \cup s]) : s \in flowsToStop(entry)}

AddContract(req, version) == Edit("add", "dc", req.name, version, NoEntry)

Mutations(act, c) ==
  LET req == act.req
      part == c[req.part]
  IN IF req.name \notin DOMAIN part THEN {}
     ELSE CASE act.phase = "contract" -> {AddContract(req, part[req.name])}
            [] act.phase = "undo" -> StopFlows(req, part[req.name])
            [] act.phase = "do" /\ req.part = "pc" -> {EditProtocolConverter(req, part[req.name])}
            [] act.phase = "do" /\ req.part = "sp" -> {EditStreamProcessor(req, part[req.name])}

(* Without a result the action fails; a data model whose new version is   *)
(* not found, and a failed deployment with nothing left to stop, fail too.*)
Mutate(a) ==
  /\ acts[a].stage = "mutate"
  /\ LET ms == IF GetConfig.err THEN {} ELSE Mutations(acts[a], GetConfig.config)
     IN IF ms = {}
        THEN acts' = [acts EXCEPT ![a] = Done(@, "failed")]
        ELSE \E e \in ms : acts' = [acts EXCEPT ![a] = [@ EXCEPT !.stage = "lock", !.edit = e]]
  /\ StartRefresh
  /\ UNCHANGED <<file, cache, drifted, outside, holder, applied, runtime>>

-----------------------------------------------------------------------------
(* The atomic update.                                                      *)

(* Deploying the historian that is configured already succeeds at once.   *)
Redeployed(e, c) == e.part = "historian" /\ e.op = "add" /\ c.historian = e.name

OldEntry(e, c) ==
  IF e.op = "edit" /\ e.part \in Parts /\ e.name \in DOMAIN c[e.part]
  THEN c[e.part][e.name] ELSE NoEntry

Staleness(hitch) == IF CopyMatches THEN hitch ELSE "stale"

EditResults(act) == IF GetConfig.err THEN {} ELSE Apply(act.edit, GetConfig.config)

(* With the lock taken: the configuration could not be read, the edit was *)
(* refused, or there is nothing to do; the lock is released again.        *)
LockAndReturn(a) ==
  /\ acts[a].stage = "lock" /\ holder = NoOne
  /\ \/ /\ EditResults(acts[a]) = {}
        /\ acts' = [acts EXCEPT ![a] = Failed(@)]
     \/ /\ ~GetConfig.err /\ Redeployed(acts[a].edit, GetConfig.config)
        /\ acts' = [acts EXCEPT ![a] = Done(@, "ok")]
  /\ StartRefresh
  /\ UNCHANGED <<file, cache, drifted, outside, holder, applied, runtime>>

\* Mutant: the update does not wait for mutexAtomicUpdate.
LockAndEdit_NoLock(a) ==
  /\ acts[a].stage = "lock"
  /\ ~Redeployed(acts[a].edit, GetConfig.config)
  /\ \E c \in EditResults(acts[a]) :
       acts' = [acts EXCEPT ![a] =
         IF @.phase = "do"
         THEN [@ EXCEPT !.stage = "write", !.next = c, !.old = OldEntry(acts[a].edit, GetConfig.config),
                        !.before = file.yaml, !.alone = TRUE, !.hitch = Staleness(acts[a].hitch)]
         ELSE [@ EXCEPT !.stage = "write", !.next = c, !.hitch = Staleness(acts[a].hitch)]]
  /\ holder' = a
  /\ StartRefresh
  /\ UNCHANGED <<file, cache, drifted, outside, applied, runtime>>

LockAndEdit(a) ==
  /\ acts[a].stage = "lock" /\ holder = NoOne
  /\ ~Redeployed(acts[a].edit, GetConfig.config)
  /\ \E c \in EditResults(acts[a]) :
       acts' = [acts EXCEPT ![a] =
         IF @.phase = "do"
         THEN [@ EXCEPT !.stage = "write", !.next = c, !.old = OldEntry(acts[a].edit, GetConfig.config),
                        !.before = file.yaml, !.alone = TRUE, !.hitch = Staleness(acts[a].hitch)]
         ELSE [@ EXCEPT !.stage = "write", !.next = c, !.hitch = Staleness(acts[a].hitch)]]
  /\ holder' = a
  /\ StartRefresh
  /\ UNCHANGED <<file, cache, drifted, outside, applied, runtime>>

(* What follows a successful update: the contract of a data model, the    *)
(* wait for the running system (which the request may have waived), or    *)
(* the end.                                                               *)
AfterWrite(act) ==
  LET for(part, do) == act.req.part = part /\ act.req.do = do
      waiting == [act EXCEPT !.stage = "wait", !.next = EmptyConfig]
  IN IF act.phase = "contract" THEN {Done(act, "ok")}
     ELSE IF act.phase = "undo" THEN {Done(act, "failed")}
     ELSE IF for("dm", "deploy")
     THEN {[act EXCEPT !.phase = "contract", !.stage = "lock", !.next = EmptyConfig,
                       !.edit = AddContract(act.req, 1)]}
     ELSE IF for("dm", "edit")
     THEN {[act EXCEPT !.phase = "contract", !.stage = "mutate", !.next = EmptyConfig]}
     ELSE IF act.req.part \notin Parts THEN {Done(act, "ok")}
     ELSE IF act.req.do = "delete" THEN {waiting} ELSE {waiting, Done(act, "ok")}

WriteAndUnlock(a) ==
  /\ acts[a].stage = "write"
  /\ \E y \in convertSpecToYaml(acts[a].next) : writeConfig(acts[a].next, y)
  /\ \E act \in AfterWrite(acts[a]) : acts' = Others(a, act)
  /\ holder' = NoOne
  /\ UNCHANGED <<applied, runtime>>

\* Mutant: the error path returns with the lock held.
WriteFails_KeepsLock(a) ==
  /\ acts[a].stage = "write"
  /\ acts' = [acts EXCEPT ![a] = Failed(@)]
  /\ UNCHANGED <<managerVars, holder, applied, runtime>>

(* The conversion refuses the configuration, or the file is not written.  *)
WriteFails(a) ==
  /\ acts[a].stage = "write"
  /\ acts' = [acts EXCEPT ![a] = Failed(@)]
  /\ holder' = NoOne
  /\ UNCHANGED <<managerVars, applied, runtime>>

(* The file is written and the action is told that it was not.            *)
StatFails(a) ==
  /\ acts[a].stage = "write"
  /\ \E y \in convertSpecToYaml(acts[a].next) : writeConfigStatFails(y)
  /\ acts' = Others(a, Failed([acts[a] EXCEPT !.hitch = "stat"]))
  /\ holder' = NoOne
  /\ UNCHANGED <<applied, runtime>>

-----------------------------------------------------------------------------
(* Waiting for the running system.                                         *)

Shows(cfg, wanted) == \A i \in DOMAIN wanted : wanted[i] \in {None, cfg[i]}

Active(entry) == entry.cfg \notin FailingConfigs

(* Edits of data flow components and bridges compare the settings that    *)
(* run; deployments and stream processor edits only look at the state.    *)
DataflowComponentDeployed(n) == n \in DOMAIN runtime.dfc /\ Active(runtime.dfc[n])
DataflowComponentEdited(n, cfg) ==
  n \in DOMAIN runtime.dfc /\ Active(runtime.dfc[n]) /\ Shows(runtime.dfc[n].cfg, cfg)
DataflowComponentRemoved(n) == n \notin DOMAIN runtime.dfc
ProtocolConverterDeployed(n) == n \in DOMAIN runtime.pc /\ Active(runtime.pc[n])
ProtocolConverterEdited(n, cfg) ==
  n \in DOMAIN runtime.pc /\ Active(runtime.pc[n]) /\ Shows(runtime.pc[n].cfg, cfg)
ProtocolConverterRemoved(n) == n \notin DOMAIN runtime.pc
StreamProcessorDeployed(n) == n \in DOMAIN runtime.sp /\ Active(runtime.sp[n])
StreamProcessorEdited(n) == n \in DOMAIN runtime.sp /\ Active(runtime.sp[n])
StreamProcessorRemoved(n) == n \notin DOMAIN runtime.sp

Accepted(req) ==
  LET for(part, do) == req.part = part /\ req.do = do
  IN \/ for("dfc", "deploy") /\ DataflowComponentDeployed(req.name)
     \/ for("dfc", "edit") /\ DataflowComponentEdited(req.to, req.cfg)
     \/ for("dfc", "delete") /\ DataflowComponentRemoved(req.name)
     \/ for("pc", "deploy") /\ ProtocolConverterDeployed(req.name)
     \/ for("pc", "edit") /\ ProtocolConverterEdited(req.to, req.cfg)
     \/ for("pc", "delete") /\ ProtocolConverterRemoved(req.name)
     \/ for("sp", "deploy") /\ StreamProcessorDeployed(req.name)
     \/ for("sp", "edit") /\ StreamProcessorEdited(req.to)
     \/ for("sp", "delete") /\ StreamProcessorRemoved(req.name)

Await(a) ==
  /\ acts[a].stage = "wait" /\ Accepted(acts[a].req)
  /\ acts' = [acts EXCEPT ![a] = Done(@, "ok")]
  /\ UNCHANGED <<managerVars, holder, applied, runtime>>

\* Mutant: a renamed component is looked for under its old name.
Undo_OldName(act) ==
  CASE act.req.do = "delete" -> Done(act, "failed")
    [] act.req.do = "deploy" /\ act.req.part = "pc" ->
         [act EXCEPT !.phase = "undo", !.stage = "mutate"]
    [] act.req.do = "deploy" /\ act.req.part # "pc" ->
         [act EXCEPT !.phase = "undo", !.stage = "lock",
                     !.edit = Delete(act.req.part, act.req.name)]
    [] act.req.do = "edit" ->
         [act EXCEPT !.phase = "undo", !.stage = "lock",
                     !.edit = Change(act.req.part, act.edit.to, act.edit.to, act.old)]

(* The way back: a deployed component is removed by its name, an edited   *)
(* one gets the old entry and name back, a bridge that was deployed only  *)
(* has its flows stopped, and a deletion stays.                           *)
Undo(act) ==
  CASE act.req.do = "delete" -> Done(act, "failed")
    [] act.req.do = "deploy" /\ act.req.part = "pc" ->
         [act EXCEPT !.phase = "undo", !.stage = "mutate"]
    [] act.req.do = "deploy" /\ act.req.part # "pc" ->
         [act EXCEPT !.phase = "undo", !.stage = "lock",
                     !.edit = Delete(act.req.part, act.req.name)]
    [] act.req.do = "edit" ->
         [act EXCEPT !.phase = "undo", !.stage = "lock",
                     !.edit = Change(act.req.part, act.edit.to, act.edit.name, act.old)]

(* The timeout, or a configuration error in the component's log.          *)
Expire(a) ==
  /\ acts[a].stage = "wait"
  /\ acts' = [acts EXCEPT ![a] = Undo(@)]
  /\ UNCHANGED <<managerVars, holder, applied, runtime>>

(* set-config-file, whose content was edited from the one of `expected`.  *)
SetConfigFile(a) ==
  /\ acts[a].stage = "set file"
  /\ \/ /\ \E y \in HandEdits : WriteYAMLConfigFromString(y, acts[a].expected)
        /\ acts' = Others(a, Done(acts[a], "ok"))
     \/ /\ ~SameSecond(file.mtime, acts[a].expected)
        /\ acts' = [acts EXCEPT ![a] = Done(@, "failed")]
        /\ UNCHANGED managerVars
  /\ UNCHANGED <<holder, applied, runtime>>

-----------------------------------------------------------------------------
(* The control loop: a tick takes the configuration unless there is an     *)
(* error; each manager then brings its components in line.                    *)
ControlLoopTick ==
  /\ applied' = IF GetConfig.err THEN applied ELSE GetConfig.config
  /\ StartRefresh
  /\ UNCHANGED <<file, cache, drifted, outside, acts, holder, runtime>>

Converge ==
  \E part \in Parts :
    /\ runtime[part] # applied[part]
    /\ runtime' = [runtime EXCEPT ![part] = applied[part]]
    /\ UNCHANGED <<managerVars, acts, holder, applied>>

Step(a) ==
  \/ Mutate(a) \/ LockAndReturn(a) \/ LockAndEdit(a)
  \/ WriteAndUnlock(a) \/ WriteFails(a) \/ StatFails(a)
  \/ Expire(a) \/ SetConfigFile(a)

Outside ==
  /\ MayStart /\ EditByHand
  /\ acts' = [a \in Actions |-> [acts[a] EXCEPT !.alone = FALSE]]
  /\ UNCHANGED <<holder, applied, runtime>>

Refresh ==
  /\ RefreshRead \/ RefreshStore
  /\ UNCHANGED <<acts, holder, applied, runtime>>

Next ==
  \/ \E a \in Actions : (\E req \in Requests : HandleActionMessage(a, req)) \/ Step(a) \/ Await(a)
  \/ Refresh \/ ControlLoopTick \/ Converge \/ Outside

(* Goroutines run, timers fire, the control loop ticks.                   *)
Fairness ==
  /\ \A a \in Actions : WF_vars(Step(a))
  /\ WF_vars(Refresh) /\ WF_vars(ControlLoopTick) /\ WF_vars(Converge)

Spec == Init /\ [][Next]_vars /\ Fairness

-----------------------------------------------------------------------------
(* Read, edit and write of an atomic update are one change of the file:   *)
(* each adds its own edit to what the file then holds, and nobody's edit  *)
(* is lost (the goal stated at mutexAtomicUpdate, pkg/config/manager.go). *)
(* Until the file and the copy have come apart, that is: an update after  *)
(* a write from outside, or after an update whose Stat failed, may be     *)
(* made to the old copy and take that write back.                         *)
UpdatesBuildOnFile ==
  [][\A a \in Actions :
       (drifted = {} /\ drifted' = {} /\ acts[a].stage = "write" /\ file' # file) =>
         \E c \in convertYamlToSpec(file.yaml) : \E r \in Apply(acts[a].edit, c) :
           file'.yaml \in convertSpecToYaml(r)]_vars

(* An edit, or a deployment of anything but a bridge (which stays, on     *)
(* purpose, with its flows stopped), that was reported as failed, with    *)
(* nobody else having written the file since it began.                    *)
FailedAlone(a) ==
  /\ acts[a].outcome = "failed" /\ acts[a].alone
  /\ acts[a].req.part \in Parts
  /\ acts[a].req.do = "edit" \/ (acts[a].req.do = "deploy" /\ acts[a].req.part # "pc")

(* A deployment or an edit that reports failure has left nothing behind:  *)
(* the file reads as the action found it, whatever was written by hand    *)
(* before and whatever the refresh has stored in between.  Three hitches  *)
(* excepted: the Stat after the write failed (the file keeps the edit and *)
(* nothing is undone), the undoing failed, or an update was made to a     *)
(* copy that is not written as the file (see RollbackRestoresFile).       *)
FailureLeavesNoTrace ==
  \A a \in Actions :
    FailedAlone(a) /\ acts[a].hitch = "none" => file.valid /\ file.yaml = acts[a].before

(* An action that reports failure after it was undone has restored the    *)
(* configuration it found ("the action rolls back to the previous         *)
(* configuration", edit-dataflowcomponent.go).                            *)
RollbackRestoresFile ==
  \A a \in Actions :
    FailedAlone(a) /\ acts[a].hitch \in {"none", "stale"} => file.yaml = acts[a].before

(* Every bridge and stream processor in the file has its settings, its    *)
(* own or its template's (yamlParsing.go: a stream processor whose        *)
(* template has no root is converted to an inline configuration).         *)
SettingsKept ==
  file.valid =>
    \A c \in convertYamlToSpec(file.yaml) :
      /\ \A n \in DOMAIN c.pc : c.pc[n].cfg # <<>>
      /\ \A n \in DOMAIN c.sp : c.sp[n].cfg # <<>>

(* No edit of one component empties another: every stream processor and   *)
(* bridge keeps its settings, whatever is renamed, removed or undone      *)
(* around it, as long as all files from outside were tidy: their stream   *)
(* processors' templates have roots, and no template's owner is a         *)
(* stand-alone processor in another file.                                 *)
NoComponentEmptied == "loose" \notin drifted => SettingsKept

(* Every action ends: with its result, with a failure, or rolled back;    *)
(* none is left waiting for the lock or for the running system.           *)
ActionsEnd == <>[](\A a \in Actions : acts[a].stage \in {"idle", "done"})

(* The control loop catches up with the file: when it is not written any  *)
(* more and the last refresh could read it, the configuration the loop    *)
(* works with is the one in the file (both as they would be written).     *)
LoopCatchesUp ==
  <>[](file.valid /\ ~cache.err =>
         \E c \in convertYamlToSpec(file.yaml) : convertSpecToYaml(applied) = convertSpecToYaml(c))

(* The copy is the file: what the fast path of GetConfig hands out is     *)
(* what reading the file would give.                                      *)
CopyIsFile ==
  Fresh /\ ~cache.err => ~file.valid \/ cache.config \in convertYamlToSpec(file.yaml)

(* A configuration that could not be read never reaches the control loop. *)
NoEmptyConfigApplied == ~isEmptyConfig(applied)
=============================================================================
