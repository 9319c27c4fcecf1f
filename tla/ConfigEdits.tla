----------------------------- MODULE ConfigEdits -----------------------------
(***************************************************************************)
(* The configuration umh-core keeps in config.yaml, the edits the Atomic   *)
(* methods of the config manager make to it (pkg/config), and the two      *)
(* conversions between the form in memory, in which every component holds  *)
(* its own settings, and the form on disk, in which a template is written  *)
(* once and its users only refer to it (yamlParsing.go).                   *)
(*                                                                         *)
(* Component names are unique in every part, so a part is a function from  *)
(* the names present to their entries.  An entry's settings are a tuple of *)
(* values: one for a data flow component or a stream processor, the read   *)
(* and the write flow for a protocol converter (a bridge).  `ref` is its   *)
(* TemplateRef: empty for a stand-alone component, its own name for a      *)
(* root, a root's name for a child.  `stopped` holds the flows whose       *)
(* desired state is stopped.  An edit yields the set of its results: the   *)
(* new configuration, or nothing when the code refuses it.                 *)
(***************************************************************************)
EXTENDS Naturals, Functions

NoRef == ""
None == ""

(* A data flow component written with YAML anchors, which only a person   *)
(* may edit.                                                              *)
Anchored == <<"anchored">>

(* The zero FullConfig: no setting at all.  `agent` tells whether the     *)
(* agent section has any.                                                 *)
EmptyConfig ==
  [agent |-> FALSE, dfc |-> <<>>, pc |-> <<>>, sp |-> <<>>,
   dm |-> <<>>, dc |-> {}, historian |-> None]

Entry(ref, cfg) == [ref |-> ref, cfg |-> cfg, stopped |-> {}]

With(part, n, entry) ==
  [m \in DOMAIN part \cup {n} |-> IF m = n THEN entry ELSE part[m]]
Without(part, n) == Restrict(part, DOMAIN part \ {n})

Roots(part) == {n \in DOMAIN part : part[n].ref = n}
Children(part, r) == {n \in DOMAIN part \ {r} : part[n].ref = r}

-----------------------------------------------------------------------------
(* Between memory and disk.                                                *)

Refs(part) == {part[n].ref : n \in DOMAIN part} \ {NoRef}

(* A templated component is written without its settings.                 *)
Strip(part) ==
  [n \in DOMAIN part |->
     IF part[n].ref = NoRef THEN part[n] ELSE [part[n] EXCEPT !.cfg = <<>>]]

Templates(part) == [r \in Roots(part) |-> part[r].cfg]

(* Stream processors whose template has no root lose the reference, after *)
(* their settings were stripped.                                          *)
Inlined(part) ==
  [n \in DOMAIN part |->
     IF part[n].ref \in Roots(part) THEN part[n] ELSE [part[n] EXCEPT !.ref = NoRef]]

convertSpecToYaml(c) ==
  IF Refs(c.pc) \subseteq Roots(c.pc)
  THEN {[agent |-> c.agent, dfc |-> c.dfc, dm |-> c.dm, dc |-> c.dc,
         historian |-> c.historian,
         pc |-> Strip(c.pc), pcTemplates |-> Templates(c.pc),
         sp |-> Inlined(Strip(c.sp)), spTemplates |-> Templates(c.sp)]}
  ELSE {}

Resolved(part, templates) ==
  [n \in DOMAIN part |->
     IF part[n].ref = NoRef THEN part[n]
     ELSE [part[n] EXCEPT !.cfg = templates[part[n].ref]]]

convertYamlToSpec(y) ==
  IF Refs(y.pc) \subseteq DOMAIN y.pcTemplates /\ Refs(y.sp) \subseteq DOMAIN y.spTemplates
  THEN {[agent |-> y.agent, dfc |-> y.dfc, dm |-> y.dm, dc |-> y.dc,
         historian |-> y.historian,
         pc |-> Resolved(y.pc, y.pcTemplates), sp |-> Resolved(y.sp, y.spTemplates)]}
  ELSE {}

(* A configuration in which every bridge and stream processor has its      *)
(* settings, and every stream processor's template has a root.             *)
IsPart(part) == part = [n \in DOMAIN part |-> part[n]]
IsEntry(e) == e = [ref |-> e.ref, cfg |-> e.cfg, stopped |-> e.stopped]

Filled(part) ==
  \A n \in DOMAIN part : IsEntry(part[n]) /\ DOMAIN part[n].cfg # {}

Whole(c) ==
  /\ c = [agent |-> c.agent, dfc |-> c.dfc, pc |-> c.pc, sp |-> c.sp,
          dm |-> c.dm, dc |-> c.dc, historian |-> c.historian]
  /\ IsPart(c.dfc) /\ Filled(c.pc) /\ Filled(c.sp)
  /\ Refs(c.sp) \subseteq Roots(c.sp)

-----------------------------------------------------------------------------
(* Data flow components.                                                   *)

AtomicAddDataflowcomponent(c, n, entry) ==
  IF n \in DOMAIN c.dfc THEN {} ELSE {[c EXCEPT !.dfc = With(@, n, entry)]}

AtomicEditDataflowcomponent(c, n, to, entry) ==
  IF \/ n \notin DOMAIN c.dfc
     \/ to # n /\ to \in DOMAIN c.dfc
     \/ c.dfc[n].cfg = Anchored
  THEN {}
  ELSE {[c EXCEPT !.dfc = With(Without(@, n), to, entry)]}

AtomicDeleteDataflowcomponent(c, n) ==
  IF n \in DOMAIN c.dfc THEN {[c EXCEPT !.dfc = Without(@, n)]} ELSE {}

(* Protocol converters: a child needs its root, a root's new name reaches *)
(* its children, and a root with children stays.                          *)
AtomicAddProtocolConverter(c, n, entry) ==
  IF n \in DOMAIN c.pc \/ entry.ref \notin {NoRef, n} \cup Roots(c.pc)
  THEN {}
  ELSE {[c EXCEPT !.pc = With(@, n, entry)]}

Renamed(part, n, to) ==
  [m \in DOMAIN part |-> IF part[m].ref = n THEN [part[m] EXCEPT !.ref = to] ELSE part[m]]

AtomicEditProtocolConverter(c, n, to, entry) ==
  IF \/ n \notin DOMAIN c.pc
     \/ to # n /\ to \in DOMAIN c.pc
     \/ n \notin Roots(c.pc) /\ entry.ref # NoRef
  THEN {}
  ELSE LET others == Without(c.pc, n)
           follow == IF n \in Roots(c.pc) /\ entry.ref = to
                     THEN Renamed(others, n, to) ELSE others
       IN {[c EXCEPT !.pc = With(follow, to, entry)]}

AtomicDeleteProtocolConverter(c, n) ==
  IF n \notin DOMAIN c.pc \/ (n \in Roots(c.pc) /\ Children(c.pc, n) # {})
  THEN {}
  ELSE {[c EXCEPT !.pc = Without(@, n)]}

(* Stream processors: found by name, so an edit cannot rename one.        *)
AtomicAddStreamProcessor(c, n, entry) ==
  IF n \in DOMAIN c.sp \/ entry.ref \notin {NoRef, n} \cup Roots(c.sp)
  THEN {}
  ELSE {[c EXCEPT !.sp = With(@, n, entry)]}

AtomicEditStreamProcessor(c, n, entry) ==
  IF n \notin DOMAIN c.sp \/ c.sp[n].ref \notin {NoRef, n}
  THEN {}
  ELSE {[c EXCEPT !.sp[n] = entry]}

\* Mutant: a root is removed although others refer to it.
AtomicDeleteStreamProcessor_Orphans(c, n) ==
  IF n \notin DOMAIN c.sp THEN {} ELSE {[c EXCEPT !.sp = Without(@, n)]}

AtomicDeleteStreamProcessor(c, n) ==
  IF n \notin DOMAIN c.sp \/ (n \in Roots(c.sp) /\ Children(c.sp, n) # {})
  THEN {}
  ELSE {[c EXCEPT !.sp = Without(@, n)]}

-----------------------------------------------------------------------------
(* Data models: their versions are numbered from one and only appended.    *)
(* A data contract names a model and one of its versions.                  *)

AtomicAddDataModel(c, n) ==
  IF n \in DOMAIN c.dm THEN {} ELSE {[c EXCEPT !.dm = With(@, n, 1)]}

AtomicEditDataModel(c, n) ==
  IF n \in DOMAIN c.dm THEN {[c EXCEPT !.dm[n] = @ + 1]} ELSE {}

AtomicDeleteDataModel(c, n) ==
  IF n \in DOMAIN c.dm THEN {[c EXCEPT !.dm = Without(@, n)]} ELSE {}

AtomicAddDataContract(c, n, version) ==
  IF <<n, version>> \in c.dc THEN {} ELSE {[c EXCEPT !.dc = @ \cup {<<n, version>>}]}

(* The historian connection: one per instance, created once.              *)
AtomicSetHistorian(c, v) ==
  IF c.historian \in {None, v} THEN {[c EXCEPT !.historian = v]} ELSE {}

AtomicEditHistorian(c, v) ==
  IF c.historian = None THEN {} ELSE {[c EXCEPT !.historian = v]}

AtomicDeleteHistorian(c) == {[c EXCEPT !.historian = None]}

-----------------------------------------------------------------------------
(* An edit as a record, so that it can be kept until it is made.  `name`   *)
(* is the component found, `to` the name it has afterwards.                *)
Edit(op, part, name, to, entry) ==
  [op |-> op, part |-> part, name |-> name, to |-> to, entry |-> entry]

NoEntry == Entry(NoRef, <<>>)
Add(part, n, entry) == Edit("add", part, n, n, entry)
Change(part, n, to, entry) == Edit("edit", part, n, to, entry)
Delete(part, n) == Edit("delete", part, n, n, NoEntry)

ApplyDfc(e, c) ==
  CASE e.op = "add" -> AtomicAddDataflowcomponent(c, e.name, e.entry)
    [] e.op = "edit" -> AtomicEditDataflowcomponent(c, e.name, e.to, e.entry)
    [] e.op = "delete" -> AtomicDeleteDataflowcomponent(c, e.name)

ApplyPc(e, c) ==
  CASE e.op = "add" -> AtomicAddProtocolConverter(c, e.name, e.entry)
    [] e.op = "edit" -> AtomicEditProtocolConverter(c, e.name, e.to, e.entry)
    [] e.op = "delete" -> AtomicDeleteProtocolConverter(c, e.name)

ApplySp(e, c) ==
  CASE e.op = "add" -> AtomicAddStreamProcessor(c, e.name, e.entry)
    [] e.op = "edit" -> AtomicEditStreamProcessor(c, e.name, e.entry)
    [] e.op = "delete" -> AtomicDeleteStreamProcessor(c, e.name)

ApplyDm(e, c) ==
  CASE e.op = "add" -> AtomicAddDataModel(c, e.name)
    [] e.op = "edit" -> AtomicEditDataModel(c, e.name)
    [] e.op = "delete" -> AtomicDeleteDataModel(c, e.name)

ApplyHistorian(e, c) ==
  CASE e.op = "add" -> AtomicSetHistorian(c, e.name)
    [] e.op = "edit" -> AtomicEditHistorian(c, e.name)
    [] e.op = "delete" -> AtomicDeleteHistorian(c)

Apply(e, c) ==
  CASE e.part = "dfc" -> ApplyDfc(e, c)
    [] e.part = "pc" -> ApplyPc(e, c)
    [] e.part = "sp" -> ApplySp(e, c)
    [] e.part = "dm" -> ApplyDm(e, c)
    [] e.part = "dc" -> AtomicAddDataContract(c, e.name, e.to)
    [] e.part = "historian" -> ApplyHistorian(e, c)
=============================================================================
