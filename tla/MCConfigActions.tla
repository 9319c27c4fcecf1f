--------------------------- MODULE MCConfigActions ---------------------------
(***************************************************************************)
(* Instances of ConfigActions: two actions at a time on a configuration    *)
(* with one data flow component, a bridge that is the template of another, *)
(* a stream processor that is the template of another, and a data model.   *)
(***************************************************************************)
EXTENDS ConfigActions, TLC

MCInitialConfig ==
  [EmptyConfig EXCEPT
     !.agent = TRUE,
     !.dfc = "d" :> Entry(NoRef, <<"v1">>),
     !.pc = ("p" :> Entry("p", <<"r1", "w1">>)) @@ ("q" :> Entry("p", <<"r1", "w1">>)),
     !.sp = ("s" :> Entry("s", <<"v1">>)) @@ ("t" :> Entry("s", <<"v1">>)),
     !.dm = "m" :> 1, !.dc = {<<"m", 1>>}]

MCHandEdit ==
  [MCInitialConfig EXCEPT !.dfc = ("d" :> Entry(NoRef, <<"v1">>)) @@ ("h" :> Entry(NoRef, <<"v1">>))]

MCHandEdits == convertSpecToYaml(MCHandEdit)

(* A file with a stream processor whose template is no processor's own,    *)
(* as docs/usage/data-modeling/stream-processors.md shows it.              *)
MCRootless ==
  {[y EXCEPT !.sp = @ @@ ("l" :> Entry("agg", <<>>)), !.spTemplates = @ @@ ("agg" :> <<"v1">>)] :
     y \in convertSpecToYaml(MCInitialConfig)}

MCAllHandEdits == MCHandEdits \cup MCRootless

MCFailingConfigs == {<<"bad">>}

MCRequests ==
  {Request("deploy", "dfc", "e", "e", <<"bad">>), Request("edit", "dfc", "d", "e", <<"v2">>),
   Request("deploy", "pc", "o", "o", <<"r1", "w1">>),
   Request("edit", "pc", "p", "o", <<None, "w2">>),
   Request("edit", "sp", "s", "s", <<"v2">>), Request("delete", "sp", "s", "s", <<>>),
   Request("deploy", "dm", "n", "n", <<>>), Request("edit", "dm", "m", "m", <<>>),
   Request("deploy", "historian", "v1", "v1", <<>>),
   Request("set file", "file", "", "", <<>>)}

(* The requests that MCRequests leaves out. *)
MCOtherRequests ==
  {Request("delete", "dfc", "d", "d", <<>>), Request("delete", "pc", "p", "p", <<>>),
   Request("delete", "pc", "q", "q", <<>>), Request("edit", "pc", "q", "q", <<"r2", None>>),
   Request("deploy", "sp", "u", "u", <<"bad">>), Request("edit", "sp", "t", "u", <<"v2">>),
   Request("delete", "sp", "t", "t", <<>>), Request("delete", "dm", "m", "m", <<>>),
   Request("edit", "historian", "v2", "v2", <<>>), Request("delete", "historian", "", "", <<>>)}

MCDfcEdits == {Request("edit", "dfc", "d", "e", <<"v2">>)}
MCRootEdits == {Request("edit", "sp", "s", "s", <<"v2">>)}
=============================================================================
