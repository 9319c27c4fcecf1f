---------------------------- MODULE MCFsmManager ----------------------------
(* One instance of every kind under every fault; short backoffs.  A new    *)
(* configuration is handled by the manager alone, in the same way for all  *)
(* kinds: one kind has two.                                                *)
EXTENDS FsmManager

MCVersions == [k \in AllKinds |-> IF k = "benthos_monitor" THEN {1, 2} ELSE {1}]
MCWaits == <<2>>
MCFastCooldowns == [op \in Operations |-> {2}]
=============================================================================
