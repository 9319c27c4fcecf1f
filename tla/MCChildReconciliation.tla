---------------------- MODULE MCChildReconciliation ----------------------
(* Small sets of child names for TLC. *)
EXTENDS ChildReconciliation

CONSTANTS bridge, writer

MCNames == {bridge, writer}
MCOneName == {bridge}
==========================================================================
