------------------------ MODULE MCCircuitBreakers ------------------------
(* A root with two children, one of which has a child of its own. *)
EXTENDS CircuitBreakers

CONSTANTS root, bridge, writer, agent

MCNodes == {root, bridge, writer, agent}
MCParent == [n \in {bridge, writer, agent} |-> IF n = writer THEN bridge ELSE root]

\* A single parent and child.
MCPair == {root, bridge}
MCPairParent == [n \in {bridge} |-> root]
==========================================================================
