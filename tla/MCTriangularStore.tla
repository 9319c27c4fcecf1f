------------------------- MODULE MCTriangularStore -------------------------
(* Two writers, a client and a reader; the role that a snapshot needs and  *)
(* the one that is written without a change; contents of two fields, one   *)
(* of which a later document leaves out, with and without another change.  *)
EXTENDS TriangularStore, TLC

CONSTANTS f1, f2, a, b

MCRoles == <<"identity", "observed">>
Contents(x, y) == [f \in {f1, f2} |-> IF f = f1 THEN x ELSE y]
MCValues == {Contents(a, a), Contents(b, Absent), Contents(a, Absent)}

(* Bound of the run that has readers: who reads does not look at contents, *)
(* so a behaviour in which the client or a reader begins is followed with  *)
(* one content, up to MaxReadID, and with the reader (whose cache stays)   *)
(* before the client.                                                      *)
MaxReadID == 3
ReadAlike ==
    \/ client.polls = 0 /\ cache = NoSnapshot /\ \A q \in Loaders : r[q] = Idle
    \/ /\ syncID <= MaxReadID
       /\ client.polls = 0 \/ \A q \in Readers : r[q] = Idle
       /\ \A role \in Roles : Stored(role) => docs[role].val = Contents(a, a)
       /\ \A p \in Writers : w[p].pc = "save" => w[p].val = Contents(a, a)
       /\ \A p \in Writers : w[p].pc = "write" =>
            \A x \in w[p].staged : x[2].val = Contents(a, a)

Symmetry == Permutations(Writers)
=============================================================================
