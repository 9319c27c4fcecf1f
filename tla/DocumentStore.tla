---------------------------- MODULE DocumentStore ----------------------------
(***************************************************************************)
(* What the triangular store promises about one worker's documents: every  *)
(* write is one step, carries a sync id above all earlier ones, and a save *)
(* neither loses nor invents a tombstone; Tombstone and ClearTombstone     *)
(* change all documents of the worker together.                            *)
(***************************************************************************)
EXTENDS Naturals

CONSTANTS
    Roles,                  \* the documents of the worker
    Values                  \* contents of a document

VARIABLE docs               \* [Roles -> document or Missing]

Missing == [sync |-> 0]

Stored(role) == docs[role] # Missing

Init == docs = [role \in Roles |-> Missing]

(* A document after the step has an id that no document had before. *)
Newer(role) == \A x \in Roles : docs'[role].sync > docs[x].sync

Save(role) ==
    /\ docs'[role] # Missing
    /\ docs'[role].val \in Values
    /\ Newer(role)
    /\ docs'[role].dead = (Stored(role) /\ docs[role].dead)
    /\ docs' = [docs EXCEPT ![role] = docs'[role]]

(* Tombstone (mark is TRUE) and ClearTombstone (mark is FALSE): exactly the *)
(* stored documents that are not marked so yet are written.                *)
Mark(mark) ==
    LET edited == {role \in Roles : Stored(role) /\ docs[role].dead # mark} IN
    /\ \A role \in edited :
        /\ Newer(role)
        /\ docs'[role] = [docs[role] EXCEPT !.dead = mark, !.sync = docs'[role].sync]
        /\ \A x \in edited \ {role} : docs'[x].sync # docs'[role].sync
    /\ docs' = [role \in Roles |-> IF role \in edited THEN docs'[role] ELSE docs[role]]

Next ==
    \/ \E role \in Roles : Save(role)
    \/ \E mark \in BOOLEAN : Mark(mark)

Spec == Init /\ [][Next]_docs
=============================================================================
