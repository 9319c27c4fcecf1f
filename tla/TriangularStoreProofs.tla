----------------------- MODULE TriangularStoreProofs -----------------------
(***************************************************************************)
(* Theorems about the triangular store, for any roles, contents, writers,  *)
(* readers, page size and bounds: its sync ids are unique, its deltas      *)
(* describe its documents, paging skips no delta, and its documents behave *)
(* as the abstract DocumentStore says.                                     *)
(***************************************************************************)
EXTENDS TriangularStore, FiniteSetTheorems, WellFoundedInduction, TLAPS

-----------------------------------------------------------------------------
(* A non-empty set of naturals has a least element and, if it is bounded,  *)
(* a greatest one: what CHOOSE finds in Append1 and in Latest.             *)

LEMMA LeastNatural ==
    ASSUME NEW T \in SUBSET Nat, T # {}
    PROVE  \E x \in T : \A y \in T : x <= y
<1> DEFINE R == OpToRel(<, Nat)
<1>1. IsWellFoundedOn(R, Nat)
  BY NatLessThanWellFounded
<1> HIDE DEF R
<1>2. PICK x \in T : \A y \in T : <<y, x>> \notin R
  BY <1>1, WFMin
<1>3. \A y \in Nat : y < x => <<y, x>> \in R
  BY DEF R, OpToRel
<1>4. \A y \in T : ~(y < x)
  BY <1>2, <1>3
<1> QED
  BY <1>4

LEMMA GreatestNatural ==
    ASSUME NEW T \in SUBSET Nat, T # {}, NEW n \in Nat, \A t \in T : t <= n
    PROVE  \E x \in T : \A y \in T : y <= x
<1> DEFINE D == {n - t : t \in T}
<1>1. D \in SUBSET Nat
  OBVIOUS
<1>a. D # {}
  <2>1. PICK t \in T : TRUE
    OBVIOUS
  <2> QED
    BY <2>1
<1>2. PICK d \in D : \A e \in D : d <= e
  BY <1>1, <1>a, LeastNatural
<1>3. PICK x \in T : d = n - x
  BY <1>2
<1>4. \A y \in T : n - x <= n - y
  BY <1>2, <1>3
<1> QED
  BY <1>3, <1>4
-----------------------------------------------------------------------------
(* Types.                                                                  *)

LEMMA AllRolesType == allRoles \in Seq(Roles)
  BY StoreAssumption DEF Roles

LEMMA MissingIsNotADoc == \A d \in Docs : d # Missing /\ d.sync # 0 /\ d.sync \in Nat
  BY StoreAssumption DEF Docs, Missing

\* An entry of a transaction: the role, its document and the Diff.
LEMMA StagedFields ==
    /\ \A x \in Staged : /\ x[1] \in Roles /\ x[2] \in Docs /\ x[3] \in Diffs
                         /\ x[2].sync \in 1..MaxSyncID /\ x[2].sync \in Nat \ {0}
                         /\ x = <<x[1], x[2], x[3]>>
    /\ \A role \in Roles, doc \in Docs, diff \in Diffs : <<role, doc, diff>> \in Staged
<1>1. \A doc \in Docs : doc.sync \in 1..MaxSyncID /\ doc.sync \in Nat \ {0}
  BY StoreAssumption DEF Docs
<1> QED
  BY <1>1 DEF Staged

LEMMA DeltaEntryFields ==
    ASSUME NEW x \in Staged
    PROVE  /\ DeltaEntry(x) \in Deltas
           /\ DeltaEntry(x).sync = x[2].sync /\ DeltaEntry(x).role = x[1]
           /\ DeltaEntry(x).changes = x[3]
  BY StagedFields DEF DeltaEntry, Deltas

LEMMA IdentityIsARole == "identity" \in Roles
  BY StoreAssumption DEF Roles

\* The Diff of a save and the Diff of a tombstone.
LEMMA DiffTypes ==
    /\ \A old : \A val \in Values : computeDiff(old, val) \in Diffs
    /\ \A mark \in BOOLEAN : {<<FieldDeletedAt, mark>>} \in Diffs
<1>1. ASSUME NEW old, NEW val \in Values
      PROVE  computeDiff(old, val) \in Diffs
  <2>1. \A f \in Fields : val[f] \in Data \cup {Absent}
    BY StoreAssumption
  <2> QED
    BY <2>1 DEF computeDiff, Diffs, AllFields
<1>2. \A mark \in BOOLEAN : {<<FieldDeletedAt, mark>>} \in Diffs
  BY DEF Diffs, AllFields
<1> QED
  BY <1>1, <1>2

\* What each stage of a write keeps.
LEMMA WriterFields ==
    ASSUME TypeOK, NEW p \in Writers
    PROVE  /\ w[p].pc \in {"idle", "save", "edit", "write", "append"}
           /\ w[p].pc = "idle" => w[p] = Idle
           /\ w[p].pc = "save" => /\ w[p].role \in Roles /\ w[p].val \in Values
                                  /\ w[p].old \in Docs \cup {Missing}
           /\ w[p].pc = "edit" =>
                /\ w[p].mark \in BOOLEAN /\ w[p].todo \in Seq(Roles)
                /\ w[p].staged \in SUBSET Staged
                /\ w[p] = [pc |-> "edit", mark |-> w[p].mark, todo |-> w[p].todo,
                           staged |-> w[p].staged]
           /\ w[p].pc \in {"write", "append"} =>
                /\ w[p].staged \in SUBSET Staged
                /\ w[p] = [pc |-> w[p].pc, staged |-> w[p].staged]
<1>1. w[p] \in WriterStates
  BY DEF TypeOK
<1> QED
  BY <1>1 DEF WriterStates, Idle

LEMMA ReaderFields ==
    ASSUME TypeOK, NEW q \in Loaders
    PROVE  /\ r[q].pc = "lookup" => r[q].at \in 0..MaxSyncID
           /\ r[q].pc = "read" =>
                /\ r[q].todo \in Seq(Roles) /\ r[q].snap \in Snapshots
                /\ r[q] = [pc |-> "read", todo |-> r[q].todo, snap |-> r[q].snap]
           /\ r[q].pc = "store" => r[q].at \in 0..MaxSyncID /\ r[q].snap \in Snapshots
<1>1. r[q] \in ReaderStates
  BY DEF TypeOK
<1> QED
  BY <1>1 DEF ReaderStates, Idle

\* The document that Append1 takes: the staged one with the least sync id.
LEMMA FirstStaged ==
    ASSUME NEW staged \in SUBSET Staged, staged # {}
    PROVE  LET x == CHOOSE x \in staged : \A y \in staged : x[2].sync <= y[2].sync
           IN  x \in staged /\ \A y \in staged : x[2].sync <= y[2].sync
<1> DEFINE T == {x[2].sync : x \in staged}
<1>1. T \in SUBSET Nat /\ T # {}
  <2>1. \A x \in staged : x[2].sync \in Nat
    BY StagedFields
  <2>2. PICK x \in staged : TRUE
    OBVIOUS
  <2> QED
    BY <2>1, <2>2
<1>2. PICK s \in T : \A t \in T : s <= t
  BY <1>1, LeastNatural
<1>3. \E x \in staged : \A y \in staged : x[2].sync <= y[2].sync
  BY <1>2
<1> QED
  BY <1>3

\* What Latest returns: the greatest sync id of a set of deltas.
LEMMA LatestIsGreatest ==
    ASSUME NEW ds \in SUBSET Deltas, ds # {}
    PROVE  /\ \E d \in ds : Latest(ds) = d.sync
           /\ \A d \in ds : d.sync <= Latest(ds)
<1> DEFINE T == {d.sync : d \in ds}
<1>1. \A d \in ds : d.sync \in 1..MaxSyncID
  BY DEF Deltas
<1>2. T \in SUBSET Nat /\ T # {} /\ \A t \in T : t <= MaxSyncID
  <2>1. PICK d \in ds : TRUE
    OBVIOUS
  <2> QED
    BY <1>1, <2>1
<1>3. PICK x \in T : \A y \in T : y <= x
  BY <1>2, GreatestNatural, StoreAssumption
<1>4. \E s \in T : \A d \in ds : d.sync <= s
  BY <1>3
<1>5. Latest(ds) \in T /\ \A d \in ds : d.sync <= Latest(ds)
  BY <1>4 DEF Latest
<1> QED
  BY <1>5

\* A page that is not behind the last delta is not empty: it has the next one.
LEMMA PageHasNext ==
    ASSUME TypeOK, NEW pos \in Nat, Since(pos) # {}
    PROVE  Page(pos) \in SUBSET Deltas /\ Page(pos) # {} /\ Page(pos) \subseteq Since(pos)
<1> DEFINE T == {d.sync : d \in Since(pos)}
<1>1. Since(pos) \in SUBSET Deltas /\ \A d \in Since(pos) : d.sync \in Nat
  BY DEF Since, TypeOK, Deltas
<1>2. T \in SUBSET Nat /\ T # {}
  <2>1. PICK d \in Since(pos) : TRUE
    OBVIOUS
  <2> QED
    BY <1>1, <2>1
<1>3. PICK x \in T : \A y \in T : x <= y
  BY <1>2, LeastNatural
<1>4. PICK d \in Since(pos) : d.sync = x
  BY <1>3
<1>5. {e \in Since(pos) : e.sync < d.sync} = {}
  BY <1>1, <1>3, <1>4
<1>6. Cardinality({e \in Since(pos) : e.sync < d.sync}) = 0
  BY <1>5, FS_EmptySet
<1>7. d \in Page(pos)
  <2>1. 0 < DeltaLimit
    BY StoreAssumption
  <2>2. Cardinality({e \in Since(pos) : e.sync < d.sync}) < DeltaLimit
    BY <1>6, <2>1, Zenon
  <2> QED
    BY <1>4, <2>2, Zenon DEF Page
<1> QED
  BY <1>1, <1>7 DEF Page

LEMMA InitTypeOK == Init => TypeOK
<1> SUFFICES ASSUME Init PROVE TypeOK
  OBVIOUS
<1>1. docs \in Snapshots /\ syncID \in 0..MaxSyncID /\ deltas \subseteq Deltas
  BY StoreAssumption DEF Init, Snapshots
<1>2. w \in [Writers -> WriterStates] /\ r \in [Loaders -> ReaderStates]
  BY DEF Init, WriterStates, ReaderStates
<1>3. client \in Clients
  BY StoreAssumption DEF Init, NewClient, Clients
<1>4. comp \in [calls : 0..MaxCompactions, gone : SUBSET Deltas]
  BY StoreAssumption DEF Init
<1> QED
  BY <1>1, <1>2, <1>3, <1>4 DEF Init, TypeOK

\* What a save or an edit puts into the transaction.
LEMMA PreparedDoc ==
    ASSUME TypeOK, NEW val \in Values, NEW dead \in BOOLEAN, syncID < MaxSyncID
    PROVE  [val |-> val, sync |-> syncID + 1, dead |-> dead] \in Docs
  BY StoreAssumption DEF TypeOK, Docs

LEMMA EditedDoc ==
    ASSUME TypeOK, NEW role \in Roles, Stored(role), NEW mark \in BOOLEAN, syncID < MaxSyncID
    PROVE  [docs[role] EXCEPT !.dead = mark, !.sync = syncID + 1] \in Docs
<1>1. docs[role] \in Docs
  BY DEF TypeOK, Snapshots, Stored
<1>2. syncID + 1 \in 1..MaxSyncID
  BY StoreAssumption DEF TypeOK
<1> QED
  BY <1>1, <1>2 DEF Docs

LEMMA EditUpdate ==
    ASSUME NEW e, NEW mark \in BOOLEAN, NEW todo \in Seq(Roles),
           NEW staged \in SUBSET Staged,
           e = [pc |-> "edit", mark |-> mark, todo |-> todo, staged |-> staged],
           NEW todo2 \in Seq(Roles), NEW staged2 \in SUBSET Staged
    PROVE  /\ [e EXCEPT !.todo = todo2] \in WriterStates
           /\ [e EXCEPT !.todo = todo2, !.staged = staged2] \in WriterStates
<1>1. [e EXCEPT !.todo = todo2] = [pc |-> "edit", mark |-> mark, todo |-> todo2, staged |-> staged]
  OBVIOUS
<1>2. [e EXCEPT !.todo = todo2, !.staged = staged2]
        = [pc |-> "edit", mark |-> mark, todo |-> todo2, staged |-> staged2]
  <2> DEFINE new == [e EXCEPT !.todo = todo2, !.staged = staged2]
  <2>1. DOMAIN new = {"pc", "mark", "todo", "staged"}
    OBVIOUS
  <2>2. new.pc = "edit" /\ new.mark = mark /\ new.todo = todo2 /\ new.staged = staged2
    OBVIOUS
  <2>3. new = [f \in {"pc", "mark", "todo", "staged"} |-> new[f]]
    OBVIOUS
  <2> HIDE DEF new
  <2>4. new = [pc |-> "edit", mark |-> mark, todo |-> todo2, staged |-> staged2]
    BY <2>1, <2>2, <2>3
  <2> QED
    BY <2>4 DEF new
<1> QED
  BY <1>1, <1>2 DEF WriterStates

LEMMA NextTypeOK == TypeOK /\ [Next]_vars => TypeOK'
<1> SUFFICES ASSUME TypeOK, [Next]_vars PROVE TypeOK'
  OBVIOUS
<1> USE DEF TypeOK
<1>a. ASSUME NEW p \in Writers, Leave(p)
      PROVE  lock' \in Writers \cup {NoOne} /\ w' \in [Writers -> WriterStates]
  BY <1>a DEF Leave, WriterStates
<1>b. ASSUME NEW p \in Writers, NEW x \in WriterStates
      PROVE  [w EXCEPT ![p] = x] \in [Writers -> WriterStates]
  BY <1>b
<1>1. ASSUME NEW p \in Writers, NEW role \in Roles, NEW val \in Values, BeginSave(p, role, val)
      PROVE  TypeOK'
  <2>1. [pc |-> "save", role |-> role, val |-> val, old |-> docs[role]] \in WriterStates
    BY DEF WriterStates, Snapshots
  <2> QED
    BY <1>1, <1>b, <2>1 DEF BeginSave
<1>2. ASSUME NEW p \in Writers, NEW mark \in BOOLEAN, BeginEdit(p, mark)
      PROVE  TypeOK'
  <2>1. [pc |-> "edit", mark |-> mark, todo |-> allRoles, staged |-> {}] \in WriterStates
    BY AllRolesType DEF WriterStates
  <2> QED
    BY <1>2, <1>b, <2>1 DEF BeginEdit
<1>3. ASSUME NEW p \in Writers, SaveUnchanged(p)
      PROVE  TypeOK'
  <2>1. docs' \in Snapshots /\ cache' \in {NoSnapshot} \cup [at : 0..MaxSyncID, snap : Snapshots]
    BY <1>3, WriterFields DEF SaveUnchanged, Snapshots
  <2> QED
    BY <1>3, <1>a, <2>1 DEF SaveUnchanged
<1>4. ASSUME NEW p \in Writers, PrepareSave(p)
      PROVE  TypeOK'
  <2> DEFINE dead == w[p].old # Missing /\ w[p].old.dead
             doc == [val |-> w[p].val, sync |-> syncID + 1, dead |-> dead]
  <2>1. w[p].pc = "save" /\ syncID < MaxSyncID
    BY <1>4 DEF PrepareSave
  <2>2. dead \in BOOLEAN
    BY <2>1, WriterFields DEF Docs
  <2>3. doc \in Docs
    BY <2>1, <2>2, WriterFields, PreparedDoc
  <2>a. computeDiff(w[p].old, w[p].val) \in Diffs
    BY <2>1, WriterFields, DiffTypes
  <2> DEFINE x == <<w[p].role, doc, computeDiff(w[p].old, w[p].val)>>
  <2>b. x \in Staged
    BY <2>1, <2>3, <2>a, WriterFields, StagedFields
  <2>5. w' = [w EXCEPT ![p] = [pc |-> "write", staged |-> {x}]]
    BY <1>4 DEF PrepareSave
  <2> HIDE DEF x
  <2>4. [pc |-> "write", staged |-> {x}] \in WriterStates
    BY <2>b DEF WriterStates
  <2>6. syncID' \in 0..MaxSyncID
    BY <1>4, StoreAssumption DEF PrepareSave
  <2> QED
    BY <1>4, <1>b, <2>4, <2>5, <2>6 DEF PrepareSave
<1>5. ASSUME NEW p \in Writers, EditRole(p)
      PROVE  TypeOK'
  <2> DEFINE role == Head(w[p].todo)
             mark == w[p].mark
             doc == [docs[role] EXCEPT !.dead = mark, !.sync = syncID + 1]
             x == <<role, doc, {<<FieldDeletedAt, mark>>}>>
  <2>1. w[p].pc = "edit" /\ w[p].todo # <<>>
    BY <1>5 DEF EditRole
  <2>2. role \in Roles /\ Tail(w[p].todo) \in Seq(Roles)
    BY <2>1, WriterFields
  <2>3. CASE ~Stored(role) \/ docs[role].dead = mark
    <3>1. w' = [w EXCEPT ![p].todo = Tail(@)] /\ syncID' = syncID
      BY <1>5, <2>3 DEF EditRole
    <3>2. [w[p] EXCEPT !.todo = Tail(@)] \in WriterStates
      BY <2>1, <2>2, WriterFields, EditUpdate, ZenonT(30)
    <3>3. w' \in [Writers -> WriterStates]
      BY <3>1, <3>2, <1>b
    <3> QED
      BY <1>5, <3>1, <3>3 DEF EditRole
  <2>4. CASE ~(~Stored(role) \/ docs[role].dead = mark)
    <3>1. /\ syncID < MaxSyncID /\ syncID' = syncID + 1
          /\ w' = [w EXCEPT ![p].todo = Tail(@), ![p].staged = @ \cup {x}]
      BY <1>5, <2>4 DEF EditRole
    <3>2. doc \in Docs
      BY <2>1, <2>2, <2>4, <3>1, WriterFields, EditedDoc
    <3>a. w[p].staged \cup {x} \in SUBSET Staged
      <4>1. mark \in BOOLEAN /\ w[p].staged \in SUBSET Staged
        BY <2>1, WriterFields
      <4>2. {<<FieldDeletedAt, mark>>} \in Diffs
        BY <4>1, DiffTypes
      <4>3. x \in Staged
        BY <2>2, <3>2, <4>2, StagedFields
      <4> HIDE DEF x
      <4> QED
        BY <4>1, <4>3
    <3>3. [w[p] EXCEPT !.todo = Tail(@), !.staged = @ \cup {x}] \in WriterStates
      <4>1. /\ mark \in BOOLEAN /\ w[p].todo \in Seq(Roles)
            /\ w[p].staged \in SUBSET Staged
            /\ w[p] = [pc |-> "edit", mark |-> mark, todo |-> w[p].todo, staged |-> w[p].staged]
        BY <2>1, WriterFields
      <4> HIDE DEF mark, role, doc, x
      <4> QED
        BY <2>2, <3>a, <4>1, EditUpdate, ZenonT(30)
    <3>4. w' = [w EXCEPT ![p] = [w[p] EXCEPT !.todo = Tail(@), !.staged = @ \cup {x}]]
      BY <3>1
    <3>5. w' \in [Writers -> WriterStates]
      BY <3>3, <3>4, <1>b
    <3>6. syncID' \in 0..MaxSyncID
      BY <3>1, StoreAssumption
    <3> QED
      BY <1>5, <3>5, <3>6 DEF EditRole
  <2> QED
    BY <2>3, <2>4
<1>6. ASSUME NEW p \in Writers, EndEdit(p)
      PROVE  TypeOK'
  <2>1. [pc |-> "write", staged |-> w[p].staged] \in WriterStates
    BY <1>6, WriterFields DEF EndEdit, WriterStates
  <2> QED
    BY <1>6, <1>b, <2>1 DEF EndEdit
<1>7. ASSUME NEW p \in Writers, Write(p)
      PROVE  TypeOK'
  <2>1. w[p].pc = "write" /\ w[p].staged \in SUBSET Staged
    BY <1>7, WriterFields DEF Write
  <2>2. \A role \in StagedRoles(w[p].staged) : StagedDoc(w[p].staged, role) \in Docs
    BY <2>1, StagedFields DEF StagedRoles, StagedDoc
  <2>3. docs' \in Snapshots
    BY <1>7, <2>2 DEF Write, Snapshots
  <2>4. [pc |-> "append", staged |-> {x \in w[p].staged : x[3] # {}}] \in WriterStates
    BY <2>1 DEF WriterStates
  <2>5. w' \in [Writers -> WriterStates]
    BY <1>7, <1>b, <2>4 DEF Write
  <2> QED
    BY <1>7, <2>3, <2>5 DEF Write
<1>8. ASSUME NEW p \in Writers, WriteFails(p)
      PROVE  TypeOK'
  BY <1>8, <1>a DEF WriteFails
<1>9. ASSUME NEW p \in Writers, NEW failed \in BOOLEAN, Append1(p, failed)
      PROVE  TypeOK'
  <2> DEFINE x == CHOOSE x \in w[p].staged : \A y \in w[p].staged : x[2].sync <= y[2].sync
             delta == DeltaEntry(x)
  <2>1. /\ w[p].pc = "append" /\ w[p].staged # {}
        /\ deltas' = IF failed THEN deltas ELSE deltas \cup {delta}
        /\ lost' = IF failed THEN lost \cup {delta} ELSE lost
        /\ w' = [w EXCEPT ![p].staged = @ \ {x}]
    BY <1>9 DEF Append1
  <2>2. x \in w[p].staged /\ w[p].staged \in SUBSET Staged
    BY <2>1, WriterFields, FirstStaged
  <2> HIDE DEF x
  <2>3. delta \in Deltas
    BY <2>2, DeltaEntryFields
  <2>4. deltas' \subseteq Deltas /\ lost' \subseteq Deltas
    BY <2>1, <2>3
  <2>5. [w[p] EXCEPT !.staged = @ \ {x}] \in WriterStates
    BY <2>1, <2>2, WriterFields DEF WriterStates
  <2>6. w' \in [Writers -> WriterStates]
    BY <1>b, <2>1, <2>5
  <2> QED
    BY <1>9, <2>4, <2>6 DEF Append1
<1>10. ASSUME NEW p \in Writers, InvalidateSnapshot(p)
       PROVE  TypeOK'
  BY <1>10, <1>a DEF InvalidateSnapshot
<1>c. ASSUME NEW q \in Loaders, NEW snap \in Snapshots, Return(q, snap)
      PROVE  r' \in [Loaders -> ReaderStates] /\ client' \in Clients
  <2>1. r' \in [Loaders -> ReaderStates]
    BY <1>c DEF Return, ReaderStates
  <2>2. Bootstrapped(snap) \in Clients
    <3>1. PICK missed \in SUBSET WriteIDs : missed = {o \in client.open : snap[o[1]].sync < o[2]}
      BY DEF Clients
    <3>2. Bootstrapped(snap) =
            [client EXCEPT !.pc = "idle", !.pos = client.at, !.at = 0, !.open = {},
                           !.raced = client.open, !.missed = missed]
      BY <3>1 DEF Bootstrapped
    <3>3. 0 \in 0..MaxSyncID
      BY StoreAssumption
    <3>4. {} \in SUBSET WriteIDs
      OBVIOUS
    <3> QED
      BY <3>2, <3>3, <3>4 DEF Clients
  <2> QED
    BY <1>c, <2>1, <2>2 DEF Return
<1>d. Nothing \in Snapshots
  BY DEF Nothing, Snapshots
<1>e. ASSUME NEW q \in Loaders, NEW x \in ReaderStates
      PROVE  [r EXCEPT ![q] = x] \in [Loaders -> ReaderStates]
  BY <1>e
<1>f. [pc |-> "lookup", at |-> syncID] \in ReaderStates
  BY DEF ReaderStates
<1>10b. ASSUME NEW q \in Readers, BeginLoad(q)
        PROVE  TypeOK'
  BY <1>10b, <1>e, <1>f DEF BeginLoad, store, Loaders
<1>11. ASSUME NEW q \in Loaders,
              Lookup(q) \/ ReadRole(q) \/ StampSnapshot(q) \/ StoreSnapshot(q)
       PROVE  TypeOK'
  <2> DEFINE Kept == r' \in [Loaders -> ReaderStates] /\ client' \in Clients
  <2>2. CASE Lookup(q)
    <3>1. [pc |-> "read", todo |-> allRoles, snap |-> Nothing] \in ReaderStates
      BY <1>d, AllRolesType DEF ReaderStates
    <3>2. ASSUME Return(q, cache.snap), cache # NoSnapshot PROVE Kept
      <4>1. cache.snap \in Snapshots
        BY <3>2
      <4> QED
        BY <1>c, <3>2, <4>1, Zenon
    <3>3. ASSUME r' = [r EXCEPT ![q] = [pc |-> "read", todo |-> allRoles, snap |-> Nothing]],
                 UNCHANGED client
          PROVE  Kept
      BY <1>e, <3>1, <3>3
    <3>4. Kept
      BY <2>2, <3>2, <3>3 DEF Lookup
    <3> QED
      BY <2>2, <3>4 DEF Lookup, store
  <2>3. CASE ReadRole(q)
    <3> DEFINE role == Head(r[q].todo)
               next == [pc |-> "read", todo |-> Tail(r[q].todo),
                        snap |-> [r[q].snap EXCEPT ![role] = docs[role]]]
    <3>a. r[q].pc = "read" /\ r[q].todo # <<>>
      BY <2>3, Zenon DEF ReadRole
    <3>1. r[q].pc = "read" /\ role \in Roles /\ Tail(r[q].todo) \in Seq(Roles)
      BY <3>a, ReaderFields
    <3>2. [r[q].snap EXCEPT ![role] = docs[role]] \in Snapshots
      BY <3>1, ReaderFields DEF Snapshots
    <3>3. next \in ReaderStates
      BY <3>1, <3>2 DEF ReaderStates
    <3>4. Return(q, Nothing) \/ (r' = [r EXCEPT ![q] = next] /\ UNCHANGED client)
      BY <2>3 DEF ReadRole
    <3>5. Kept
      <4> HIDE DEF next
      <4>1. CASE Return(q, Nothing)
        BY <1>c, <1>d, <4>1, Zenon
      <4>2. CASE r' = [r EXCEPT ![q] = next] /\ UNCHANGED client
        BY <1>e, <3>3, <4>2
      <4> QED
        BY <3>4, <4>1, <4>2
    <3> QED
      BY <2>3, <3>5 DEF ReadRole, store
  <2>4. CASE StampSnapshot(q)
    <3>1. [pc |-> "store", snap |-> r[q].snap, at |-> syncID] \in ReaderStates
      BY <2>4, ReaderFields DEF StampSnapshot, ReaderStates
    <3> QED
      BY <2>4, <1>e, <3>1 DEF StampSnapshot, store
  <2>5. CASE StoreSnapshot(q)
    <3>1. r[q].snap \in Snapshots /\ cache' \in [at : 0..MaxSyncID, snap : Snapshots]
      BY <2>5, ReaderFields DEF StoreSnapshot
    <3>2. Kept
      BY <2>5, <1>c, <3>1 DEF StoreSnapshot
    <3> QED
      BY <2>5, <3>1, <3>2 DEF StoreSnapshot, store
  <2> QED
    BY <1>11, <2>2, <2>3, <2>4, <2>5
<1>12. CASE Maintenance
  BY <1>12 DEF Maintenance, store
<1>13. CASE Poll \/ QueryDeltas \/ QueryFails
  <2>1. client' \in Clients
    <3>1. CASE Poll
      <4>1. OpenWrites \in SUBSET WriteIDs
        BY WriterFields, StagedFields DEF OpenWrites, WriteIDs
      <4>2. client.polls + 1 \in 0..MaxPolls
        BY <3>1, StoreAssumption DEF Poll, Clients
      <4> QED
        BY <3>1, <4>1, <4>2 DEF Poll, Clients
    <3>2. [client EXCEPT !.pc = "boot"] \in Clients
      BY DEF Clients
    <3>3. CASE QueryDeltas /\ Since(client.pos) # {}
      <4>1. client.pos \in Nat
        BY StoreAssumption DEF Clients
      <4>2. Page(client.pos) \in SUBSET Deltas /\ Page(client.pos) # {}
        BY <3>3, <4>1, PageHasNext
      <4>3. Latest(Page(client.pos)) \in 0..MaxSyncID
        BY <4>2, LatestIsGreatest DEF Deltas
      <4>4. client' = Paged(Latest(Page(client.pos)))
        BY <3>3 DEF QueryDeltas
      <4> QED
        <5>1. 0 \in 0..MaxSyncID
          BY StoreAssumption
        <5>2. PICK pos \in 0..MaxSyncID : client' = Paged(pos)
          BY <4>3, <4>4
        <5>3. {} \in SUBSET WriteIDs
          OBVIOUS
        <5> QED
          BY <5>1, <5>2, <5>3 DEF Paged, Clients
    <3> QED
      BY <1>13, <3>1, <3>2, <3>3 DEF QueryDeltas, QueryFails
  <2> QED
    BY <1>13, <2>1 DEF Poll, QueryDeltas, QueryFails, store
<1>13b. CASE BuildBootstrap
  <2>1. r' \in [Loaders -> ReaderStates] /\ client' \in Clients
    BY <1>13b, <1>c, <1>d, <1>e, <1>f DEF BuildBootstrap, Loaders
  <2> QED
    BY <1>13b, <2>1 DEF BuildBootstrap, store
<1>14. ASSUME NEW cutoff \in 1..(syncID + 1), CompactDeltas(cutoff)
       PROVE  TypeOK'
  <2> DEFINE old == {d \in deltas : d.sync < cutoff}
  <2>1. comp.calls < MaxCompactions /\ deltas' = deltas \ old
        /\ comp' = [calls |-> comp.calls + 1, gone |-> comp.gone \cup old]
    BY <1>14 DEF CompactDeltas
  <2>2. comp' \in [calls : 0..MaxCompactions, gone : SUBSET Deltas]
    BY <2>1, StoreAssumption
  <2> QED
    BY <1>14, <2>1, <2>2 DEF CompactDeltas
<1>15. CASE UNCHANGED vars
  BY <1>15 DEF vars
<1> QED
  BY <1>1, <1>2, <1>3, <1>4, <1>5, <1>6, <1>7, <1>8, <1>9, <1>10, <1>10b, <1>11, <1>12,
     <1>13, <1>13b, <1>14, <1>15 DEF Next

\* The store's variables keep their shapes, through every stage of every
\* interleaved write, snapshot load, poll and compaction.
THEOREM TypeCorrect == Spec => []TypeOK
  BY InitTypeOK, NextTypeOK, PTL DEF Spec

-----------------------------------------------------------------------------
(* The inductive invariant.  documentWriteMu admits one write at a time    *)
(* (LockDiscipline); the counter is ahead of every id in use               *)
(* (IdsBehindCounter); a write keeps what it read and what it took from    *)
(* the counter until it is done (WriterInv); and the deltas ever made tell *)
(* every field of every document (Described).                              *)

Staging(p) == w[p].pc \in {"edit", "write", "append"}

LockDiscipline == \A p \in Writers : w[p].pc # "idle" => lock = p

\* Every delta that was appended, could not be appended, or was deleted since.
Past == deltas \cup lost \cup comp.gone

IdsBehindCounter ==
    /\ \A role \in Roles : docs[role].sync <= syncID
    /\ \A d \in Past : d.sync <= syncID
    /\ client.pos <= syncID /\ client.at <= syncID

PastIsUnique == \A d, e \in Past : d.sync = e.sync => d = e

\* The client loads a snapshot only for its bootstrap.
ClientLoads == r[Client].pc # "idle" => client.pc = "boot"

\* Nobody has written the document since the save read it.
SaveCurrent(p) == w[p].pc = "save" => w[p].old = docs[w[p].role]

\* The id that a write x has taken and not yet published as a delta: no delta
\* and no page of the client has gone past it, and neither has its bootstrap,
\* unless x was under way when that began.
IdReserved(x) ==
    /\ x[2].sync <= syncID
    /\ \A d \in Past : d.sync < x[2].sync
    /\ client.pos < x[2].sync \/ <<x[1], x[2].sync>> \in client.raced
    /\ client.pc # "idle" => client.at < x[2].sync \/ <<x[1], x[2].sync>> \in client.open

StagedReserved(p) == Staging(p) =>
    /\ \A x \in w[p].staged : IdReserved(x)
    /\ \A x, y \in w[p].staged : x[1] = y[1] \/ x[2].sync = y[2].sync => x = y

\* The Diff has the new value of the fields it mentions, and the others do not
\* change.
DiffIsTrue(x) ==
    /\ \A c \in x[3] : c = <<c[1], Field(x[2], c[1])>>
    /\ \A f \in AllFields :
        (\E c \in x[3] : c[1] = f) \/ Field(x[2], f) = Field(docs[x[1]], f)

StagedDiffs(p) == w[p].pc \in {"edit", "write"} => \A x \in w[p].staged : DiffIsTrue(x)

StagedNewer(p) == w[p].pc \in {"edit", "write"} =>
    \A x \in w[p].staged : \A role \in Roles : docs[role].sync < x[2].sync

StagedWritten(p) == w[p].pc = "append" => \A x \in w[p].staged : docs[x[1]] = x[2]

\* x is the document of its role with the tombstone set or cleared.
Marks(x, mark) ==
    /\ Stored(x[1]) /\ docs[x[1]].dead # mark
    /\ x[2] = [docs[x[1]] EXCEPT !.dead = mark, !.sync = x[2].sync]

MustMark(role, mark) == Stored(role) /\ docs[role].dead # mark

\* A role of an edit is still to be visited, or staged, or needs no change.
EditProgress(p) == w[p].pc = "edit" =>
    /\ \A i, j \in DOMAIN w[p].todo : w[p].todo[i] = w[p].todo[j] => i = j
    /\ \A x \in w[p].staged : /\ Marks(x, w[p].mark)
                              /\ \A i \in DOMAIN w[p].todo : w[p].todo[i] # x[1]
    /\ \A role \in Roles : MustMark(role, w[p].mark) =>
            \/ \E x \in w[p].staged : x[1] = role
            \/ \E i \in DOMAIN w[p].todo : w[p].todo[i] = role

\* What is about to be written is a save or a complete edit.
SaveIntent(staged) ==
    \E role \in Roles, doc \in Docs, diff \in Diffs :
        /\ staged = {<<role, doc, diff>>}
        /\ doc.dead = (Stored(role) /\ docs[role].dead)
MarkIntent(staged, mark) ==
    /\ \A x \in staged : Marks(x, mark)
    /\ \A role \in Roles : MustMark(role, mark) => \E x \in staged : x[1] = role
WriteIntent(p) == w[p].pc = "write" =>
    SaveIntent(w[p].staged) \/ \E mark \in BOOLEAN : MarkIntent(w[p].staged, mark)

WriterInv(p) ==
    /\ SaveCurrent(p) /\ StagedReserved(p) /\ StagedNewer(p) /\ StagedWritten(p)
    /\ StagedDiffs(p) /\ EditProgress(p) /\ WriteIntent(p)

(* None of them depends on anything but the documents and the writers.          *)
LEMMA IntentsStay ==
    ASSUME NEW p, EditProgress(p), WriteIntent(p), StagedDiffs(p), docs' = docs, w' = w
    PROVE  EditProgress(p)' /\ WriteIntent(p)' /\ StagedDiffs(p)'
<1>1. EditProgress(p)'
  BY DEF EditProgress, Marks, MustMark, Stored
<1>2. WriteIntent(p)'
  BY DEF WriteIntent, SaveIntent, MarkIntent, Marks, MustMark, Stored
<1>3. StagedDiffs(p)'
  BY DEF StagedDiffs, DiffIsTrue
<1> QED
  BY <1>1, <1>2, <1>3

\* All deltas, with those that the lock holder is about to append.
Pending(d) == \E p \in Writers : w[p].pc = "append" /\ \E x \in w[p].staged : d = DeltaEntry(x)
History == {d \in Deltas : d \in Past \/ Pending(d)}

\* DeltasDescribeDocuments of the whole history, during a write too: the
\* newest delta that mentions a field has its value.
Described(role, f) ==
    \/ /\ \A e \in History : ~Mentions(e, role, f)
       /\ Field(docs[role], f) = Unset(f)
    \/ \E d \in History :
        /\ d.role = role /\ <<f, Field(docs[role], f)>> \in d.changes
        /\ \A e \in History : Mentions(e, role, f) => e.sync <= d.sync

AllDescribed == \A role \in Roles, f \in AllFields : Described(role, f)

StoreInv ==
    /\ LockDiscipline
    /\ IdsBehindCounter /\ PastIsUnique /\ ClientLoads
    /\ \A p \in Writers : WriterInv(p)
    /\ AllDescribed
    /\ SyncIDsAreUnique

LEMMA InitStoreInv == Init => StoreInv
<1> SUFFICES ASSUME Init PROVE StoreInv
  OBVIOUS
<1>1. \A p \in Writers : w[p].pc = "idle"
  BY DEF Init, Idle
<1>2. \A role \in Roles : docs[role] = Missing /\ docs[role].sync = 0
  BY DEF Init, Missing
<1>3. LockDiscipline /\ \A p \in Writers : WriterInv(p)
  BY <1>1 DEF LockDiscipline, WriterInv, SaveCurrent, StagedReserved, Staging, StagedNewer,
              StagedWritten, EditProgress, WriteIntent, StagedDiffs
<1>a. Past = {} /\ r[Client] = Idle
  BY DEF Init, Past, Loaders
<1>4. IdsBehindCounter /\ PastIsUnique /\ ClientLoads
  BY <1>2, <1>a DEF Init, IdsBehindCounter, PastIsUnique, ClientLoads, Idle, NewClient
<1>5. AllDescribed
  <2>1. History = {}
    BY <1>1, <1>a DEF History, Pending
  <2> QED
    BY <1>2, <2>1 DEF AllDescribed, Described, Field
<1>6. SyncIDsAreUnique
  BY <1>2 DEF Init, SyncIDsAreUnique, Stored
<1> QED
  BY <1>3, <1>4, <1>5, <1>6 DEF StoreInv

\* The values the comparisons of the invariant range over.
LEMMA IdTypes ==
    ASSUME TypeOK
    PROVE  /\ syncID \in Nat
           /\ \A role \in Roles : docs[role].sync \in Nat
           /\ \A d \in deltas : d.sync \in Nat \ {0}
           /\ \A d \in Past : d \in Deltas /\ d.sync \in Nat \ {0}
           /\ client.pos \in Nat /\ client.at \in Nat
           /\ \A p \in Writers : Staging(p) => \A x \in w[p].staged :
                x \in Staged /\ x[1] \in Roles /\ x[2] \in Docs /\ x[2].sync \in Nat \ {0}
<1>1. \A role \in Roles : docs[role].sync \in Nat
  BY MissingIsNotADoc DEF TypeOK, Snapshots, Missing
<1>2. \A d \in deltas : d.sync \in Nat \ {0}
  BY DEF TypeOK, Deltas
<1>3. \A p \in Writers : Staging(p) => \A x \in w[p].staged :
                x \in Staged /\ x[1] \in Roles /\ x[2] \in Docs /\ x[2].sync \in Nat \ {0}
  BY WriterFields, StagedFields DEF Staging
<1>4. \A d \in Past : d \in Deltas /\ d.sync \in Nat \ {0}
  BY DEF TypeOK, Deltas, Past
<1> QED
  BY <1>1, <1>2, <1>3, <1>4 DEF TypeOK, Clients

\* A step of the lock holder p: the other writers are idle.
LEMMA HolderStep ==
    ASSUME LockDiscipline, NEW p \in Writers, lock \in {p, NoOne},
           \A q \in Writers \ {p} : w'[q] = w[q],
           w'[p].pc = "idle" \/ lock' = p,
           WriterInv(p)'
    PROVE  LockDiscipline' /\ \A q \in Writers : WriterInv(q)'
<1>1. \A q \in Writers \ {p} : w'[q].pc = "idle"
  BY StoreAssumption DEF LockDiscipline
<1>2. \A q \in Writers \ {p} : WriterInv(q)'
  BY <1>1 DEF WriterInv, SaveCurrent, StagedReserved, Staging, StagedNewer, StagedWritten,
              EditProgress, WriteIntent, StagedDiffs
<1> QED
  BY <1>1, <1>2 DEF LockDiscipline

\* Described depends on the documents and the history only.
LEMMA DescribedStays ==
    ASSUME AllDescribed, docs' = docs, History' = History
    PROVE  AllDescribed'
  BY DEF AllDescribed, Described

\* A step of the lock holder that only moves on: neither documents nor deltas
\* change, the counter does not go back, and p was not appending.
LEMMA QuietStep ==
    ASSUME TypeOK, StoreInv, NEW p \in Writers, lock \in {p, NoOne},
           UNCHANGED <<docs, deltas, r, client, comp, lost>>,
           syncID' \in Nat, syncID <= syncID',
           \A q \in Writers \ {p} : w'[q] = w[q],
           w'[p].pc = "idle" \/ lock' = p,
           w[p].pc # "append" \/ w[p].staged = {}, w'[p].pc # "append",
           WriterInv(p)'
    PROVE  StoreInv'
<1> USE DEF StoreInv
<1>1. LockDiscipline' /\ \A q \in Writers : WriterInv(q)'
  BY HolderStep
<1>a. Past' = Past
  BY DEF Past
<1>2. IdsBehindCounter'
  BY <1>a, IdTypes DEF IdsBehindCounter
<1>3. AllDescribed'
  <2>1. \A d : Pending(d)' <=> Pending(d)
    BY DEF Pending
  <2>2. History' = History
    BY <1>a, <2>1 DEF History
  <2> QED
    BY <2>2, DescribedStays
<1>4. SyncIDsAreUnique' /\ PastIsUnique' /\ ClientLoads'
  BY <1>a DEF SyncIDsAreUnique, Stored, PastIsUnique, ClientLoads
<1> QED
  BY <1>1, <1>2, <1>3, <1>4

\* What a save stages: the Diff against what it read.
LEMMA SavedDiff ==
    ASSUME TypeOK, NEW role \in Roles, NEW val \in Values,
           NEW doc \in Docs, doc.val = val,
           doc.dead = (docs[role] # Missing /\ docs[role].dead)
    PROVE  DiffIsTrue(<<role, doc, computeDiff(docs[role], val)>>)
<1>1. doc # Missing /\ docs[role] \in Docs \cup {Missing}
  BY MissingIsNotADoc DEF TypeOK, Snapshots
<1>2. \A f \in Fields : f # FieldDeletedAt /\ Field(doc, f) = val[f]
  BY <1>1, StoreAssumption DEF Field, FieldDeletedAt
<1>3. Field(doc, FieldDeletedAt) = Field(docs[role], FieldDeletedAt)
  <2>1. CASE docs[role] = Missing
    BY <1>1, <2>1 DEF Field, Unset
  <2>2. CASE docs[role] # Missing
    <3>1. docs[role].dead \in BOOLEAN
      BY <1>1, <2>2 DEF Docs
    <3>2. doc.dead = docs[role].dead
      BY <2>2, <3>1
    <3> QED
      BY <1>1, <2>2, <3>2 DEF Field
  <2> QED
    BY <2>1, <2>2
<1>4. \A c \in computeDiff(docs[role], val) : c = <<c[1], Field(doc, c[1])>>
  BY <1>2 DEF computeDiff
<1>5. \A f \in Fields : \/ \E c \in computeDiff(docs[role], val) : c[1] = f
                        \/ Field(doc, f) = Field(docs[role], f)
  <2> TAKE f \in Fields
  <2>1. CASE val[f] # Field(docs[role], f)
    <3>1. <<f, val[f]>> \in computeDiff(docs[role], val) /\ <<f, val[f]>>[1] = f
      BY <2>1 DEF computeDiff
    <3> QED
      BY <3>1
  <2> QED
    BY <1>2, <2>1
<1> QED
  BY <1>3, <1>4, <1>5 DEF DiffIsTrue, AllFields

LEMMA SaveSteps ==
    ASSUME TypeOK, StoreInv, NEW p \in Writers,
           \/ \E role \in Roles, val \in Values : BeginSave(p, role, val)
           \/ SaveUnchanged(p) \/ PrepareSave(p)
    PROVE  StoreInv'
<1> USE DEF WriterInv, SaveCurrent, StagedReserved, Staging, StagedNewer, StagedWritten,
            EditProgress, WriteIntent, StagedDiffs
<1>1. ASSUME NEW role \in Roles, NEW val \in Values, BeginSave(p, role, val)
      PROVE  StoreInv'
  <2>1. /\ UNCHANGED <<docs, deltas, r, client, comp, lost, syncID>>
        /\ lock = NoOne /\ lock' = p /\ w[p].pc = "idle"
        /\ w'[p] = [pc |-> "save", role |-> role, val |-> val, old |-> docs[role]]
        /\ \A q \in Writers \ {p} : w'[q] = w[q]
    BY <1>1, StoreAssumption DEF BeginSave, TypeOK, StoreInv, LockDiscipline
  <2>2. WriterInv(p)'
    BY <2>1
  <2> QED
    BY <2>1, <2>2, QuietStep, IdTypes
<1>2. CASE SaveUnchanged(p)
  <2>1. w[p].pc = "save" /\ lock = p /\ w[p].old = docs[w[p].role] /\ w[p].role \in Roles
    BY <1>2, WriterFields DEF SaveUnchanged, StoreInv, LockDiscipline
  <2>2. UNCHANGED docs
    BY <1>2, <2>1 DEF SaveUnchanged, TypeOK, Snapshots
  <2>3. /\ UNCHANGED <<deltas, r, client, comp, lost, syncID>>
        /\ w'[p].pc = "idle" /\ \A q \in Writers \ {p} : w'[q] = w[q]
    BY <1>2 DEF SaveUnchanged, Leave, Idle, TypeOK
  <2>4. WriterInv(p)'
    BY <2>3
  <2> QED
    BY <2>1, <2>2, <2>3, <2>4, QuietStep, IdTypes
<1>3. CASE PrepareSave(p)
  <2> DEFINE role == w[p].role
             doc == [val |-> w[p].val, sync |-> syncID + 1,
                     dead |-> w[p].old # Missing /\ w[p].old.dead]
             diff == computeDiff(w[p].old, w[p].val)
  <2>0. PICK x : x = <<role, doc, diff>>
    OBVIOUS
  <2>1. w[p].pc = "save" /\ lock = p /\ w[p].old = docs[role] /\ role \in Roles
        /\ syncID < MaxSyncID /\ w[p].val \in Values
    BY <1>3, WriterFields DEF PrepareSave, StoreInv, LockDiscipline
  <2>2. /\ UNCHANGED <<docs, deltas, r, client, comp, lost, lock>>
        /\ syncID' = syncID + 1
        /\ w'[p] = [pc |-> "write", staged |-> {x}]
        /\ \A q \in Writers \ {p} : w'[q] = w[q]
    BY <1>3, <2>0 DEF PrepareSave, TypeOK
  <2>3. doc \in Docs
    <3>1. (w[p].old # Missing /\ w[p].old.dead) \in BOOLEAN
      BY <2>1, WriterFields DEF Docs
    <3> QED
      BY <2>1, <3>1, PreparedDoc
  <2>a. diff \in Diffs /\ x \in Staged
    BY <2>0, <2>1, <2>3, DiffTypes, StagedFields
  <2>b. DiffIsTrue(x)'
    <3>1. doc.val = w[p].val /\ doc.dead = (docs[role] # Missing /\ docs[role].dead)
      BY <2>1
    <3>2. DiffIsTrue(<<role, doc, computeDiff(docs[role], w[p].val)>>)
      BY <2>1, <2>3, <3>1, SavedDiff
    <3>3. DiffIsTrue(x)
      BY <2>0, <2>1, <3>2
    <3> QED
      BY <2>2, <3>3 DEF DiffIsTrue
  <2>4. SaveIntent(w[p].staged)'
    <3>1. doc.dead = (Stored(role) /\ docs[role].dead)
      BY <2>1 DEF Stored
    <3>2. \E y \in Roles, d \in Docs, e \in Diffs :
            /\ {x} = {<<y, d, e>>}
            /\ d.dead = (Stored(y) /\ docs[y].dead)
      BY <2>0, <2>1, <2>3, <2>a, <3>1
    <3>3. w'[p].staged = {x}
      BY <2>2
    <3> HIDE DEF doc, role, diff
    <3> QED
      BY <2>2, <3>2, <3>3 DEF SaveIntent, Stored
  <2>5. \A y \in w'[p].staged : y = x /\ y[2].sync = syncID + 1
    BY <2>0, <2>2
  <2>6. \A y, z \in w'[p].staged : y = z
    BY <2>2
  <2>7. \A y \in w'[p].staged : IdReserved(y)'
    <3>1. Past' = Past
      BY <2>2 DEF Past
    <3> QED
      BY <2>2, <2>5, <3>1, IdTypes DEF IdReserved, StoreInv, IdsBehindCounter
  <2>8. \A z \in w'[p].staged : \A y \in Roles : docs'[y].sync < z[2].sync
    BY <2>2, <2>5, IdTypes DEF StoreInv, IdsBehindCounter
  <2>9. w'[p].pc = "write"
    BY <2>2
  <2>10. WriterInv(p)'
    <3>1. \A y \in w'[p].staged : DiffIsTrue(y)'
      BY <2>5, <2>b
    <3> QED
      BY <2>4, <2>6, <2>7, <2>8, <2>9, <3>1
  <2>11. syncID' \in Nat /\ syncID <= syncID'
    BY <2>2, IdTypes
  <2>12. lock' = p /\ w[p].pc # "append" /\ w'[p].pc # "append" /\ lock \in {p, NoOne}
    BY <2>1, <2>2
  <2> HIDE DEF WriterInv
  <2> QED
    BY <2>2, <2>10, <2>11, <2>12, QuietStep
<1> QED
  BY <1>1, <1>2, <1>3

LEMMA TailFacts ==
    ASSUME NEW S, NEW s \in Seq(S), s # <<>>
    PROVE  /\ 1 \in DOMAIN s /\ Head(s) = s[1] /\ s[1] \in S
           /\ \A i \in DOMAIN Tail(s) : i + 1 \in DOMAIN s /\ i + 1 # 1 /\ Tail(s)[i] = s[i + 1]
           /\ \A i, j \in DOMAIN Tail(s) : i + 1 = j + 1 => i = j
           /\ \A i \in DOMAIN s : i # 1 => i - 1 \in DOMAIN Tail(s) /\ Tail(s)[i - 1] = s[i]
  OBVIOUS

\* The edited document has the mark and a new id, and keeps its contents.
LEMMA EditedFields ==
    ASSUME TypeOK, NEW role \in Roles, Stored(role), NEW mark \in BOOLEAN, NEW s
    PROVE  LET doc == [docs[role] EXCEPT !.dead = mark, !.sync = s]
           IN  doc.sync = s /\ doc.dead = mark /\ doc.val = docs[role].val
<1>1. docs[role] \in Docs
  BY DEF TypeOK, Snapshots, Stored
<1> QED
  BY <1>1 DEF Docs

\* What an edit stages: the Diff is the tombstone alone.
LEMMA MarkedDiff ==
    ASSUME TypeOK, NEW role \in Roles, Stored(role), NEW mark \in BOOLEAN, NEW s,
           NEW doc \in Docs, doc = [docs[role] EXCEPT !.dead = mark, !.sync = s]
    PROVE  DiffIsTrue(<<role, doc, {<<FieldDeletedAt, mark>>}>>)
<1>1. doc.dead = mark /\ doc.val = docs[role].val /\ doc # Missing /\ docs[role] # Missing
  BY EditedFields, MissingIsNotADoc DEF Stored
<1>2. Field(doc, FieldDeletedAt) = mark
  BY <1>1 DEF Field
<1>3. \A f \in Fields : Field(doc, f) = Field(docs[role], f)
  BY <1>1, StoreAssumption DEF Field, FieldDeletedAt
<1>4. \A c \in {<<FieldDeletedAt, mark>>} : c = <<c[1], Field(doc, c[1])>>
  BY <1>2
<1>5. \E c \in {<<FieldDeletedAt, mark>>} : c[1] = FieldDeletedAt
  OBVIOUS
<1>6. \A f \in AllFields : f \in Fields \/ f = FieldDeletedAt
  BY DEF AllFields
<1>7. PICK diff : diff = {<<FieldDeletedAt, mark>>}
  OBVIOUS
<1>8. DiffIsTrue(<<role, doc, diff>>)
  BY <1>3, <1>4, <1>5, <1>6, <1>7 DEF DiffIsTrue
<1> QED
  BY <1>7, <1>8

LEMMA BeginEditStep ==
    ASSUME TypeOK, StoreInv, NEW p \in Writers, NEW mark \in BOOLEAN, BeginEdit(p, mark)
    PROVE  StoreInv'
<1>1. /\ UNCHANGED <<docs, deltas, r, client, comp, lost, syncID>>
      /\ lock = NoOne /\ lock' = p /\ w[p].pc = "idle"
      /\ w'[p] = [pc |-> "edit", mark |-> mark, todo |-> allRoles, staged |-> {}]
      /\ \A q \in Writers \ {p} : w'[q] = w[q]
  BY StoreAssumption DEF BeginEdit, TypeOK, StoreInv, LockDiscipline
<1>2. EditProgress(p)'
  BY <1>1, StoreAssumption DEF EditProgress, Roles
<1>3. WriterInv(p)'
  BY <1>1, <1>2 DEF WriterInv, SaveCurrent, StagedReserved, Staging, StagedNewer,
                    StagedWritten, WriteIntent, StagedDiffs
<1> QED
  BY <1>1, <1>3, QuietStep, IdTypes

LEMMA EditRoleStep ==
    ASSUME TypeOK, StoreInv, NEW p \in Writers, EditRole(p)
    PROVE  StoreInv'
<1>1. /\ w[p].pc = "edit" /\ w[p].todo # <<>>
      /\ UNCHANGED <<docs, deltas, r, client, comp, lost, lock>>
  BY DEF EditRole
<1>2. PICK mark \in BOOLEAN, todo \in Seq(Roles), staged \in SUBSET Staged :
        w[p] = [pc |-> "edit", mark |-> mark, todo |-> todo, staged |-> staged]
  BY <1>1, WriterFields
<1>3. PICK role : role = Head(todo)
  OBVIOUS
<1>a. lock = p
  BY <1>1 DEF StoreInv, LockDiscipline
\* What the invariant says of the edit so far.
<1>4. /\ \A i, j \in DOMAIN todo : todo[i] = todo[j] => i = j
      /\ \A x \in staged : Marks(x, mark) /\ \A i \in DOMAIN todo : todo[i] # x[1]
      /\ \A x \in Roles : MustMark(x, mark) =>
            (\E y \in staged : y[1] = x) \/ \E i \in DOMAIN todo : todo[i] = x
      /\ \A x \in staged : IdReserved(x) /\ x[2].sync \in Nat
      /\ \A x, y \in staged : x[1] = y[1] \/ x[2].sync = y[2].sync => x = y
      /\ \A x \in staged : \A y \in Roles : docs[y].sync < x[2].sync
      /\ \A x \in staged : DiffIsTrue(x)
  BY <1>1, <1>2, IdTypes, SMTT(30) DEF StoreInv, WriterInv, EditProgress, StagedReserved, StagedNewer,
                             Staging, StagedDiffs
<1>b. Past' = Past
  BY <1>1 DEF Past
<1>c. \A x : DiffIsTrue(x) => DiffIsTrue(x)'
  BY <1>1 DEF DiffIsTrue
<1>5. /\ 1 \in DOMAIN todo /\ role = todo[1] /\ role \in Roles
      /\ \A i \in DOMAIN Tail(todo) : i + 1 \in DOMAIN todo /\ i + 1 # 1
                                      /\ Tail(todo)[i] = todo[i + 1]
      /\ \A i, j \in DOMAIN Tail(todo) : i + 1 = j + 1 => i = j
      /\ \A i \in DOMAIN todo : i # 1 => i - 1 \in DOMAIN Tail(todo)
                                         /\ Tail(todo)[i - 1] = todo[i]
  <2>1. todo # <<>>
    BY <1>1, <1>2
  <2> QED
    BY <1>3, <2>1, TailFacts
<1>6. /\ \A i, j \in DOMAIN Tail(todo) : Tail(todo)[i] = Tail(todo)[j] => i = j
      /\ \A i \in DOMAIN Tail(todo) : Tail(todo)[i] # role
      /\ \A x \in staged : x[1] # role /\ \A i \in DOMAIN Tail(todo) : Tail(todo)[i] # x[1]
  BY <1>4, <1>5
<1>7. ASSUME NEW x \in Roles, MustMark(x, mark)
      PROVE  \/ x = role
             \/ \E y \in staged : y[1] = x
             \/ \E i \in DOMAIN Tail(todo) : Tail(todo)[i] = x
  <2>1. CASE \E i \in DOMAIN todo : todo[i] = x
    <3>1. PICK i \in DOMAIN todo : todo[i] = x
      BY <2>1
    <3>2. CASE i = 1
      BY <1>5, <3>1, <3>2
    <3>3. CASE i # 1
      <4>1. i - 1 \in DOMAIN Tail(todo) /\ Tail(todo)[i - 1] = x
        BY <1>5, <3>1, <3>3
      <4> QED
        BY <4>1
    <3> QED
      BY <3>2, <3>3
  <2> QED
    BY <1>4, <1>7, <2>1
<1>8. CASE ~Stored(role) \/ docs[role].dead = mark
  <2>1. w' = [w EXCEPT ![p].todo = Tail(todo)] /\ syncID' = syncID
    BY <1>2, <1>3, <1>8 DEF EditRole
  <2>2. /\ w'[p].pc = "edit" /\ w'[p].mark = mark /\ w'[p].todo = Tail(todo)
        /\ w'[p].staged = staged
        /\ \A q \in Writers \ {p} : w'[q] = w[q]
    BY <1>2, <2>1 DEF TypeOK
  <2>3. \A x \in Roles : MustMark(x, mark) =>
            (\E y \in staged : y[1] = x) \/ \E i \in DOMAIN Tail(todo) : Tail(todo)[i] = x
    BY <1>7, <1>8 DEF MustMark
  <2>4. /\ \A x \in staged : Marks(x, mark)'
        /\ \A x \in Roles : MustMark(x, mark)' => MustMark(x, mark)
    BY <1>1, <1>4 DEF Marks, MustMark, Stored
  <2>5. EditProgress(p)'
    BY <1>6, <2>2, <2>3, <2>4 DEF EditProgress
  <2>6. StagedReserved(p)' /\ StagedNewer(p)' /\ StagedDiffs(p)'
    BY <1>1, <1>4, <1>b, <1>c, <2>1, <2>2
       DEF StagedReserved, StagedNewer, Staging, IdReserved, StagedDiffs
  <2>7. WriterInv(p)'
    BY <2>2, <2>5, <2>6 DEF WriterInv, SaveCurrent, StagedWritten, WriteIntent
  <2> QED
    BY <1>1, <1>a, <2>1, <2>2, <2>7, QuietStep, IdTypes
<1>9. CASE ~(~Stored(role) \/ docs[role].dead = mark)
  <2>1. PICK doc : doc = [docs[role] EXCEPT !.dead = mark, !.sync = syncID + 1]
    OBVIOUS
  <2>a. PICK new : new = <<role, doc, {<<FieldDeletedAt, mark>>}>>
    OBVIOUS
  <2>2. /\ syncID < MaxSyncID /\ syncID' = syncID + 1
        /\ w' = [w EXCEPT ![p].todo = Tail(todo), ![p].staged = staged \cup {new}]
    <3>1. w[p].todo = todo /\ w[p].staged = staged /\ w[p].mark = mark
      BY <1>2
    <3>2. Head(w[p].todo) = role
      BY <1>3, <3>1
    <3>3. /\ syncID < MaxSyncID /\ syncID' = syncID + 1
          /\ w' = [w EXCEPT ![p].todo = Tail(w[p].todo),
                            ![p].staged = w[p].staged \cup {<<Head(w[p].todo),
                                [docs[Head(w[p].todo)] EXCEPT !.dead = w[p].mark,
                                                              !.sync = syncID + 1],
                                {<<FieldDeletedAt, w[p].mark>>}>>}]
      BY <1>9, <3>1, <3>2, Zenon DEF EditRole
    <3> QED
      BY <2>1, <2>a, <3>1, <3>2, <3>3, Zenon
  <2>3. PICK staged2 : staged2 = staged \cup {new}
    OBVIOUS
  <2>4. /\ w'[p].pc = "edit" /\ w'[p].mark = mark /\ w'[p].todo = Tail(todo)
        /\ w'[p].staged = staged2
        /\ \A q \in Writers \ {p} : w'[q] = w[q]
    BY <1>2, <2>2, <2>3 DEF TypeOK
  <2>5. doc.sync = syncID + 1 /\ doc.dead = mark
    BY <1>5, <1>9, <2>1, EditedFields
  <2>b. new[1] = role /\ new[2] = doc /\ DiffIsTrue(new)
    <3>1. doc \in Docs
      BY <1>5, <1>9, <2>1, <2>2, EditedDoc
    <3> QED
      BY <1>5, <1>9, <2>1, <2>a, <3>1, MarkedDiff
  <2>6. Marks(new, mark)
    BY <1>9, <2>1, <2>5, <2>b DEF Marks
  <2>7. EditProgress(p)'
    <3>1. \A x \in staged2 : Marks(x, mark) /\ \A i \in DOMAIN Tail(todo) : Tail(todo)[i] # x[1]
      BY <1>4, <1>6, <2>3, <2>6, <2>b
    <3>2. \A x \in Roles : MustMark(x, mark) =>
            (\E y \in staged2 : y[1] = x) \/ \E i \in DOMAIN Tail(todo) : Tail(todo)[i] = x
      <4> SUFFICES ASSUME NEW x \in Roles, MustMark(x, mark),
                          ~\E i \in DOMAIN Tail(todo) : Tail(todo)[i] = x
                   PROVE  \E y \in staged2 : y[1] = x
        OBVIOUS
      <4>1. CASE x = role
        <5>1. new \in staged2 /\ new[1] = x
          BY <2>3, <2>b, <4>1
        <5> QED
          BY <5>1
      <4>2. CASE \E y \in staged : y[1] = x
        BY <2>3, <4>2
      <4> QED
        BY <1>7, <4>1, <4>2
    <3>3. /\ \A x \in staged2 : Marks(x, mark)'
          /\ \A x \in Roles : MustMark(x, mark)' => MustMark(x, mark)
      BY <1>1, <3>1 DEF Marks, MustMark, Stored
    <3> QED
      BY <1>6, <2>4, <3>1, <3>2, <3>3 DEF EditProgress
  <2>8. \A x \in staged : IdReserved(x)' /\ x[2].sync < syncID + 1
    <3>1. syncID' = syncID + 1 /\ syncID \in Nat /\ client' = client
      BY <1>1, <2>2, IdTypes
    <3> TAKE x \in staged
    <3>2. x[2].sync <= syncID /\ x[2].sync \in Nat
      BY <1>4 DEF IdReserved
    <3>3. x[2].sync <= syncID' /\ x[2].sync < syncID + 1
      BY <3>1, <3>2
    <3>4. IdReserved(x)
      BY <1>4
    <3> QED
      BY <1>b, <3>1, <3>3, <3>4 DEF IdReserved
  <2>9. IdReserved(new)' /\ \A y \in Roles : docs[y].sync < new[2].sync
    BY <1>1, <1>b, <2>2, <2>5, <2>b, IdTypes DEF IdReserved, StoreInv, IdsBehindCounter
  <2>10. /\ \A x \in staged2 : IdReserved(x)' /\ DiffIsTrue(x)'
         /\ \A x \in staged2 : \A y \in Roles : docs[y].sync < x[2].sync
    BY <1>4, <1>c, <2>3, <2>8, <2>9, <2>b
  <2>11. \A x, y \in staged2 : x[1] = y[1] \/ x[2].sync = y[2].sync => x = y
    <3>1. \A x \in staged : x[1] # role /\ x[2].sync # doc.sync
      BY <1>4, <1>6, <2>5, <2>8, IdTypes
    <3> QED
      BY <1>4, <2>3, <2>b, <3>1
  <2>12. StagedReserved(p)' /\ StagedNewer(p)' /\ StagedDiffs(p)'
    BY <1>1, <2>4, <2>10, <2>11 DEF StagedReserved, StagedNewer, Staging, StagedDiffs
  <2>13. WriterInv(p)'
    BY <2>4, <2>7, <2>12 DEF WriterInv, SaveCurrent, StagedWritten, WriteIntent
  <2>14. syncID' \in Nat /\ syncID <= syncID'
    BY <2>2, IdTypes
  <2> QED
    BY <1>1, <1>a, <2>4, <2>13, <2>14, QuietStep
<1> QED
  BY <1>8, <1>9

LEMMA EndEditStep ==
    ASSUME TypeOK, StoreInv, NEW p \in Writers, EndEdit(p)
    PROVE  StoreInv'
<1>1. /\ UNCHANGED <<docs, deltas, r, client, comp, lost, syncID, lock>>
      /\ w[p].pc = "edit" /\ w[p].todo = <<>>
      /\ w'[p] = [pc |-> "write", staged |-> w[p].staged]
      /\ \A q \in Writers \ {p} : w'[q] = w[q]
  BY DEF EndEdit, TypeOK
<1>2. lock = p /\ w[p].mark \in BOOLEAN
  BY <1>1, WriterFields DEF StoreInv, LockDiscipline
<1>3. EditProgress(p) /\ StagedReserved(p) /\ StagedNewer(p) /\ StagedDiffs(p)
  BY DEF StoreInv, WriterInv
<1>4. MarkIntent(w[p].staged, w[p].mark)
  BY <1>1, <1>3 DEF EditProgress, MarkIntent
<1>5. WriteIntent(p)'
  <2>1. w'[p].staged = w[p].staged
    BY <1>1
  <2>2. \E mark \in BOOLEAN : MarkIntent(w[p].staged, mark)'
    <3>1. \E mark \in BOOLEAN : MarkIntent(w[p].staged, mark)
      BY <1>2, <1>4
    <3> QED
      BY <1>1, <2>1, <3>1, ZenonT(30) DEF MarkIntent, Marks, MustMark, Stored
  <2> QED
    BY <2>2 DEF WriteIntent
<1>6. WriterInv(p)'
  <2>1. Past' = Past
    BY <1>1 DEF Past
  <2>2. \A x : DiffIsTrue(x) => DiffIsTrue(x)'
    BY <1>1 DEF DiffIsTrue
  <2> QED
    BY <1>1, <1>3, <1>5, <2>1, <2>2 DEF WriterInv, SaveCurrent, StagedReserved, Staging,
       StagedNewer, StagedWritten, EditProgress, IdReserved, StagedDiffs
<1> QED
  BY <1>1, <1>2, <1>6, QuietStep, IdTypes

LEMMA LeaveSteps ==
    ASSUME TypeOK, StoreInv, NEW p \in Writers, WriteFails(p) \/ InvalidateSnapshot(p)
    PROVE  StoreInv'
<1>1. /\ UNCHANGED <<docs, deltas, r, client, comp, lost, syncID>>
      /\ w[p].pc = "write" \/ (w[p].pc = "append" /\ w[p].staged = {})
      /\ w'[p].pc = "idle"
      /\ \A q \in Writers \ {p} : w'[q] = w[q]
  BY DEF WriteFails, InvalidateSnapshot, Leave, Idle, TypeOK
<1>2. lock = p
  BY <1>1 DEF StoreInv, LockDiscipline
<1>3. WriterInv(p)'
  BY <1>1 DEF WriterInv, SaveCurrent, StagedReserved, Staging, StagedNewer, StagedWritten,
              EditProgress, WriteIntent, StagedDiffs
<1> QED
  BY <1>1, <1>2, <1>3, QuietStep, IdTypes

\* The effect of a write: the staged documents are stored, the others stay.
LEMMA WriteEffect ==
    ASSUME TypeOK, StoreInv, NEW p \in Writers, Write(p)
    PROVE  /\ w[p].pc = "write" /\ lock = p
           /\ w[p].staged \in SUBSET Staged
           /\ \A x \in w[p].staged : docs'[x[1]] = x[2]
           /\ \A role \in Roles : \/ docs'[role] = docs[role]
                                  \/ \E x \in w[p].staged : x[1] = role /\ x[2] = docs'[role]
           /\ \A role \in Roles : (\A x \in w[p].staged : x[1] # role) => docs'[role] = docs[role]
           /\ docs' = [role \in Roles |-> docs'[role]]
<1>1. w[p].pc = "write" /\ w[p].staged \in SUBSET Staged
  BY WriterFields DEF Write
<1>2. PICK staged \in SUBSET Staged : staged = w[p].staged
  BY <1>1
<1>3. lock = p /\ \A x, y \in staged : x[1] = y[1] => x = y
  BY <1>1, <1>2 DEF StoreInv, LockDiscipline, WriterInv, StagedReserved, Staging
<1>4. \A x \in staged : x[1] \in Roles /\ x[1] \in StagedRoles(staged)
                        /\ StagedDoc(staged, x[1]) = x[2]
  BY <1>3, StagedFields DEF StagedRoles, StagedDoc
<1>5. docs' = [role \in Roles |-> IF role \in StagedRoles(staged)
                                  THEN StagedDoc(staged, role) ELSE docs[role]]
  BY <1>2 DEF Write
<1>6. \A x \in staged : docs'[x[1]] = x[2]
  BY <1>4, <1>5
<1>7. \A role \in Roles : role \notin StagedRoles(staged) => docs'[role] = docs[role]
  BY <1>5
<1>8. \A role \in StagedRoles(staged) : \E x \in staged : x[1] = role
  BY DEF StagedRoles
<1>9. \A role \in StagedRoles(staged) : \E x \in staged : x[1] = role /\ x[2] = docs'[role]
  BY <1>6, <1>8
<1>10. docs' = [role \in Roles |-> docs'[role]]
  BY <1>5
<1>11. \A role \in Roles : (\A x \in staged : x[1] # role) => role \notin StagedRoles(staged)
  BY DEF StagedRoles
<1> QED
  BY <1>1, <1>2, <1>3, <1>6, <1>7, <1>9, <1>10, <1>11

LEMMA WriteStep ==
    ASSUME TypeOK, StoreInv, NEW p \in Writers, Write(p)
    PROVE  StoreInv'
<1>1. PICK staged \in SUBSET Staged : staged = w[p].staged
  BY WriteEffect
<1>2. /\ w[p].pc = "write" /\ lock = p
      /\ \A x \in staged : docs'[x[1]] = x[2]
      /\ \A role \in Roles : \/ docs'[role] = docs[role]
                             \/ \E x \in staged : x[1] = role /\ x[2] = docs'[role]
  BY <1>1, WriteEffect
<1>a. PICK kept \in SUBSET staged : kept = {x \in staged : x[3] # {}}
  OBVIOUS
<1>3. /\ UNCHANGED <<syncID, deltas, lock, r, client, comp, lost>>
      /\ w'[p].pc = "append" /\ w'[p].staged = kept
      /\ \A q \in Writers \ {p} : w'[q] = w[q]
  BY <1>1, <1>a DEF Write, TypeOK
<1>4. /\ \A x \in staged : IdReserved(x) /\ x[2].sync \in Nat \ {0} /\ x[1] \in Roles
      /\ \A x, y \in staged : x[1] = y[1] \/ x[2].sync = y[2].sync => x = y
      /\ \A x \in staged : \A role \in Roles : docs[role].sync < x[2].sync
      /\ \A x \in staged : DiffIsTrue(x)
  BY <1>1, <1>2, IdTypes DEF StoreInv, WriterInv, StagedReserved, StagedNewer, Staging,
                             StagedDiffs
<1>b. Past' = Past
  BY <1>3 DEF Past
<1>5. WriterInv(p)'
  <2>1. \A x \in kept : IdReserved(x)'
    BY <1>3, <1>4, <1>b DEF IdReserved
  <2> QED
    BY <1>2, <1>3, <1>4, <2>1 DEF WriterInv, SaveCurrent, StagedReserved, Staging,
       StagedNewer, StagedWritten, EditProgress, WriteIntent, StagedDiffs
<1>6. LockDiscipline' /\ \A q \in Writers : WriterInv(q)'
  BY <1>2, <1>3, <1>5, HolderStep DEF StoreInv
\* The id of a document is what it was, or one that nothing else has.
<1>7. ASSUME NEW role \in Roles
      PROVE  \/ docs'[role] = docs[role]
             \/ /\ docs'[role].sync <= syncID
                /\ \A d \in deltas : d.sync < docs'[role].sync
                /\ \A y \in Roles : docs[y].sync < docs'[role].sync
                /\ \A y \in Roles : docs'[y].sync = docs'[role].sync => y = role
  <2>1. ASSUME NEW x \in staged, x[1] = role, x[2] = docs'[role]
        PROVE  /\ docs'[role].sync <= syncID
               /\ \A d \in deltas : d.sync < docs'[role].sync
               /\ \A y \in Roles : docs[y].sync < docs'[role].sync
               /\ \A y \in Roles : docs'[y].sync = docs'[role].sync => y = role
    <3>1. PICK s : s = docs'[role].sync
      OBVIOUS
    <3>2. IdReserved(x) /\ s = x[2].sync /\ s \in Nat /\ \A y \in Roles : docs[y].sync < s
      BY <1>4, <2>1, <3>1
    <3>3. \A y \in Roles : \A z \in staged :
                z[1] = y /\ z[2] = docs'[y] /\ docs'[y].sync = s => y = role
      BY <1>4, <2>1, <3>2
    <3>4. \A y \in Roles : docs'[y].sync = s => y = role
      <4>1. \A y \in Roles : docs[y].sync # s
        BY <3>2, IdTypes
      <4> QED
        BY <1>2, <3>3, <4>1
    <3> QED
      BY <3>1, <3>2, <3>4 DEF IdReserved, Past
  <2> QED
    BY <1>2, <2>1
<1>8. IdsBehindCounter' /\ PastIsUnique' /\ ClientLoads'
  BY <1>3, <1>7, <1>b DEF StoreInv, IdsBehindCounter, PastIsUnique, ClientLoads
\* The history grows by the deltas of the staged documents.
<1>c. History = Past
  <2>1. \A q \in Writers : w[q].pc # "append"
    BY <1>2 DEF StoreInv, LockDiscipline
  <2> QED
    BY <2>1, IdTypes DEF History, Pending
<1>d. ASSUME NEW e \in History'
      PROVE  e \in Past \/ \E x \in kept : e = DeltaEntry(x)
  <2>1. \A q \in Writers : w'[q].pc = "append" => q = p
    BY <1>2, <1>3 DEF StoreInv, LockDiscipline
  <2> QED
    BY <1>3, <1>b, <1>d, <2>1 DEF History, Pending
<1>e. Past \subseteq History'
  BY <1>b, IdTypes DEF History
<1>f. ASSUME NEW x \in kept
      PROVE  DeltaEntry(x) \in History'
  <2>1. DeltaEntry(x) \in Deltas
    BY DeltaEntryFields
  <2> QED
    BY <1>3, <2>1 DEF History, Pending
<1>9. ASSUME NEW role \in Roles, NEW f \in AllFields
      PROVE  Described(role, f)'
  <2>1. ASSUME NEW x \in staged, x[1] = role, NEW c \in x[3], c[1] = f
        PROVE  Described(role, f)'
    <3>1. x \in kept /\ x \in Staged
      BY <1>a, <2>1
    <3>2. c = <<f, Field(docs'[role], f)>>
      <4>1. c = <<c[1], Field(x[2], c[1])>>
        BY <1>4 DEF DiffIsTrue
      <4> QED
        BY <1>2, <2>1, <4>1
    <3>3. PICK d : d = DeltaEntry(x)
      OBVIOUS
    <3>4. /\ d \in History' /\ d.role = role /\ d.sync = x[2].sync
          /\ <<f, Field(docs'[role], f)>> \in d.changes
      BY <1>f, <2>1, <3>1, <3>2, <3>3, DeltaEntryFields
    <3>5. ASSUME NEW e \in History', Mentions(e, role, f) PROVE e.sync <= d.sync
      <4>1. CASE e \in Past
        <5>1. e.sync < x[2].sync /\ e.sync \in Nat /\ x[2].sync \in Nat
          <6>1. IdReserved(x) /\ x[2].sync \in Nat
            BY <1>4
          <6> QED
            BY <4>1, <6>1, IdTypes DEF IdReserved
        <5> QED
          BY <3>4, <5>1
      <4>2. ASSUME NEW y \in kept, e = DeltaEntry(y) PROVE e.sync <= d.sync
        <5>1. y \in Staged /\ e.role = y[1]
          BY <4>2, DeltaEntryFields
        <5>2. y[1] = role
          BY <3>5, <5>1 DEF Mentions
        <5>3. y = x
          BY <1>4, <2>1, <5>2
        <5> QED
          BY <1>4, <3>3, <3>4, <4>2, <5>3
      <4> QED
        BY <1>d, <4>1, <4>2
    <3> QED
      BY <3>4, <3>5 DEF Described, Mentions
  <2>2. ASSUME \A x \in staged : x[1] = role => \A c \in x[3] : c[1] # f
        PROVE  Described(role, f)'
    <3>1. Field(docs'[role], f) = Field(docs[role], f)
      <4>1. ASSUME NEW x \in staged, x[1] = role, x[2] = docs'[role]
            PROVE  Field(docs'[role], f) = Field(docs[role], f)
        BY <1>4, <2>2, <4>1 DEF DiffIsTrue
      <4> QED
        BY <1>2, <4>1
    <3>2. ASSUME NEW e \in History', Mentions(e, role, f) PROVE e \in History
      <4>1. ASSUME NEW x \in kept, e = DeltaEntry(x) PROVE FALSE
        <5>1. e.role = x[1] /\ e.changes = x[3] /\ x \in staged
          BY <4>1, DeltaEntryFields
        <5> QED
          BY <2>2, <3>2, <5>1 DEF Mentions
      <4> QED
        BY <1>c, <1>d, <3>2, <4>1
    <3>3. Described(role, f)
      BY DEF StoreInv, AllDescribed
    <3>4. History \subseteq History'
      BY <1>c, <1>e
    <3>5. CASE /\ \A e \in History : ~Mentions(e, role, f)
               /\ Field(docs[role], f) = Unset(f)
      BY <3>1, <3>2, <3>5 DEF Described, Mentions
    <3>6. CASE \E d \in History :
                /\ d.role = role /\ <<f, Field(docs[role], f)>> \in d.changes
                /\ \A e \in History : Mentions(e, role, f) => e.sync <= d.sync
      BY <3>1, <3>2, <3>4, <3>6 DEF Described, Mentions
    <3> QED
      BY <3>3, <3>5, <3>6 DEF Described
  <2> QED
    BY <2>1, <2>2
<1>10. SyncIDsAreUnique'
  <2>1. \A x, y \in Roles : Stored(x)' /\ docs'[x].sync = docs'[y].sync => x = y
    BY <1>7, IdTypes DEF StoreInv, SyncIDsAreUnique, Stored
  <2>2. \A d, e \in deltas' : d.sync = e.sync => d = e
    BY <1>3 DEF StoreInv, SyncIDsAreUnique
  <2>3. \A d \in deltas', x \in Roles : d.sync = docs'[x].sync => d.role = x
    <3> TAKE d \in deltas', x \in Roles
    <3>1. CASE docs'[x] = docs[x]
      BY <1>3, <3>1 DEF StoreInv, SyncIDsAreUnique
    <3>2. CASE \A e \in deltas : e.sync < docs'[x].sync
      BY <1>3, <3>2, IdTypes
    <3> QED
      BY <1>7, <3>1, <3>2
  <2> QED
    BY <2>1, <2>2, <2>3 DEF SyncIDsAreUnique
<1> QED
  BY <1>6, <1>8, <1>9, <1>10 DEF StoreInv, AllDescribed

LEMMA AppendStep ==
    ASSUME TypeOK, StoreInv, NEW p \in Writers, NEW failed \in BOOLEAN, Append1(p, failed)
    PROVE  StoreInv'
<1>1. w[p].pc = "append" /\ w[p].staged # {} /\ w[p].staged \in SUBSET Staged
      /\ UNCHANGED <<docs, syncID, lock, r, client, comp>>
  BY WriterFields DEF Append1
<1>2. PICK staged \in SUBSET Staged : staged = w[p].staged /\ staged # {}
  BY <1>1
<1>3. PICK x : x = CHOOSE y \in w[p].staged : \A z \in w[p].staged : y[2].sync <= z[2].sync
  OBVIOUS
<1>4. x \in staged /\ \A y \in staged : x[2].sync <= y[2].sync
  BY <1>2, <1>3, FirstStaged
<1>5. PICK delta : delta = DeltaEntry(x)
  OBVIOUS
<1>6. /\ deltas' = IF failed THEN deltas ELSE deltas \cup {delta}
      /\ lost' = IF failed THEN lost \cup {delta} ELSE lost
      /\ w' = [w EXCEPT ![p].staged = staged \ {x}]
  BY <1>2, <1>3, <1>5, Zenon DEF Append1
<1>7. /\ w'[p].pc = "append" /\ w'[p].staged = staged \ {x}
      /\ \A q \in Writers \ {p} : w'[q] = w[q]
  BY <1>1, <1>6 DEF TypeOK
<1>8. /\ lock = p
      /\ \A y \in staged : IdReserved(y) /\ y[2].sync \in Nat \ {0} /\ y[1] \in Roles
      /\ \A y, z \in staged : y[1] = z[1] \/ y[2].sync = z[2].sync => y = z
      /\ \A y \in staged : docs[y[1]] = y[2]
  BY <1>1, <1>2, IdTypes DEF StoreInv, LockDiscipline, WriterInv, StagedReserved, Staging,
                             StagedWritten
<1>9. /\ delta \in Deltas /\ delta.sync = x[2].sync /\ delta.role = x[1] /\ delta.role \in Roles
      /\ delta.sync = docs[delta.role].sync /\ delta.sync \in Nat \ {0}
      /\ \A d \in Past : d.sync < delta.sync
      /\ delta.sync <= syncID
      /\ \A y \in staged \ {x} : delta.sync < y[2].sync
  <2>1. /\ delta \in Deltas /\ delta.sync = x[2].sync /\ delta.role = x[1]
        /\ docs[x[1]] = x[2] /\ x[1] \in Roles /\ x[2].sync \in Nat \ {0}
    BY <1>4, <1>5, <1>8, DeltaEntryFields
  <2>2. IdReserved(x)
    BY <1>4, <1>8
  <2>3. (\A d \in Past : d.sync < delta.sync) /\ delta.sync <= syncID
    BY <2>1, <2>2 DEF IdReserved
  <2>4. \A y \in staged \ {x} : delta.sync < y[2].sync
    BY <1>4, <1>8, <2>1
  <2> QED
    BY <2>1, <2>3, <2>4
<1>10. Past' = Past \cup {delta}
  BY <1>1, <1>6 DEF Past
<1>11. WriterInv(p)'
  <2>1. \A y \in staged \ {x} : IdReserved(y)'
    BY <1>1, <1>8, <1>9, <1>10 DEF IdReserved
  <2>2. StagedReserved(p)' /\ StagedWritten(p)'
    BY <1>1, <1>7, <1>8, <2>1 DEF StagedReserved, StagedWritten
  <2> QED
    BY <1>7, <2>2 DEF WriterInv, SaveCurrent, StagedNewer, EditProgress, WriteIntent,
                      StagedDiffs
<1>12. LockDiscipline' /\ \A q \in Writers : WriterInv(q)'
  BY <1>1, <1>7, <1>8, <1>11, HolderStep DEF StoreInv
<1>13. IdsBehindCounter' /\ PastIsUnique' /\ ClientLoads'
  BY <1>1, <1>9, <1>10, IdTypes DEF StoreInv, IdsBehindCounter, PastIsUnique, ClientLoads
\* The delta was pending, and is now appended or lost: the history is the same.
<1>14. AllDescribed'
  <2>1. \A q \in Writers : w[q].pc = "append" => q = p
    BY <1>8 DEF StoreInv, LockDiscipline
  <2>2. \A d : Pending(d) <=> \E y \in staged : d = DeltaEntry(y)
    BY <1>1, <1>2, <2>1 DEF Pending
  <2>3. \A d : Pending(d)' <=> \E y \in staged \ {x} : d = DeltaEntry(y)
    BY <1>7, <2>1 DEF Pending
  <2>4. ASSUME NEW d
        PROVE  (d \in Past \/ Pending(d)) <=> (d \in Past' \/ Pending(d)')
    BY <1>4, <1>5, <1>10, <2>2, <2>3
  <2>5. History' = History
    BY <2>4 DEF History
  <2> QED
    BY <1>1, <2>5, DescribedStays DEF StoreInv
<1>15. SyncIDsAreUnique'
  <2>0. \A d \in deltas' : d \in deltas \/ d = delta
    BY <1>6
  <2>1. \A y, z \in Roles : Stored(y)' /\ docs'[y].sync = docs'[z].sync => y = z
    BY <1>1 DEF StoreInv, SyncIDsAreUnique, Stored
  <2>2. \A d, e \in deltas' : d.sync = e.sync => d = e
    BY <1>13 DEF PastIsUnique, Past
  <2>3. \A d \in deltas', y \in Roles : d.sync = docs'[y].sync => d.role = y
    <3>1. Stored(delta.role)
      BY <1>9 DEF Stored, Missing
    <3>2. \A y \in Roles : delta.sync = docs[y].sync => delta.role = y
      BY <1>9, <3>1 DEF StoreInv, SyncIDsAreUnique
    <3> QED
      BY <1>1, <2>0, <3>2 DEF StoreInv, SyncIDsAreUnique
  <2> QED
    BY <2>1, <2>2, <2>3 DEF SyncIDsAreUnique
<1> QED
  BY <1>12, <1>13, <1>14, <1>15 DEF StoreInv

\* A step of the client or of a reader: only the client's position moves, to
\* its bootstrap or to a delta that exists.
LEMMA ClientMove ==
    ASSUME TypeOK, StoreInv, UNCHANGED <<docs, syncID, deltas, lock, w, lost, comp>>,
           client'.pos \in Nat, client'.pos <= syncID,
           client'.at \in Nat, client'.at <= syncID,
           \/ client'.pos = client.pos /\ client'.raced = client.raced
           \/ \E d \in deltas : client'.pos = d.sync
           \/ /\ client.pc # "idle"
              /\ client'.pos = client.at /\ client'.raced = client.open,
           \/ client'.pc = "idle"
           \/ client.pc # "idle" /\ client'.at = client.at /\ client'.open = client.open
           \/ client'.open = OpenWrites,
           ClientLoads'
    PROVE  StoreInv'
<1>a. Past' = Past /\ History' = History
  BY DEF Past, History, Pending
<1>1. IdsBehindCounter' /\ PastIsUnique'
  BY <1>a DEF StoreInv, IdsBehindCounter, PastIsUnique
<1>2. ASSUME NEW p \in Writers, Staging(p), NEW x \in w[p].staged
      PROVE  IdReserved(x)'
  <2>1. IdReserved(x) /\ x[2].sync \in Nat
    BY <1>2, IdTypes DEF StoreInv, WriterInv, StagedReserved
  <2>2. client'.pos < x[2].sync \/ <<x[1], x[2].sync>> \in client'.raced
    <3>1. CASE client'.pos = client.pos /\ client'.raced = client.raced
      BY <2>1, <3>1 DEF IdReserved
    <3>2. CASE \E d \in deltas : client'.pos = d.sync
      BY <2>1, <3>2 DEF IdReserved, Past
    <3>3. CASE client.pc # "idle" /\ client'.pos = client.at /\ client'.raced = client.open
      BY <2>1, <3>3 DEF IdReserved
    <3> QED
      BY <3>1, <3>2, <3>3
  <2>3. client'.pc # "idle" => client'.at < x[2].sync \/ <<x[1], x[2].sync>> \in client'.open
    <3>1. CASE client.pc # "idle" /\ client'.at = client.at /\ client'.open = client.open
      BY <2>1, <3>1 DEF IdReserved
    <3>2. CASE client'.open = OpenWrites
      BY <1>2, <3>2 DEF OpenWrites, Staging
    <3> QED
      BY <3>1, <3>2
  <2> QED
    BY <1>a, <2>1, <2>2, <2>3 DEF IdReserved
<1>3. ASSUME NEW p \in Writers PROVE WriterInv(p)'
  <2>1. WriterInv(p)
    BY DEF StoreInv
  <2>2. StagedReserved(p)'
    BY <1>2, <2>1 DEF WriterInv, StagedReserved, Staging
  <2>3. EditProgress(p)' /\ WriteIntent(p)' /\ StagedDiffs(p)'
    BY <2>1, IntentsStay DEF WriterInv
  <2> QED
    BY <2>1, <2>2, <2>3 DEF WriterInv, SaveCurrent, StagedNewer, StagedWritten
<1>4. LockDiscipline' /\ SyncIDsAreUnique' /\ AllDescribed'
  BY <1>a, DescribedStays DEF StoreInv, LockDiscipline, SyncIDsAreUnique, Stored
<1> QED
  BY <1>1, <1>3, <1>4 DEF StoreInv

\* LoadSnapshot returns, to a reader or to the client with its bootstrap.
LEMMA ReturnMove ==
    ASSUME TypeOK, StoreInv, UNCHANGED <<docs, syncID, deltas, lock, w, lost, comp>>,
           NEW q \in Loaders, NEW snap, Return(q, snap), q = Client => client.pc = "boot"
    PROVE  StoreInv'
<1>1. r' = [r EXCEPT ![q] = Idle] /\ r'[q] = Idle /\ Client \in Loaders
  BY DEF Return, TypeOK, Loaders
<1>2. CASE q = Client
  <2>1. /\ client.pc = "boot" /\ client'.pc = "idle" /\ client'.pos = client.at
        /\ client'.at = 0 /\ client'.raced = client.open
    BY <1>2 DEF Return, Bootstrapped, TypeOK, Clients
  <2>2. ClientLoads'
    BY <1>1, <1>2 DEF ClientLoads, Idle
  <2>3. client.at \in Nat /\ client.at <= syncID /\ syncID \in Nat
    BY IdTypes DEF StoreInv, IdsBehindCounter
  <2> QED
    BY <2>1, <2>2, <2>3, ClientMove
<1>3. CASE q # Client
  <2>1. client' = client
    BY <1>3 DEF Return
  <2>2. ClientLoads'
    BY <1>1, <1>3, <2>1 DEF StoreInv, ClientLoads, TypeOK
  <2> QED
    BY <2>1, <2>2, ClientMove, IdTypes DEF StoreInv, IdsBehindCounter
<1> QED
  BY <1>2, <1>3

\* A load goes on.
LEMMA LoadMove ==
    ASSUME TypeOK, StoreInv, UNCHANGED <<docs, syncID, deltas, lock, w, lost, comp, client>>,
           NEW q \in Loaders, NEW x, r' = [r EXCEPT ![q] = x],
           q = Client => client.pc = "boot"
    PROVE  StoreInv'
<1>1. ClientLoads'
  BY DEF StoreInv, ClientLoads, TypeOK, Loaders
<1> QED
  BY <1>1, ClientMove, IdTypes DEF StoreInv, IdsBehindCounter

LEMMA LoadSteps ==
    ASSUME TypeOK, StoreInv,
           \/ \E q \in Readers : BeginLoad(q)
           \/ \E q \in Loaders : \/ Lookup(q) \/ ReadRole(q)
                                 \/ StampSnapshot(q) \/ StoreSnapshot(q)
           \/ BuildBootstrap
    PROVE  StoreInv'
<1> DEFINE Same == UNCHANGED <<docs, syncID, deltas, lock, w, lost, comp>>
<1>1. ASSUME NEW q \in Readers, BeginLoad(q) PROVE StoreInv'
  <2>1. q \in Loaders /\ q # Client
    BY StoreAssumption DEF Loaders
  <2> QED
    BY <1>1, <2>1, LoadMove DEF BeginLoad, store
<1>2. ASSUME NEW q \in Loaders, Lookup(q) \/ ReadRole(q) \/ StampSnapshot(q) \/ StoreSnapshot(q)
      PROVE  StoreInv'
  <2>1. /\ Same
        /\ \/ \E snap : Return(q, snap)
           \/ UNCHANGED client /\ \E x : r' = [r EXCEPT ![q] = x]
    BY <1>2 DEF Lookup, ReadRole, StampSnapshot, StoreSnapshot, store
  <2>2. q = Client => client.pc = "boot"
    <3>1. r[q].pc # "idle"
      BY <1>2 DEF Lookup, ReadRole, StampSnapshot, StoreSnapshot
    <3> QED
      BY <3>1 DEF StoreInv, ClientLoads
  <2> QED
    BY <2>1, <2>2, ReturnMove, LoadMove
<1>3. CASE BuildBootstrap
  <2>1. /\ Same /\ client.pc = "boot" /\ Client \in Loaders
        /\ \/ Return(Client, Nothing)
           \/ /\ UNCHANGED client
              /\ r' = [r EXCEPT ![Client] = [pc |-> "lookup", at |-> syncID]]
    BY <1>3 DEF BuildBootstrap, store, Loaders
  <2> QED
    BY <2>1, ReturnMove, LoadMove
<1> QED
  BY <1>1, <1>2, <1>3

LEMMA ClientSteps ==
    ASSUME TypeOK, StoreInv, Poll \/ QueryDeltas \/ QueryFails
    PROVE  StoreInv'
<1>1. UNCHANGED <<docs, syncID, deltas, lock, w, lost, comp, r>>
  BY DEF Poll, QueryDeltas, QueryFails, store
<1>2. /\ client.pos \in Nat /\ client.at \in Nat /\ syncID \in Nat
      /\ client.pos <= syncID /\ client.at <= syncID
  BY IdTypes DEF StoreInv, IdsBehindCounter
<1>3. ClientLoads'
  BY <1>1 DEF Poll, QueryDeltas, QueryFails, StoreInv, ClientLoads
<1>4. CASE Poll
  <2>1. /\ client'.pos = client.pos /\ client'.raced = client.raced
        /\ client'.at = syncID /\ client'.open = OpenWrites
    BY <1>4 DEF Poll, TypeOK, Clients
  <2> QED
    BY <1>1, <1>2, <1>3, <2>1, ClientMove
<1>5. CASE client.pc = "query" /\ client' = [client EXCEPT !.pc = "boot"]
  <2>1. /\ client'.pos = client.pos /\ client'.raced = client.raced
        /\ client'.at = client.at /\ client'.open = client.open /\ client.pc # "idle"
    BY <1>5 DEF TypeOK, Clients
  <2> QED
    BY <1>1, <1>2, <1>3, <2>1, ClientMove
<1>6. CASE QueryDeltas /\ Since(client.pos) # {}
  <2>1. /\ Page(client.pos) \in SUBSET Deltas /\ Page(client.pos) # {}
        /\ Page(client.pos) \subseteq Since(client.pos)
    BY <1>2, <1>6, PageHasNext
  <2>2. PICK d \in Page(client.pos) : Latest(Page(client.pos)) = d.sync
    BY <2>1, LatestIsGreatest
  <2>3. d \in deltas /\ d \in Past
    BY <2>1, <2>2 DEF Since, Past
  <2>4. client' = Paged(d.sync)
    BY <1>6, <2>2 DEF QueryDeltas
  <2>5. client'.pos = d.sync /\ client'.pc = "idle" /\ client'.at = 0
    BY <2>4 DEF Paged, TypeOK, Clients
  <2>6. d.sync \in Nat /\ d.sync <= syncID
    BY <2>3, IdTypes DEF StoreInv, IdsBehindCounter
  <2> QED
    BY <1>1, <1>2, <1>3, <2>3, <2>5, <2>6, ClientMove
<1> QED
  BY <1>4, <1>5, <1>6 DEF QueryDeltas, QueryFails

\* A compaction only moves deltas to the deleted ones.
LEMMA CompactStep ==
    ASSUME TypeOK, StoreInv, NEW cutoff \in 1..(syncID + 1), CompactDeltas(cutoff)
    PROVE  StoreInv'
<1>1. PICK old \in SUBSET deltas : old = {d \in deltas : d.sync < cutoff}
  OBVIOUS
<1>2. /\ deltas' = deltas \ old /\ comp'.gone = comp.gone \cup old
      /\ UNCHANGED <<docs, syncID, lock, w, lost, client, r>>
  BY <1>1 DEF CompactDeltas
<1>3. Past' = Past
  BY <1>2 DEF Past
<1>4. History' = History
  BY <1>2, <1>3 DEF History, Pending
<1>5. IdsBehindCounter' /\ PastIsUnique' /\ ClientLoads'
  BY <1>2, <1>3 DEF StoreInv, IdsBehindCounter, PastIsUnique, ClientLoads
<1>6. ASSUME NEW p \in Writers PROVE WriterInv(p)'
  <2>1. WriterInv(p)
    BY DEF StoreInv
  <2>2. StagedReserved(p)'
    BY <1>2, <1>3, <2>1 DEF WriterInv, StagedReserved, Staging, IdReserved
  <2>3. EditProgress(p)' /\ WriteIntent(p)' /\ StagedDiffs(p)'
    BY <1>2, <2>1, IntentsStay DEF WriterInv
  <2> QED
    BY <1>2, <2>1, <2>2, <2>3 DEF WriterInv, SaveCurrent, StagedNewer, StagedWritten
<1>7. LockDiscipline' /\ SyncIDsAreUnique'
  BY <1>2 DEF StoreInv, LockDiscipline, SyncIDsAreUnique, Stored
<1>8. AllDescribed'
  BY <1>2, <1>4, DescribedStays DEF StoreInv
<1> QED
  BY <1>5, <1>6, <1>7, <1>8 DEF StoreInv

LEMMA NextStoreInv == TypeOK /\ StoreInv /\ [Next]_vars => StoreInv'
<1> SUFFICES ASSUME TypeOK, StoreInv, [Next]_vars PROVE StoreInv'
  OBVIOUS
<1>1. CASE Maintenance \/ UNCHANGED vars
  <2>1. UNCHANGED <<docs, syncID, deltas, lock, w, lost, comp, client, r>>
    BY <1>1 DEF Maintenance, store, vars
  <2>2. ClientLoads'
    BY <2>1 DEF StoreInv, ClientLoads
  <2> QED
    BY <2>1, <2>2, ClientMove, IdTypes DEF StoreInv, IdsBehindCounter
<1> QED
  BY <1>1, SaveSteps, BeginEditStep, EditRoleStep, EndEditStep, LeaveSteps, WriteStep,
     AppendStep, LoadSteps, ClientSteps, CompactStep DEF Next

LEMMA StoreInvHolds == Spec => [](TypeOK /\ StoreInv)
  BY InitTypeOK, NextTypeOK, InitStoreInv, NextStoreInv, PTL DEF Spec

-----------------------------------------------------------------------------
(* The theorems.                                                           *)

\* A sync id is used once: by one document, and by that document's delta.
THEOREM IdsAreUsedOnce == Spec => []SyncIDsAreUnique
<1>1. StoreInv => SyncIDsAreUnique
  BY DEF StoreInv
<1> QED
  BY <1>1, StoreInvHolds, PTL

\* While no write is in progress, whoever replays the deltas has the stored
\* value of every field, except where a lost or compacted delta was the last to
\* mention it.
THEOREM ReplayReachesDocuments == Spec => []DeltasDescribeDocuments
<1>1. TypeOK /\ StoreInv => DeltasDescribeDocuments
  <2> SUFFICES ASSUME TypeOK, StoreInv, lock = NoOne, NEW role \in Roles, NEW f \in AllFields
               PROVE  \/ \E d \in lost \cup comp.gone :
                          /\ Mentions(d, role, f)
                          /\ \A e \in deltas : Mentions(e, role, f) => e.sync < d.sync
                      \/ /\ \A e \in deltas : ~Mentions(e, role, f)
                         /\ Field(docs[role], f) = Unset(f)
                      \/ \E d \in deltas :
                          /\ d.role = role /\ <<f, Field(docs[role], f)>> \in d.changes
                          /\ \A e \in deltas : Mentions(e, role, f) => e.sync <= d.sync
    BY DEF DeltasDescribeDocuments
  <2>1. \A p \in Writers : w[p].pc # "append"
    BY StoreAssumption DEF StoreInv, LockDiscipline
  <2>2. History = Past
    BY <2>1, IdTypes DEF History, Pending
  <2>3. Described(role, f) /\ deltas \subseteq Past
    BY DEF StoreInv, AllDescribed, Past
  <2>4. CASE /\ \A e \in Past : ~Mentions(e, role, f)
             /\ Field(docs[role], f) = Unset(f)
    BY <2>3, <2>4
  <2>5. ASSUME NEW d \in Past, d.role = role, <<f, Field(docs[role], f)>> \in d.changes,
               \A e \in Past : Mentions(e, role, f) => e.sync <= d.sync
        PROVE  \/ \E g \in lost \cup comp.gone :
                   /\ Mentions(g, role, f)
                   /\ \A e \in deltas : Mentions(e, role, f) => e.sync < g.sync
               \/ /\ d \in deltas
                  /\ \A e \in deltas : Mentions(e, role, f) => e.sync <= d.sync
    <3>1. CASE d \in deltas
      BY <2>3, <2>5, <3>1
    <3>2. CASE d \notin deltas
      <4>1. d \in lost \cup comp.gone
        BY <2>5, <3>2 DEF Past
      <4>2. Mentions(d, role, f)
        <5>1. PICK c \in d.changes : c = <<f, Field(docs[role], f)>>
          BY <2>5
        <5>2. c[1] = f
          BY <5>1
        <5> QED
          BY <2>5, <5>2 DEF Mentions
      <4>3. \A e \in deltas : e.sync # d.sync
        BY <2>3, <3>2 DEF StoreInv, PastIsUnique
      <4>4. \A e \in deltas : Mentions(e, role, f) => e.sync < d.sync
        BY <2>3, <2>5, <4>3, IdTypes
      <4> QED
        BY <4>1, <4>2, <4>4
    <3> QED
      BY <3>1, <3>2
  <2> QED
    BY <2>2, <2>3, <2>4, <2>5 DEF Described
<1> QED
  BY <1>1, StoreInvHolds, PTL

\* No step of any writer puts a delta behind the client's position, but for a
\* write that was under way when the client's bootstrap began.
THEOREM PagingIsComplete == Spec => PagingSkipsNothing
<1> DEFINE Safe == \A d \in deltas' \ deltas :
                      d.sync > client.pos \/ <<d.role, d.sync>> \in client.raced
<1>1. TypeOK /\ StoreInv /\ [Next]_vars => [Safe]_vars
  <2> SUFFICES ASSUME TypeOK, StoreInv, Next PROVE Safe
    OBVIOUS
  <2>1. ASSUME NEW p \in Writers, NEW failed \in BOOLEAN, Append1(p, failed)
        PROVE  Safe
    <3>1. PICK x : x = CHOOSE y \in w[p].staged : \A z \in w[p].staged : y[2].sync <= z[2].sync
      OBVIOUS
    <3>2. /\ w[p].pc = "append" /\ w[p].staged # {}
          /\ deltas' = IF failed THEN deltas ELSE deltas \cup {DeltaEntry(x)}
      BY <2>1, <3>1, Zenon DEF Append1
    <3>3. x \in w[p].staged /\ x \in Staged
      BY <3>1, <3>2, WriterFields, FirstStaged
    <3>4. IdReserved(x) /\ x[2].sync \in Nat
      BY <3>2, <3>3, IdTypes DEF StoreInv, WriterInv, StagedReserved, Staging
    <3>5. \A d \in deltas' \ deltas : d.sync = x[2].sync /\ d.role = x[1]
      BY <3>2, <3>3, DeltaEntryFields
    <3> QED
      BY <3>4, <3>5, IdTypes DEF IdReserved
  <2>2. CASE deltas' \subseteq deltas
    BY <2>2
  <2>3. (\E p \in Writers, failed \in BOOLEAN : Append1(p, failed)) \/ deltas' \subseteq deltas
    BY DEF Next, BeginSave, BeginEdit, SaveUnchanged, PrepareSave, EditRole, EndEdit, Write,
       WriteFails, InvalidateSnapshot, BeginLoad, Lookup, ReadRole, StampSnapshot,
       StoreSnapshot, Maintenance, Poll, QueryDeltas, QueryFails, BuildBootstrap,
       CompactDeltas, store
  <2> QED
    BY <2>1, <2>2, <2>3
<1> QED
  BY <1>1, StoreInvHolds, PTL DEF Spec, PagingSkipsNothing

-----------------------------------------------------------------------------
(* The refinement.  Only a Write changes the documents; by WriteIntent it  *)
(* is a save or a complete edit of the abstract store, and by StagedNewer  *)
(* its ids are above all earlier ones.                                     *)

LEMMA OtherStepsKeepDocuments ==
    ASSUME TypeOK, StoreInv, Next, \A p \in Writers : ~Write(p)
    PROVE  UNCHANGED docs
<1>1. ASSUME NEW p \in Writers, SaveUnchanged(p)
      PROVE  UNCHANGED docs
  <2>1. w[p].pc = "save" /\ w[p].role \in Roles /\ w[p].old = docs[w[p].role]
    BY <1>1, WriterFields DEF SaveUnchanged, StoreInv, WriterInv, SaveCurrent
  <2> QED
    BY <1>1, <2>1 DEF SaveUnchanged, TypeOK, Snapshots
<1> QED
  BY <1>1 DEF Next, BeginSave, BeginEdit, PrepareSave, EditRole, EndEdit, WriteFails, Append1,
     InvalidateSnapshot, BeginLoad, Lookup, ReadRole, StampSnapshot, StoreSnapshot,
     Maintenance, Poll, QueryDeltas, QueryFails, BuildBootstrap, CompactDeltas, store

LEMMA WriteImplementsSave ==
    ASSUME TypeOK, StoreInv, NEW p \in Writers, Write(p), SaveIntent(w[p].staged)
    PROVE  \E role \in Roles : Documents!Save(role)
<1>1. PICK role \in Roles, doc \in Docs, diff \in Diffs :
        /\ w[p].staged = {<<role, doc, diff>>}
        /\ doc.dead = (Stored(role) /\ docs[role].dead)
  BY DEF SaveIntent
<1>2. /\ docs'[role] = doc
      /\ \A y \in Roles : y # role => docs'[y] = docs[y]
      /\ docs' = [y \in Roles |-> docs'[y]]
  <2>1. /\ <<role, doc, diff>> \in w[p].staged
        /\ \A x \in w[p].staged : x[1] = role /\ x[2] = doc
    BY <1>1
  <2>2. docs'[role] = doc
    BY <2>1, WriteEffect
  <2> QED
    BY <2>1, <2>2, WriteEffect
<1>3. \A y \in Roles : docs'[role].sync > docs[y].sync
  <2>1. \A y \in Roles : docs[y].sync < doc.sync
    <3>1. \A x \in w[p].staged : \A y \in Roles : docs[y].sync < x[2].sync
      BY WriteEffect DEF StoreInv, WriterInv, StagedNewer
    <3>2. PICK x \in w[p].staged : x[2] = doc
      BY <1>1
    <3> QED
      BY <3>1, <3>2
  <2> QED
    BY <1>2, <2>1, IdTypes, MissingIsNotADoc
<1>4. docs'[role] # Missing /\ docs'[role].val \in Values
  BY <1>2, MissingIsNotADoc DEF Docs
<1>5. docs' = [docs EXCEPT ![role] = docs'[role]]
  BY <1>2 DEF TypeOK, Snapshots
<1>6. docs'[role].dead = (Stored(role) /\ docs[role].dead)
  BY <1>1, <1>2
<1> QED
  BY <1>3, <1>4, <1>5, <1>6
     DEF Documents!Save, Documents!Newer, Documents!Stored, Documents!Missing, Stored, Missing

LEMMA WriteImplementsMark ==
    ASSUME TypeOK, StoreInv, NEW p \in Writers, Write(p),
           NEW mark \in BOOLEAN, MarkIntent(w[p].staged, mark)
    PROVE  Documents!Mark(mark)
<1>1. PICK staged \in SUBSET Staged : staged = w[p].staged
  BY WriteEffect
<1>2. PICK edited \in SUBSET Roles : edited = {role \in Roles : Stored(role) /\ docs[role].dead # mark}
  OBVIOUS
<1>3. /\ \A x \in staged : docs'[x[1]] = x[2]
      /\ \A role \in Roles : (\A x \in staged : x[1] # role) => docs'[role] = docs[role]
      /\ docs' = [role \in Roles |-> docs'[role]]
  BY <1>1, WriteEffect
<1>4. /\ \A x \in staged : \A role \in Roles : docs[role].sync < x[2].sync
      /\ \A x, y \in staged : x[2].sync = y[2].sync => x = y
  BY <1>1, WriteEffect DEF StoreInv, WriterInv, StagedNewer, StagedReserved, Staging
<1>5. /\ \A x \in staged : /\ x[1] \in edited
                           /\ x[2] = [docs[x[1]] EXCEPT !.dead = mark, !.sync = x[2].sync]
      /\ \A role \in edited : \E x \in staged : x[1] = role
  BY <1>1, <1>2, StagedFields DEF MarkIntent, Marks, MustMark
<1>6. ASSUME NEW role \in edited
      PROVE  /\ \A y \in Roles : docs'[role].sync > docs[y].sync
             /\ docs'[role] = [docs[role] EXCEPT !.dead = mark, !.sync = docs'[role].sync]
             /\ \A y \in edited \ {role} : docs'[y].sync # docs'[role].sync
  <2>1. PICK x \in staged : x[1] = role
    BY <1>5
  <2>2. docs'[role] = x[2] /\ x[2].sync \in Nat
    BY <1>3, <2>1, StagedFields
  <2>3. \A y \in Roles : docs'[role].sync > docs[y].sync
    BY <1>4, <2>1, <2>2, IdTypes
  <2>4. docs'[role] = [docs[role] EXCEPT !.dead = mark, !.sync = docs'[role].sync]
    BY <1>5, <2>1, <2>2
  <2>5. ASSUME NEW y \in edited \ {role}, docs'[y].sync = docs'[role].sync
        PROVE  FALSE
    <3>1. PICK z \in staged : z[1] = y
      BY <1>5
    <3>2. z[2].sync = x[2].sync
      BY <1>3, <2>2, <2>5, <3>1
    <3> QED
      BY <1>4, <2>1, <2>5, <3>1, <3>2
  <2> QED
    BY <2>3, <2>4, <2>5
<1>7. docs' = [role \in Roles |-> IF role \in edited THEN docs'[role] ELSE docs[role]]
  <2>1. \A role \in Roles : role \notin edited => docs'[role] = docs[role]
    BY <1>3, <1>5
  <2> QED
    BY <1>3, <2>1
<1> QED
  BY <1>2, <1>6, <1>7
     DEF Documents!Mark, Documents!Newer, Documents!Stored, Documents!Missing, Stored, Missing

\* Saves, tombstones and their removal, each spread over many steps of the
\* code and interleaved with everything else, are single steps of the abstract
\* document store: no write is lost and no late save revives a removed worker.
THEOREM StoreImplementsDocuments == Spec => DocumentsAreAtomic
<1>1. Init => Documents!Init
  BY DEF Init, Documents!Init, Documents!Missing, Missing
<1>2. TypeOK /\ StoreInv /\ [Next]_vars => [Documents!Next]_docs
  <2> SUFFICES ASSUME TypeOK, StoreInv, [Next]_vars, docs' # docs PROVE Documents!Next
    OBVIOUS
  <2>1. Next
    BY DEF vars
  <2>2. PICK p \in Writers : Write(p)
    BY <2>1, OtherStepsKeepDocuments
  <2>3. WriterInv(p) /\ w[p].pc = "write"
    BY <2>2 DEF StoreInv, Write
  <2>4. SaveIntent(w[p].staged) \/ \E mark \in BOOLEAN : MarkIntent(w[p].staged, mark)
    BY <2>3 DEF WriterInv, WriteIntent
  <2> QED
    BY <2>2, <2>4, WriteImplementsSave, WriteImplementsMark DEF Documents!Next
<1> QED
  BY <1>1, <1>2, StoreInvHolds, PTL DEF Spec, DocumentsAreAtomic, Documents!Spec
=============================================================================
