--------------------------- MODULE TriangularStore ---------------------------
(***************************************************************************)
(* The triangular store of FSMv2 (umh-core/fsmv2/cse/storage) over the     *)
(* in-memory persistence store (fsmv2/persistence/memory), for the three   *)
(* documents of one worker.                                                *)
(*                                                                         *)
(* Writers save documents and set or clear the worker's tombstone, one at  *)
(* a time under documentWriteMu.  Readers call LoadSnapshot, which takes   *)
(* no part in that lock, reads the documents one after the other (a        *)
(* transaction of the in-memory store reads what is there at that moment)  *)
(* and keeps a cache.  A client follows the deltas by GetDeltas while      *)
(* CompactDeltas deletes old ones.                                         *)
(*                                                                         *)
(* A document is its contents (the business fields), its tombstone and its *)
(* sync id; a delta has the fields that a write changed, not the document. *)
(* Time stamps are left out, and the version is always 1: no caller sends  *)
(* one, and writeDocument counts from the caller's.                        *)
(***************************************************************************)
EXTENDS Naturals, FiniteSets, Sequences

CONSTANTS
    allRoles,           \* <<"identity", "desired", "observed">> in the code
    Fields, Data,       \* fields of a document, and their values
    Absent,             \* the value of a field that a document does not have
    Values,             \* contents of the documents that are saved
    Writers, Readers,
    Client,             \* the caller of LoadSnapshot inside buildBootstrap
    NoOne,              \* not a writer
    DeltaLimit,         \* deltas in one page (100 in the code)
    MaxSyncID,          \* bound on the writes of a run
    MaxPolls,           \* bound on the calls of GetDeltas
    MaxCompactions,     \* bound on the calls of CompactDeltas
    MaxLost             \* bound on the appends that fail

ASSUME StoreAssumption ==
    /\ allRoles \in Seq({"identity", "desired", "observed"})
    /\ \A i, j \in DOMAIN allRoles : allRoles[i] = allRoles[j] => i = j
    /\ \E i \in DOMAIN allRoles : allRoles[i] = "identity"
    /\ Absent \notin Data /\ "_deleted_at" \notin Fields
    /\ Values \subseteq [Fields -> Data \cup {Absent}]
    /\ NoOne \notin Writers /\ Client \notin Readers
    /\ DeltaLimit \in Nat \ {0} /\ MaxSyncID \in Nat /\ MaxCompactions \in Nat
    /\ MaxLost \in Nat /\ MaxPolls \in Nat

VARIABLES
    docs,               \* the stored documents of the worker
    syncID,
    deltas,             \* the delta collection
    lock,               \* holder of documentWriteMu
    w,                  \* [Writers -> the write in progress]
    cache,              \* snapshotCache entry of the worker, or NoSnapshot
    r,                  \* LoadSnapshot in progress, of the readers and the client
    client,             \* GetDeltas in progress and what the client has
    comp,               \* calls of CompactDeltas, and the deltas they deleted
    lost                \* deltas that could not be appended

vars == <<docs, syncID, deltas, lock, w, cache, r, client, comp, lost>>
store == <<docs, syncID, deltas, lock, w, lost>>

Roles == {allRoles[i] : i \in DOMAIN allRoles}
Missing == [sync |-> 0]
NoSnapshot == [at |-> 0]

Loaders == Readers \cup {Client}     \* the callers of LoadSnapshot

Idle == [pc |-> "idle"]
Stored(role) == docs[role] # Missing

(* The fields of a document that deltas mention, and what it has in them.  *)
FieldDeletedAt == "_deleted_at"
AllFields == Fields \cup {FieldDeletedAt}
Unset(f) == IF f = FieldDeletedAt THEN FALSE ELSE Absent
Field(doc, f) ==
    IF doc = Missing THEN Unset(f)
    ELSE IF f = FieldDeletedAt THEN doc.dead ELSE doc.val[f]

(* The client: its calls and its position; of the call in progress, the    *)
(* sync id it began with and the writes that were then under way (open);   *)
(* of the last bootstrap, the writes under way when its call began (raced) *)
(* and those of them that its documents do not have (missed).              *)
NewClient ==
    [pc |-> "idle", polls |-> 0, pos |-> 0, at |-> 0, open |-> {}, raced |-> {}, missed |-> {}]

Init ==
    /\ docs = [role \in Roles |-> Missing]
    /\ syncID = 0
    /\ deltas = {}
    /\ lock = NoOne
    /\ w = [p \in Writers |-> Idle]
    /\ cache = NoSnapshot
    /\ r = [q \in Loaders |-> Idle]
    /\ client = NewClient
    /\ comp = [calls |-> 0, gone |-> {}]
    /\ lost = {}

-----------------------------------------------------------------------------
(* SaveIdentity, SaveDesired, SaveObserved: writeDocument. *)

Leave(p) ==
    /\ lock' = NoOne
    /\ w' = [w EXCEPT ![p] = Idle]

(* The supervisor saves the identity of a worker before anything else of   *)
(* it (AddWorker ends if that fails), and no document is ever deleted.     *)
BeginSave(p, role, val) ==
    /\ role = "identity" \/ Stored("identity")
    /\ lock = NoOne
    /\ lock' = p
    /\ w' = [w EXCEPT ![p] = [pc |-> "save", role |-> role, val |-> val, old |-> docs[role]]]
    /\ UNCHANGED <<docs, syncID, deltas, cache, r, client, comp, lost>>

(* Only the fields of the new document are compared: a save that leaves    *)
(* fields out and changes none is no change.                               *)
getChangedFieldsWithValues(old, val) ==
    {f \in Fields : val[f] # Absent /\ val[f] # old.val[f]}
performDeltaCheck(old, val) ==
    old # Missing => getChangedFieldsWithValues(old, val) # {}

\* Mutant: the fields that the new document does not have are forgotten.
computeDiff_NoRemoved(old, val) ==
    {<<f, val[f]>> : f \in {g \in Fields : val[g] # Absent /\ val[g] # Field(old, g)}}

(* The Diff of a delta: added and modified fields with their new value, and *)
(* removed ones; of a new document, all its fields.                        *)
computeDiff(old, val) == {<<f, val[f]>> : f \in {g \in Fields : val[g] # Field(old, g)}}

(* Without a change only the time stamp of an observed document is written *)
(* (which may fail); otherwise nothing is.                                 *)
SaveUnchanged(p) ==
    /\ w[p].pc = "save" /\ ~performDeltaCheck(w[p].old, w[p].val)
    /\ \/ /\ w[p].role = "observed"
          /\ docs' = [docs EXCEPT !["observed"] = w[p].old]
          /\ cache' = NoSnapshot
       \/ UNCHANGED <<docs, cache>>
    /\ Leave(p)
    /\ UNCHANGED <<syncID, deltas, r, client, comp, lost>>

\* Mutant: the save writes the caller's document, without the stored tombstone.
PrepareSave_Revives(p) ==
    /\ w[p].pc = "save" /\ performDeltaCheck(w[p].old, w[p].val)
    /\ syncID < MaxSyncID
    /\ syncID' = syncID + 1
    /\ w' = [w EXCEPT ![p] = [pc |-> "write", staged |->
            {<<w[p].role, [val |-> w[p].val, sync |-> syncID + 1, dead |-> FALSE],
               computeDiff(w[p].old, w[p].val)>>}]]
    /\ UNCHANGED <<docs, deltas, lock, cache, r, client, comp, lost>>

\* Mutant: the id is read and not incremented before the write.
PrepareSave_SameID(p) ==
    /\ w[p].pc = "save" /\ performDeltaCheck(w[p].old, w[p].val)
    /\ syncID' = IF syncID = 0 THEN 1 ELSE syncID
    /\ LET doc == [val |-> w[p].val, sync |-> syncID',
                   dead |-> w[p].old # Missing /\ w[p].old.dead] IN
       w' = [w EXCEPT ![p] = [pc |-> "write", staged |->
                {<<w[p].role, doc, computeDiff(w[p].old, w[p].val)>>}]]
    /\ UNCHANGED <<docs, deltas, lock, cache, r, client, comp, lost>>

(* The stored tombstone is kept; the sync id is taken before the write. *)
PrepareSave(p) ==
    /\ w[p].pc = "save" /\ performDeltaCheck(w[p].old, w[p].val)
    /\ syncID < MaxSyncID
    /\ syncID' = syncID + 1
    /\ LET doc == [val |-> w[p].val, sync |-> syncID + 1,
                   dead |-> w[p].old # Missing /\ w[p].old.dead] IN
       w' = [w EXCEPT ![p] = [pc |-> "write", staged |->
                {<<w[p].role, doc, computeDiff(w[p].old, w[p].val)>>}]]
    /\ UNCHANGED <<docs, deltas, lock, cache, r, client, comp, lost>>

-----------------------------------------------------------------------------
(* Tombstone and ClearTombstone: editRoleDocuments. *)

BeginEdit(p, mark) ==
    /\ lock = NoOne
    /\ lock' = p
    /\ w' = [w EXCEPT ![p] = [pc |-> "edit", mark |-> mark, todo |-> allRoles, staged |-> {}]]
    /\ UNCHANGED <<docs, syncID, deltas, cache, r, client, comp, lost>>

(* One role: a document that is missing or already marked so is skipped,   *)
(* another one gets a sync id and goes into the transaction; its Diff is   *)
(* the tombstone, added or removed.                                        *)
EditRole(p) ==
    /\ w[p].pc = "edit" /\ w[p].todo # <<>>
    /\ LET role == Head(w[p].todo)
           doc == [docs[role] EXCEPT !.dead = w[p].mark, !.sync = syncID + 1]
       IN  IF ~Stored(role) \/ docs[role].dead = w[p].mark
           THEN /\ w' = [w EXCEPT ![p].todo = Tail(@)]
                /\ UNCHANGED syncID
           ELSE /\ syncID < MaxSyncID
                /\ syncID' = syncID + 1
                /\ w' = [w EXCEPT ![p].todo = Tail(@),
                                  ![p].staged = @ \cup
                                      {<<role, doc, {<<FieldDeletedAt, w[p].mark>>}>>}]
    /\ UNCHANGED <<docs, deltas, lock, cache, r, client, comp, lost>>

EndEdit(p) ==
    /\ w[p].pc = "edit" /\ w[p].todo = <<>>
    /\ w' = [w EXCEPT ![p] = [pc |-> "write", staged |-> w[p].staged]]
    /\ UNCHANGED <<docs, syncID, deltas, lock, cache, r, client, comp, lost>>

-----------------------------------------------------------------------------
(* The end of every write. *)

StagedDoc(staged, role) == (CHOOSE x \in staged : x[1] = role)[2]
StagedRoles(staged) == {x[1] : x \in staged}

(* The insert or update of a save (an update replaces the document), the   *)
(* commit of a transaction.  A write without a Diff has no delta.          *)
Write(p) ==
    /\ w[p].pc = "write"
    /\ docs' = [role \in Roles |->
            IF role \in StagedRoles(w[p].staged)
            THEN StagedDoc(w[p].staged, role) ELSE docs[role]]
    /\ w' = [w EXCEPT ![p] = [pc |-> "append", staged |-> {x \in w[p].staged : x[3] # {}}]]
    /\ UNCHANGED <<syncID, deltas, lock, cache, r, client, comp, lost>>

WriteFails(p) ==
    /\ w[p].pc = "write"
    /\ Leave(p)
    /\ UNCHANGED <<docs, syncID, deltas, cache, r, client, comp, lost>>

DeltaEntry(x) == [sync |-> x[2].sync, role |-> x[1], changes |-> x[3]]

(* appendDeltaOrWarn, in the order of the sync ids; a failure is logged. *)
Append1(p, failed) ==
    /\ w[p].pc = "append" /\ w[p].staged # {}
    /\ failed => Cardinality(lost) < MaxLost
    /\ LET x == CHOOSE x \in w[p].staged : \A y \in w[p].staged : x[2].sync <= y[2].sync
           delta == DeltaEntry(x)
       IN  /\ deltas' = IF failed THEN deltas ELSE deltas \cup {delta}
           /\ lost' = IF failed THEN lost \cup {delta} ELSE lost
           /\ w' = [w EXCEPT ![p].staged = @ \ {x}]
    /\ UNCHANGED <<docs, syncID, lock, cache, r, client, comp>>

InvalidateSnapshot(p) ==
    /\ w[p].pc = "append" /\ w[p].staged = {}
    /\ cache' = NoSnapshot
    /\ Leave(p)
    /\ UNCHANGED <<docs, syncID, deltas, r, client, comp, lost>>

-----------------------------------------------------------------------------
(* LoadSnapshot, of a reader or, for a bootstrap, of the client. *)

(* The client has its bootstrap, with the documents of snap, and goes on   *)
(* from the id that its call began with.                                   *)
Bootstrapped(snap) ==
    [client EXCEPT !.pc = "idle", !.pos = client.at, !.at = 0, !.open = {},
                   !.raced = client.open,
                   !.missed = {o \in client.open : snap[o[1]].sync < o[2]}]

Nothing == [role \in Roles |-> Missing]

(* LoadSnapshot returns snap, or Nothing with an error. *)
Return(q, snap) ==
    /\ r' = [r EXCEPT ![q] = Idle]
    /\ client' = IF q = Client THEN Bootstrapped(snap) ELSE client

BeginLoad(q) ==
    /\ r[q].pc = "idle"
    /\ r' = [r EXCEPT ![q] = [pc |-> "lookup", at |-> syncID]]
    /\ UNCHANGED <<store, cache, client, comp>>

Lookup(q) ==
    /\ r[q].pc = "lookup"
    /\ IF cache # NoSnapshot /\ cache.at = r[q].at
       THEN Return(q, cache.snap)
       ELSE /\ r' = [r EXCEPT ![q] = [pc |-> "read", todo |-> allRoles, snap |-> Nothing]]
            /\ UNCHANGED client
    /\ UNCHANGED <<store, cache, comp>>

(* A missing identity ends the call with an error. *)
ReadRole(q) ==
    /\ r[q].pc = "read" /\ r[q].todo # <<>>
    /\ LET role == Head(r[q].todo) IN
       IF role = "identity" /\ ~Stored(role)
       THEN Return(q, Nothing)
       ELSE /\ r' = [r EXCEPT ![q] =
                    [pc |-> "read", todo |-> Tail(r[q].todo),
                     snap |-> [r[q].snap EXCEPT ![role] = docs[role]]]]
            /\ UNCHANGED client
    /\ UNCHANGED <<store, cache, comp>>

(* The sync id that goes with the cache entry is read after the documents. *)
StampSnapshot(q) ==
    /\ r[q].pc = "read" /\ r[q].todo = <<>>
    /\ r' = [r EXCEPT ![q] = [pc |-> "store", snap |-> r[q].snap, at |-> syncID]]
    /\ UNCHANGED <<store, cache, client, comp>>

StoreSnapshot(q) ==
    /\ r[q].pc = "store"
    /\ cache' = [at |-> r[q].at, snap |-> r[q].snap]
    /\ Return(q, r[q].snap)
    /\ UNCHANGED <<store, comp>>

Maintenance ==
    /\ cache # NoSnapshot
    /\ cache' = NoSnapshot
    /\ UNCHANGED <<store, r, client, comp>>

-----------------------------------------------------------------------------
(* A client that pages through the deltas (GetDeltas, as scenariorunner    *)
(* uses it): its next position is the last delta of the page, or the       *)
(* position of the bootstrap.                                              *)

(* The writes that have taken their id and not published it as a delta. *)
OpenWrites ==
    UNION {{<<x[1], x[2].sync>> : x \in w[p].staged} :
                p \in {p \in Writers : w[p].pc \in {"edit", "write", "append"}}}

Poll ==
    /\ client.pc = "idle" /\ client.pos < syncID /\ client.polls < MaxPolls
    /\ client' = [client EXCEPT !.pc = "query", !.polls = @ + 1, !.at = syncID,
                                !.open = OpenWrites]
    /\ UNCHANGED <<store, cache, r, comp>>

Since(pos) == {d \in deltas : d.sync > pos}
Page(pos) ==
    {d \in Since(pos) : Cardinality({e \in Since(pos) : e.sync < d.sync}) < DeltaLimit}
Latest(ds) == CHOOSE s \in {d.sync : d \in ds} : \A d \in ds : d.sync <= s

(* The call answers with a page; the client goes on behind the position pos. *)
Paged(pos) == [client EXCEPT !.pc = "idle", !.pos = pos, !.at = 0, !.open = {}]

\* Mutant: the next page begins behind the position that came with the answer.
QueryDeltas_SkipsToLatest ==
    /\ client.pc = "query"
    /\ client' = IF Since(client.pos) = {} THEN [client EXCEPT !.pc = "boot"]
                 ELSE Paged(client.at)
    /\ UNCHANGED <<store, cache, r, comp>>

(* Without a delta the answer is a bootstrap. *)
QueryDeltas ==
    /\ client.pc = "query"
    /\ client' = IF Since(client.pos) = {} THEN [client EXCEPT !.pc = "boot"]
                 ELSE Paged(Latest(Page(client.pos)))
    /\ UNCHANGED <<store, cache, r, comp>>

(* The query returns an error: GetDeltas logs it and sends a bootstrap. *)
QueryFails ==
    /\ client.pc = "query"
    /\ client' = [client EXCEPT !.pc = "boot"]
    /\ UNCHANGED <<store, cache, r, comp>>

(* buildBootstrap looks for the identity and loads the worker's snapshot,  *)
(* without documentWriteMu; a worker without identity is not in it.        *)
BuildBootstrap ==
    /\ client.pc = "boot" /\ r[Client] = Idle
    /\ IF Stored("identity")
       THEN /\ r' = [r EXCEPT ![Client] = [pc |-> "lookup", at |-> syncID]]
            /\ UNCHANGED client
       ELSE Return(Client, Nothing)
    /\ UNCHANGED <<store, cache, comp>>

-----------------------------------------------------------------------------
(* CompactDeltas: what is older than the retention window is deleted.  The *)
(* deletions are taken together.                                           *)
CompactDeltas(cutoff) ==
    LET old == {d \in deltas : d.sync < cutoff} IN
    /\ old # {} /\ comp.calls < MaxCompactions
    /\ deltas' = deltas \ old
    /\ comp' = [calls |-> comp.calls + 1, gone |-> comp.gone \cup old]
    /\ UNCHANGED <<docs, syncID, lock, w, lost, cache, r, client>>

-----------------------------------------------------------------------------
Next ==
    \/ \E p \in Writers :
        \/ \E role \in Roles, val \in Values : BeginSave(p, role, val)
        \/ \E mark \in BOOLEAN : BeginEdit(p, mark)
        \/ SaveUnchanged(p) \/ PrepareSave(p)
        \/ EditRole(p) \/ EndEdit(p)
        \/ Write(p) \/ WriteFails(p)
        \/ \E failed \in BOOLEAN : Append1(p, failed)
        \/ InvalidateSnapshot(p)
    \/ \E q \in Readers : BeginLoad(q)
    \/ \E q \in Loaders :
        Lookup(q) \/ ReadRole(q) \/ StampSnapshot(q) \/ StoreSnapshot(q)
    \/ Maintenance
    \/ Poll \/ QueryDeltas \/ QueryFails \/ BuildBootstrap
    \/ \E cutoff \in 1..(syncID + 1) : CompactDeltas(cutoff)

Spec == Init /\ [][Next]_vars

-----------------------------------------------------------------------------
(* Properties *)

Docs == [val : Values, dead : BOOLEAN, sync : 1..MaxSyncID]
Diffs == SUBSET (AllFields \X (Data \cup {Absent} \cup BOOLEAN))

Snapshots == [Roles -> Docs \cup {Missing}]
Staged == Roles \X Docs \X Diffs
Deltas == [sync : 1..MaxSyncID, role : Roles, changes : Diffs]

WriterStates ==
    {Idle}
        \cup [pc : {"save"}, role : Roles, val : Values, old : Docs \cup {Missing}]
        \cup [pc : {"edit"}, mark : BOOLEAN, todo : Seq(Roles), staged : SUBSET Staged]
        \cup [pc : {"write", "append"}, staged : SUBSET Staged]
ReaderStates ==
    {Idle}
        \cup [pc : {"lookup"}, at : 0..MaxSyncID]
        \cup [pc : {"read"}, todo : Seq(Roles), snap : Snapshots]
        \cup [pc : {"store"}, snap : Snapshots, at : 0..MaxSyncID]
WriteIDs == Roles \X (1..MaxSyncID)
Clients ==
    [pc : {"idle", "query", "boot"}, polls : 0..MaxPolls, pos : 0..MaxSyncID, at : 0..MaxSyncID,
     open : SUBSET WriteIDs, raced : SUBSET WriteIDs, missed : SUBSET WriteIDs]

(* The shape of the store's state. *)
TypeOK ==
    /\ docs \in Snapshots
    /\ syncID \in 0..MaxSyncID
    /\ deltas \subseteq Deltas
    /\ lock \in Writers \cup {NoOne}
    /\ w \in [Writers -> WriterStates]
    /\ cache \in {NoSnapshot} \cup [at : 0..MaxSyncID, snap : Snapshots]
    /\ r \in [Loaders -> ReaderStates]
    /\ client \in Clients
    /\ comp \in [calls : 0..MaxCompactions, gone : SUBSET Deltas]
    /\ lost \subseteq Deltas

(* The documents as a whole behave as DocumentStore says: no write is lost *)
(* between the read and the write of another, and a removed worker's late  *)
(* save does not take its tombstone away.                                  *)
Documents == INSTANCE DocumentStore WITH docs <- docs, Roles <- Roles, Values <- Values
DocumentsAreAtomic == Documents!Spec

(* Sync ids are handed out before they are used, and used once: two        *)
(* documents never carry the same one, and neither do a document and       *)
(* another one's delta (its insert would be refused as a duplicate).       *)
SyncIDsAreUnique ==
    /\ \A x, y \in Roles : Stored(x) /\ docs[x].sync = docs[y].sync => x = y
    /\ \A d, e \in deltas : d.sync = e.sync => d = e
    /\ \A d \in deltas, x \in Roles : d.sync = docs[x].sync => d.role = x

Mentions(d, role, f) == d.role = role /\ \E c \in d.changes : c[1] = f

(* Between writes the deltas describe the documents, field by field: the   *)
(* newest delta that mentions a field has its stored value, and a field    *)
(* that none mentions is not there.  The one exception is a field that a   *)
(* lost or compacted delta was the last to mention: nothing later repairs  *)
(* it for whoever follows the deltas, until it is written again.           *)
DeltasDescribeDocuments ==
    lock = NoOne => \A role \in Roles, f \in AllFields :
        \/ \E d \in lost \cup comp.gone :
            /\ Mentions(d, role, f)
            /\ \A e \in deltas : Mentions(e, role, f) => e.sync < d.sync
        \/ /\ \A e \in deltas : ~Mentions(e, role, f)
           /\ Field(docs[role], f) = Unset(f)
        \/ \E d \in deltas :
            /\ d.role = role /\ <<f, Field(docs[role], f)>> \in d.changes
            /\ \A e \in deltas : Mentions(e, role, f) => e.sync <= d.sync

(* Paging skips no delta: a delta never appears behind the position of the *)
(* client, although an id is taken long before its delta is appended.  The *)
(* one exception is a write that was under way when the call began that    *)
(* gave the client its bootstrap; BootstrapIsComplete is about those.      *)
PagingSkipsNothing ==
    [][\A d \in deltas' \ deltas :
        d.sync > client.pos \/ <<d.role, d.sync>> \in client.raced]_vars

(* BootstrapData is said to be the "full state", with AtSyncID the "sync   *)
(* position of this bootstrap": a write at or below that position, which   *)
(* the client will never ask for, is in the documents of the bootstrap.    *)
BootstrapIsComplete ==
    [][\A d \in deltas' \ deltas : <<d.role, d.sync>> \notin client.missed]_vars

(* getChangedFieldsWithValues says: "Fields are NEVER removed in CSE", "the *)
(* triangular store preserves existing field values when they're not       *)
(* included in an update."                                                 *)
FieldsAreKept ==
    [][\A role \in Roles, f \in Fields :
        Stored(role) /\ Field(docs[role], f) # Absent => Field(docs'[role], f) # Absent]_vars

(* CompactDeltas says: "Clients offline longer than retentionWindow will   *)
(* get bootstrap (full state) instead of deltas": who gets a page has seen *)
(* every delta that was deleted.                                           *)
GapMeansBootstrap ==
    [][client.pc = "query" /\ client'.pc = "idle" =>
        \A d \in comp.gone : d.sync <= client.pos]_vars

(* LoadSnapshot says of its cache: "Capture syncID AFTER loading to avoid  *)
(* TOCTOU race".  When no write is under way, the entry that the next call *)
(* would return is what is stored.                                         *)
CacheIsCurrent ==
    lock = NoOne /\ cache # NoSnapshot /\ cache.at = syncID => cache.snap = docs
=============================================================================
