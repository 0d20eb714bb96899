---------------------------- MODULE LedgerProofs ----------------------------
(***************************************************************************)
(* Proofs about the ledger, for any household, any number of handlers in   *)
(* flight and any bound on the rows; last, that it implements the log of   *)
(* submissions.                                                            *)
(***************************************************************************)
EXTENDS Ledger, TLAPS, FiniteSetTheorems, SequenceTheorems

(***************************************************************************)
(* The operators that read and build rows and requests.                    *)
(***************************************************************************)
\* ComputeContentHash yields a digest, never the NULL.
LEMMA DigestTyped ==
  ASSUME TypeOK, NEW t \in Texts, NEW c \in Cats
  PROVE  Digest(t, c) \in Digests
BY DEF TypeOK, Digest, Digests

\* UpdateTransaction keeps the owner, the key and the tombstone, and the digest
\* or nothing.
LEMMA EditedRow ==
  ASSUME NEW r \in Row, NEW t \in Texts, NEW c \in Cats
  PROVE  /\ Edited(r, t, c) \in Row
         /\ Edited(r, t, c).owner = r.owner /\ Edited(r, t, c).key = r.key
         /\ Edited(r, t, c).trashed = r.trashed
         /\ Edited(r, t, c).hash \in {r.hash, NoHash}
BY DEF Edited, Row

\* A bulk patch is an edit of the fields it names.
LEMMA PatchedRow ==
  ASSUME NEW r \in Row, NEW p \in Patches
  PROVE  /\ Patched(r, p) \in Row
         /\ Patched(r, p).owner = r.owner /\ Patched(r, p).key = r.key
         /\ Patched(r, p).trashed = r.trashed
         /\ Patched(r, p).hash \in {r.hash, NoHash}
<1>1. r.text \in Texts /\ r.cat \in Cats
  BY DEF Row
<1>2. CASE p \in [text: Texts]
  BY <1>1, <1>2, EditedRow DEF Patched
<1>3. CASE p \notin [text: Texts]
  <2>1. p.cat \in Cats
    BY <1>3 DEF Patches
  <2>2. QED
    BY <1>1, <1>3, <2>1, EditedRow DEF Patched
<1>4. QED
  BY <1>2, <1>3

\* A handler in flight is the request its op says it is.
LEMMA RequestKinds ==
  ASSUME TypeOK, NEW s \in Slots
  PROVE  /\ req[s].op = "create" => req[s] \in CreateReq
         /\ req[s].op = "edit" => req[s] \in EditReq
         /\ req[s].op \in {"delete", "restore", "purge"} => req[s] \in RowReq
         /\ req[s].op = "restoreAll" => req[s] \in RestoreAllReq
         /\ req[s].op = "deleteUser" => req[s] \in DeleteUserReq
<1>1. req[s] \in Requests
  BY DEF TypeOK
<1>2. CASE req[s] \in CreateReq
  BY <1>2 DEF CreateReq
<1>3. CASE req[s] \in EditReq
  BY <1>3 DEF EditReq
<1>4. CASE req[s] \in RowReq
  BY <1>4 DEF RowReq
<1>5. CASE req[s] \in RestoreAllReq
  BY <1>5 DEF RestoreAllReq
<1>6. CASE req[s] \in DeleteUserReq
  BY <1>6 DEF DeleteUserReq
<1>7. CASE req[s] = Idle
  BY <1>7 DEF Idle
<1>8. QED
  BY <1>1, <1>2, <1>3, <1>4, <1>5, <1>6, <1>7 DEF Requests

\* What an insert or an update of typed rows leaves in the table.
LEMMA PutRows ==
  ASSUME TypeOK, NEW S \in SUBSET RowIds, NEW new \in [S -> Row], Put(new)
  PROVE  /\ DOMAIN rows' = DOMAIN rows \cup S
         /\ rows' \in [DOMAIN rows' -> Row]
         /\ \A i \in DOMAIN rows' : rows'[i] = IF i \in S THEN new[i] ELSE rows[i]
BY DEF TypeOK, Put

\* What a delete of rows leaves in the table.
LEMMA DropRows ==
  ASSUME TypeOK, NEW S, Drop(S)
  PROVE  /\ DOMAIN rows' = DOMAIN rows \ S
         /\ rows' \in [DOMAIN rows' -> Row]
         /\ \A i \in DOMAIN rows' : rows'[i] = rows[i]
BY DEF TypeOK, Drop

\* An audit entry keeps the trail well formed.
LEMMA AuditTyped ==
  ASSUME TypeOK, NEW S, NEW a \in {"insert", "update", "delete", "restore"}, Audit(S, a)
  PROVE  trail' \in [RowIds -> Trails]
BY DEF TypeOK, Audit, Trails

\* A handler replaced by another typed one leaves the slots typed.
LEMMA SlotTyped ==
  ASSUME TypeOK, NEW s \in Slots, NEW r \in Requests, req' = [req EXCEPT ![s] = r]
  PROVE  req' \in [Slots -> Requests]
BY DEF TypeOK

(***************************************************************************)
(* Type correctness.                                                       *)
(***************************************************************************)
\* The table is well formed after typed rows are put under handed-out ids.
LEMMA PutTyped ==
  ASSUME TypeOK, NEW S \in SUBSET RowIds, NEW new \in [S -> Row], Put(new),
         nextId' \in 1..(MaxRows + 1), nextId <= nextId', \A i \in S : i < nextId'
  PROVE  DOMAIN rows' \subseteq RowIds /\ rows' \in [DOMAIN rows' -> Row]
         /\ \A i \in DOMAIN rows' : i < nextId'
<1>1. /\ DOMAIN rows' = DOMAIN rows \cup S
      /\ rows' \in [DOMAIN rows' -> Row]
  BY PutRows
<1>2. nextId \in Nat /\ nextId' \in Nat /\ RowIds \subseteq Nat
  BY MaxRowsAssumption DEF TypeOK, RowIds
<1>3. \A i \in DOMAIN rows : i \in RowIds /\ i < nextId
  BY DEF TypeOK
<1>4. \A i \in DOMAIN rows' : i < nextId'
  BY <1>1, <1>2, <1>3
<1>5. QED
  BY <1>1, <1>3, <1>4

\* The table is well formed after rows are rewritten in place.
LEMMA RewriteTyped ==
  ASSUME TypeOK, NEW S \in SUBSET DOMAIN rows, NEW new \in [S -> Row], Put(new), nextId' = nextId
  PROVE  DOMAIN rows' \subseteq RowIds /\ rows' \in [DOMAIN rows' -> Row]
         /\ \A i \in DOMAIN rows' : i < nextId'
<1>1. S \in SUBSET RowIds /\ \A i \in S : i < nextId
  BY DEF TypeOK
<1>2. nextId' \in 1..(MaxRows + 1) /\ nextId <= nextId'
  BY MaxRowsAssumption DEF TypeOK
<1>3. QED
  BY <1>1, <1>2, PutTyped

\* The table is well formed after rows move to the trash or out of it.
LEMMA TrashTyped ==
  ASSUME TypeOK, NEW S \in SUBSET DOMAIN rows, NEW b \in BOOLEAN, SetTrashed(S, b),
         nextId' = nextId
  PROVE  DOMAIN rows' \subseteq RowIds /\ rows' \in [DOMAIN rows' -> Row]
         /\ \A i \in DOMAIN rows' : i < nextId'
<1> DEFINE new == [i \in S |-> [rows[i] EXCEPT !.trashed = b]]
<1>1. \A i \in S : rows[i] \in Row
  BY DEF TypeOK
<1>2. new \in [S -> Row]
  BY <1>1 DEF Row
<1>3. Put(new)
  BY DEF SetTrashed
<1>4. QED
  BY <1>2, <1>3, RewriteTyped

\* The table is well formed after rows are destroyed.
LEMMA DropTyped ==
  ASSUME TypeOK, NEW S, Drop(S), nextId' = nextId
  PROVE  DOMAIN rows' \subseteq RowIds /\ rows' \in [DOMAIN rows' -> Row]
         /\ \A i \in DOMAIN rows' : i < nextId'
BY DropRows DEF TypeOK

\* A row's rewriting by a bulk patch is typed, whatever rows it hits.
LEMMA PatchTyped ==
  ASSUME TypeOK, NEW S \in SUBSET DOMAIN rows, NEW p \in Patches,
         Put([i \in S |-> Patched(rows[i], p)]), nextId' = nextId
  PROVE  DOMAIN rows' \subseteq RowIds /\ rows' \in [DOMAIN rows' -> Row]
         /\ \A i \in DOMAIN rows' : i < nextId'
<1>1. \A i \in S : rows[i] \in Row
  BY DEF TypeOK
<1>2. [i \in S |-> Patched(rows[i], p)] \in [S -> Row]
  BY <1>1, PatchedRow
<1>3. QED
  BY <1>2, RewriteTyped

\* The model's bound keeps the ids of a batch, and the next one, in range.
LEMMA BatchIds ==
  ASSUME TypeOK, NEW n \in Nat, Room(n)
  PROVE  /\ nextId + n \in 1..(MaxRows + 1)
         /\ nextId .. (nextId + n - 1) \subseteq RowIds
<1>1. IsFiniteSet(InFlightCreates)
  <2>1. InFlightCreates \in SUBSET Slots
    BY DEF InFlightCreates
  <2>2. QED
    BY <2>1, SlotsAssumption, FS_Subset
<1>2. Cardinality(InFlightCreates) \in Nat
  BY <1>1, FS_CardinalityType
<1>3. nextId \in Nat /\ nextId >= 1 /\ MaxRows \in Nat
  BY MaxRowsAssumption DEF TypeOK
<1>4. nextId + n <= MaxRows + 1
  BY <1>2, <1>3 DEF Room
<1>5. QED
  BY <1>3, <1>4 DEF RowIds

\* The items of a batch are numbered 1 .. Len, and typed.
LEMMA ItemsTyped ==
  ASSUME NEW items \in Items
  PROVE  /\ Len(items) \in Nat
         /\ \A m \in 1..Len(items) : items[m].text \in Texts /\ items[m].cat \in Cats
<1> DEFINE Item == [text: Texts, cat: Cats]
<1>1. PICK n \in 1..MaxBatch : items \in [1..n -> Item]
  BY DEF Items
<1>2. n \in Nat
  BY MaxRowsAssumption
<1>3. items \in Seq(Item)
  <2>1. items \in UNION {[1..k -> Item] : k \in Nat}
    BY <1>1, <1>2, Zenon
  <2>2. Seq(Item) = UNION {[1..k -> Item] : k \in Nat}
    BY SeqDef, Zenon
  <2>3. QED
    BY <2>1, <2>2, Zenon
<1>4. Len(items) \in Nat /\ \A m \in 1..Len(items) : items[m] \in Item
  BY <1>3, ElementOfSeq, LenProperties
<1>5. QED
  BY <1>4

\* A step that only moves a handler on, to a typed request.
LEMMA HandlerTyped ==
  ASSUME TypeOK, NEW s \in Slots, NEW r \in Requests, req' = [req EXCEPT ![s] = r],
         UNCHANGED <<rows, nextId, catName, users, trail, bulkAudit, phase, cursor, answers>>
  PROVE  TypeOK'
<1>1. req' \in [Slots -> Requests]
  BY SlotTyped
<1>2. QED
  BY <1>1 DEF TypeOK

\* The end of a handler frees its slot.
LEMMA FinishTyped ==
  ASSUME TypeOK, NEW s \in Slots, Finish(s)
  PROVE  req' \in [Slots -> Requests]
BY SlotTyped DEF Finish, Requests

\* An empty table, with the id counter at its start, has the right types.
LEMMA InitTyped == Init => TypeOK
<1> SUFFICES ASSUME Init PROVE TypeOK
  OBVIOUS
<1>1. DOMAIN rows = {} /\ rows \in [DOMAIN rows -> Row]
  BY DEF Init
<1>2. nextId \in 1..(MaxRows + 1) /\ cursor \in 0..MaxRows
  BY MaxRowsAssumption DEF Init
<1>3. trail \in [RowIds -> Trails] /\ req \in [Slots -> Requests]
  BY DEF Init, Trails, Requests
<1>4. QED
  BY <1>1, <1>2, <1>3 DEF Init, TypeOK

\* What clients ask arrives as a typed request.
LEMMA ArriveTyped ==
  ASSUME TypeOK, NEW s \in Slots, Arrive(s)
  PROVE  TypeOK'
<1> PICK u \in Users :
      \/ \E k \in Keys \cup {NoKey}, t \in Texts, c \in Cats : StartCreate(s, u, k, t, c)
      \/ \E i \in RowIds, t \in Texts, c \in Cats : StartEdit(s, u, i, t, c)
      \/ \E i \in RowIds : StartDelete(s, u, i) \/ StartRestore(s, u, i) \/ StartPurge(s, u, i)
      \/ StartRestoreAll(s, u)
      \/ \E v \in Users : StartDeleteUser(s, u, v)
  BY DEF Arrive
<1>1. ASSUME NEW k \in Keys \cup {NoKey}, NEW t \in Texts, NEW c \in Cats,
             StartCreate(s, u, k, t, c)
      PROVE  TypeOK'
  <2> DEFINE r == [op |-> "create", at |-> "probe", user |-> u, key |-> k,
                   text |-> t, cat |-> c, hash |-> Digest(t, c)]
  <2>1. r \in CreateReq
    BY DigestTyped DEF CreateReq
  <2>2. r \in Requests
    BY <2>1 DEF Requests
  <2>3. QED
    BY <1>1, <2>2, HandlerTyped DEF StartCreate, Begin
<1>2. ASSUME NEW i \in RowIds, NEW t \in Texts, NEW c \in Cats, StartEdit(s, u, i, t, c)
      PROVE  TypeOK'
  <2>1. [op |-> "edit", id |-> i, text |-> t, cat |-> c] \in Requests
    BY DEF Requests, EditReq
  <2>2. QED
    BY <1>2, <2>1, HandlerTyped DEF StartEdit, Begin
<1>3. ASSUME NEW i \in RowIds, StartDelete(s, u, i) \/ StartRestore(s, u, i) \/ StartPurge(s, u, i)
      PROVE  TypeOK'
  <2>1. \A op \in {"delete", "restore", "purge"} : [op |-> op, id |-> i] \in Requests
    BY DEF Requests, RowReq
  <2>2. QED
    BY <1>3, <2>1, HandlerTyped DEF StartDelete, StartRestore, StartPurge, Begin
<1>4. CASE StartRestoreAll(s, u)
  <2>1. Trash \in SUBSET RowIds
    BY DEF TypeOK, Trash
  <2>2. [op |-> "restoreAll", ids |-> Trash] \in Requests
    BY <2>1 DEF Requests, RestoreAllReq
  <2>3. QED
    BY <1>4, <2>2, HandlerTyped DEF StartRestoreAll, Begin
<1>5. ASSUME NEW v \in Users, StartDeleteUser(s, u, v)
      PROVE  TypeOK'
  <2>1. [op |-> "deleteUser", target |-> v] \in Requests
    BY DEF Requests, DeleteUserReq
  <2>2. QED
    BY <1>5, <2>1, HandlerTyped DEF StartDeleteUser, Begin
<1>6. QED
  BY <1>1, <1>2, <1>3, <1>4, <1>5

\* The row a create inserts.
LEMMA NewRowTyped ==
  ASSUME TypeOK, NEW s \in Slots, req[s].op = "create"
  PROVE  NewRow(req[s].user, req[s].key, req[s].text, req[s].cat, req[s].hash) \in Row
<1>1. req[s] \in CreateReq
  BY RequestKinds
<1>2. QED
  BY <1>1 DEF CreateReq, NewRow, Row

\* The calls of a create: probe, insert, lookup.
LEMMA CreateTyped ==
  ASSUME TypeOK, NEW s \in Slots,
         \/ ProbeHash(s) \/ InsertHashConflict(s) \/ InsertKeyConflict(s) \/ InsertRow(s)
         \/ InsertOrphan(s) \/ LookupKey(s)
  PROVE  TypeOK'
<1>1. req[s].op = "create"
  BY DEF ProbeHash, InsertHashConflict, InsertKeyConflict, InsertRow, InsertOrphan, LookupKey
<1>2. req[s] \in CreateReq
  BY <1>1, RequestKinds
<1>3. req \in [Slots -> Requests]
  BY DEF TypeOK
<1>4. CASE ProbeHash(s) \/ InsertHashConflict(s) \/ InsertKeyConflict(s)
  <2> PICK a \in {"insert", "lookup"}, h \in {req[s].hash, NoHash} :
             req' = [req EXCEPT ![s] = [req[s] EXCEPT !.at = a, !.hash = h]]
    <3>1. req[s] = [req[s] EXCEPT !.hash = req[s].hash]
      BY <1>2 DEF CreateReq
    <3>2. CASE ProbeHash(s)
      BY <3>2, <1>3 DEF ProbeHash
    <3>3. CASE InsertHashConflict(s)
      BY <3>3, <1>2, <1>3 DEF InsertHashConflict, CreateReq
    <3>4. CASE InsertKeyConflict(s)
      BY <3>4, <1>2, <1>3 DEF InsertKeyConflict, CreateReq
    <3>5. QED
      BY <1>4, <3>2, <3>3, <3>4
  <2>1. [req[s] EXCEPT !.at = a, !.hash = h] \in CreateReq
    BY <1>2 DEF CreateReq
  <2>2. [req[s] EXCEPT !.at = a, !.hash = h] \in Requests
    BY <2>1 DEF Requests
  <2>3. QED
    BY <1>4, <2>2, HandlerTyped DEF ProbeHash, InsertHashConflict, InsertKeyConflict
<1>5. CASE InsertRow(s)
  <2> DEFINE row == NewRow(req[s].user, req[s].key, req[s].text, req[s].cat, req[s].hash)
  <2>1. row \in Row
    BY <1>1, NewRowTyped
  <2>2. nextId \in RowIds /\ nextId' = nextId + 1
    BY <1>5 DEF InsertRow
  <2>3. nextId' \in 1..(MaxRows + 1) /\ nextId <= nextId' /\ nextId < nextId'
    BY <2>2, MaxRowsAssumption DEF RowIds
  <2>4. Put([i \in {nextId} |-> row])
    BY <1>5 DEF InsertRow
  <2>5. [i \in {nextId} |-> row] \in [{nextId} -> Row]
    BY <2>1
  <2>6. DOMAIN rows' \subseteq RowIds /\ rows' \in [DOMAIN rows' -> Row]
        /\ \A i \in DOMAIN rows' : i < nextId'
    BY <2>2, <2>3, <2>4, <2>5, PutTyped
  <2>7. trail' \in [RowIds -> Trails]
    BY <1>5, AuditTyped DEF InsertRow
  <2>8. req' \in [Slots -> Requests]
    BY <1>5, FinishTyped DEF InsertRow
  <2>9. answers' \subseteq [user: Users, key: Keys, id: RowIds]
    BY <1>2, <1>5, <2>2 DEF InsertRow, Answer, TypeOK, CreateReq
  <2>10. UNCHANGED <<catName, users, bulkAudit, phase, cursor>>
    BY <1>5 DEF InsertRow
  <2>11. QED
    BY <2>3, <2>6, <2>7, <2>8, <2>9, <2>10 DEF TypeOK
<1>6. CASE InsertOrphan(s)
  BY <1>6, HandlerTyped DEF InsertOrphan, Finish, Requests
<1>7. CASE LookupKey(s)
  <2>1. KeyHolders(req[s].user, req[s].key) \subseteq RowIds
    BY DEF KeyHolders, TypeOK
  <2>2. answers' \subseteq [user: Users, key: Keys, id: RowIds]
    BY <1>2, <1>7, <2>1 DEF LookupKey, Answer, TypeOK, CreateReq
  <2>3. req' \in [Slots -> Requests]
    BY <1>7, FinishTyped DEF LookupKey
  <2>4. QED
    BY <1>7, <2>2, <2>3 DEF LookupKey, TypeOK
<1>8. QED
  BY <1>4, <1>5, <1>6, <1>7

\* The store calls that finish the other handlers.
LEMMA CommitTyped ==
  ASSUME TypeOK, NEW s \in Slots,
         \/ CommitEdit(s) \/ CommitDelete(s) \/ CommitRestore(s) \/ CommitRestoreAll(s)
         \/ CommitPurge(s) \/ CommitDeleteUser(s)
  PROVE  TypeOK'
<1> DEFINE TableOK == /\ DOMAIN rows' \subseteq RowIds /\ rows' \in [DOMAIN rows' -> Row]
                      /\ \A i \in DOMAIN rows' : i < nextId'
<1>1. req' \in [Slots -> Requests]
  BY FinishTyped DEF CommitEdit, CommitDelete, CommitRestore, CommitRestoreAll, CommitPurge,
                     CommitDeleteUser
<1>2. UNCHANGED <<nextId, catName, bulkAudit, phase, cursor, answers>>
  BY DEF CommitEdit, CommitDelete, CommitRestore, CommitRestoreAll, CommitPurge, CommitDeleteUser
<1>3. TableOK /\ trail' \in [RowIds -> Trails]
  <2>1. CASE UNCHANGED <<rows, trail>>
    BY <1>2, <2>1 DEF TypeOK
  <2>2. CASE CommitEdit(s) /\ req[s].id \in DOMAIN rows
    <3> DEFINE new == [i \in {req[s].id} |-> Edited(rows[i], req[s].text, req[s].cat)]
    <3>1. req[s].text \in Texts /\ req[s].cat \in Cats
      BY <2>2, RequestKinds DEF CommitEdit, EditReq
    <3>2. rows[req[s].id] \in Row
      BY <2>2 DEF TypeOK
    <3>3. new \in [{req[s].id} -> Row]
      BY <3>1, <3>2, EditedRow
    <3>4. Put(new) /\ Audit({req[s].id}, "update")
      BY <2>2 DEF CommitEdit
    <3>5. TableOK
      BY <1>2, <2>2, <3>3, <3>4, RewriteTyped
    <3>6. QED
      BY <3>4, <3>5, AuditTyped
  <2>3. CASE CommitDelete(s) /\ ~UNCHANGED <<rows, trail>>
    <3>1. req[s].id \in DOMAIN rows /\ SetTrashed({req[s].id}, TRUE) /\ Audit({req[s].id}, "delete")
      BY <2>3 DEF CommitDelete, Live
    <3>2. TableOK
      BY <1>2, <3>1, TrashTyped
    <3>3. QED
      BY <3>1, <3>2, AuditTyped
  <2>4. CASE CommitRestore(s) /\ ~UNCHANGED <<rows, trail>>
    <3>1. req[s].id \in DOMAIN rows /\ SetTrashed({req[s].id}, FALSE) /\ Audit({req[s].id}, "restore")
      BY <2>4 DEF CommitRestore, Trash
    <3>2. TableOK
      BY <1>2, <3>1, TrashTyped
    <3>3. QED
      BY <3>1, <3>2, AuditTyped
  <2>5. CASE CommitRestoreAll(s)
    <3> PICK back \in SUBSET DOMAIN rows : SetTrashed(back, FALSE) /\ Audit(back, "restore")
      BY <2>5 DEF CommitRestoreAll, Trash
    <3>1. TableOK
      BY <1>2, TrashTyped
    <3>2. QED
      BY <3>1, AuditTyped
  <2>6. CASE CommitPurge(s) \/ CommitDeleteUser(s)
    <3>1. trail' = trail /\ \E S : Drop(S)
      BY <2>6 DEF CommitPurge, CommitDeleteUser
    <3>2. QED
      BY <1>2, <3>1, DropTyped DEF TypeOK
  <2>7. CASE CommitEdit(s) /\ req[s].id \notin DOMAIN rows
    BY <1>2, <2>7 DEF CommitEdit, TypeOK
  <2>8. QED
    BY <2>1, <2>2, <2>3, <2>4, <2>5, <2>6, <2>7
<1>4. users' \subseteq Users
  BY DEF CommitEdit, CommitDelete, CommitRestore, CommitRestoreAll, CommitPurge, CommitDeleteUser,
         TypeOK
<1>5. QED
  BY <1>1, <1>2, <1>3, <1>4 DEF TypeOK

\* The ids a bulk call hits exist.
LEMMA BulkTyped ==
  ASSUME TypeOK, BulkWrite
  PROVE  TypeOK'
<1> DEFINE TableOK == /\ DOMAIN rows' \subseteq RowIds /\ rows' \in [DOMAIN rows' -> Row]
                      /\ \A i \in DOMAIN rows' : i < nextId'
<1>1. ASSUME NEW u \in Users, NEW items \in Items, BatchCreate(u, items)
      PROVE  TypeOK'
  <2> DEFINE n == Len(items)
             ids == nextId .. (nextId + n - 1)
             new == [i \in ids |-> LET m == i - nextId + 1
                                   IN NewRow(u, NoKey, items[m].text, items[m].cat, BatchHash(items, m))]
  <2>1. n \in Nat /\ \A m \in 1..n : items[m].text \in Texts /\ items[m].cat \in Cats
    BY ItemsTyped
  <2>2. nextId + n \in 1..(MaxRows + 1) /\ ids \subseteq RowIds
    BY <1>1, <2>1, BatchIds DEF BatchCreate
  <2>3. nextId \in Nat
    BY DEF TypeOK
  <2>4. \A i \in ids : i - nextId + 1 \in 1..n
    BY <2>1, <2>3
  <2>5. \A m \in 1..n : BatchHash(items, m) \in Digests \cup {NoHash}
    BY <2>1, DigestTyped DEF BatchHash
  <2>6. \A i \in ids : new[i] \in Row
    BY <2>1, <2>4, <2>5 DEF NewRow, Row
  <2>7. new \in [ids -> Row]
    BY <2>6
  <2>8. Put(new) /\ nextId' = nextId + n
    BY <1>1 DEF BatchCreate
  <2>9. nextId' \in 1..(MaxRows + 1) /\ nextId <= nextId' /\ \A i \in ids : i < nextId'
    BY <2>1, <2>2, <2>3, <2>8
  <2>10. TableOK
    BY <2>2, <2>7, <2>8, <2>9, PutTyped
  <2>11. trail' \in [RowIds -> Trails]
    BY <1>1, AuditTyped DEF BatchCreate
  <2>12. UNCHANGED <<catName, users, bulkAudit, req, phase, cursor, answers>>
    BY <1>1 DEF BatchCreate
  <2>13. QED
    BY <2>9, <2>10, <2>11, <2>12 DEF TypeOK
<1>2. ASSUME NEW u \in Users, NEW ids \in SUBSET RowIds, NEW p \in Patches,
             BatchUpdate(u, ids, p) \/ FilterUpdate(u, ids, p)
      PROVE  TypeOK'
  <2> DEFINE hit == {i \in ids \cap Live : MayTouch(u, i)}
  <2>1. hit \in SUBSET DOMAIN rows
    BY DEF Live
  <2>2. Put([i \in hit |-> Patched(rows[i], p)])
        /\ UNCHANGED <<nextId, catName, users, bulkAudit, req, phase, cursor, answers>>
    BY <1>2 DEF BatchUpdate, FilterUpdate
  <2>3. TableOK
    BY <2>1, <2>2, PatchTyped
  <2>4. trail' \in [RowIds -> Trails]
    <3>1. Audit(hit, "update") \/ trail' = trail
      BY <1>2 DEF BatchUpdate, FilterUpdate
    <3>2. QED
      BY <3>1, AuditTyped DEF TypeOK
  <2>5. QED
    BY <2>2, <2>3, <2>4 DEF TypeOK
<1>3. ASSUME NEW u \in Users, NEW ids \in SUBSET RowIds,
             BatchDelete(u, ids) \/ FilterDelete(u, ids)
      PROVE  TypeOK'
  <2> DEFINE hit == {i \in ids \cap Live : MayTouch(u, i)}
  <2>1. hit \in SUBSET DOMAIN rows
    BY DEF Live
  <2>2. SetTrashed(hit, TRUE) /\ bulkAudit' \in {bulkAudit, TRUE}
        /\ UNCHANGED <<nextId, catName, users, req, phase, cursor, answers>>
    BY <1>3 DEF BatchDelete, FilterDelete
  <2>3. TableOK
    BY <2>1, <2>2, TrashTyped
  <2>4. trail' \in [RowIds -> Trails]
    <3>1. Audit(hit, "delete") \/ trail' = trail
      BY <1>3 DEF BatchDelete, FilterDelete
    <3>2. QED
      BY <3>1, AuditTyped DEF TypeOK
  <2>5. QED
    BY <2>2, <2>3, <2>4 DEF TypeOK
<1>4. ASSUME NEW u \in Users, NEW ids \in SUBSET RowIds, BatchRestore(u, ids)
      PROVE  TypeOK'
  <2> PICK back \in SUBSET DOMAIN rows : SetTrashed(back, FALSE) /\ Audit(back, "restore")
    BY <1>4 DEF BatchRestore, Trash
  <2>1. UNCHANGED <<nextId, catName, users, bulkAudit, req, phase, cursor, answers>>
    BY <1>4 DEF BatchRestore
  <2>2. TableOK
    BY <2>1, TrashTyped
  <2>3. trail' \in [RowIds -> Trails]
    BY AuditTyped
  <2>4. QED
    BY <2>1, <2>2, <2>3 DEF TypeOK
<1>5. ASSUME NEW u \in Users, PurgeAll(u)
      PROVE  TypeOK'
  <2>1. TableOK
    BY <1>5, DropTyped DEF PurgeAll
  <2>2. QED
    BY <1>5, <2>1 DEF PurgeAll, TypeOK
<1>6. ASSUME NEW u \in Users, NEW c \in Cats, NEW n \in Names, RenameCategory(u, c, n)
      PROVE  TypeOK'
  <2> DEFINE S == {j \in DOMAIN rows : rows[j].cat = c}
             new == [i \in S |-> [rows[i] EXCEPT !.hash = NoHash]]
  <2>1. \A i \in S : rows[i] \in Row
    BY DEF TypeOK
  <2>2. new \in [S -> Row]
    BY <2>1 DEF Row
  <2>3. Put(new) /\ UNCHANGED <<nextId, users, trail, bulkAudit, req, phase, cursor, answers>>
    BY <1>6 DEF RenameCategory
  <2>4. TableOK
    BY <2>2, <2>3, RewriteTyped
  <2>5. catName' \in [Cats -> Names]
    BY <1>6 DEF RenameCategory, TypeOK
  <2>6. QED
    BY <2>3, <2>4, <2>5 DEF TypeOK
<1>7. QED
  BY <1>1, <1>2, <1>3, <1>4, <1>5, <1>6 DEF BulkWrite

\* The restart and the hash backfill.
LEMMA RestartTyped ==
  ASSUME TypeOK, Crash \/ BackfillRow \/ BackfillDone
  PROVE  TypeOK'
<1> DEFINE TableOK == /\ DOMAIN rows' \subseteq RowIds /\ rows' \in [DOMAIN rows' -> Row]
                      /\ \A i \in DOMAIN rows' : i < nextId'
<1>1. CASE Crash
  <2>1. req' \in [Slots -> Requests] /\ cursor' \in 0..MaxRows
    BY <1>1, MaxRowsAssumption DEF Crash, Requests
  <2>2. QED
    BY <1>1, <2>1 DEF Crash, TypeOK
<1>2. CASE BackfillRow
  <2> DEFINE h(i) == Digest(rows[i].text, rows[i].cat)
  <2> PICK i \in Unhashed :
        /\ \/ Put([j \in {i} |-> [rows[j] EXCEPT !.hash = h(i)]])
           \/ UNCHANGED rows
        /\ cursor' = i
    BY <1>2 DEF BackfillRow
  <2>1. i \in DOMAIN rows /\ i \in RowIds /\ rows[i] \in Row
    BY DEF Unhashed, TypeOK
  <2>2. h(i) \in Digests
    BY <2>1, DigestTyped DEF Row
  <2>3. [j \in {i} |-> [rows[j] EXCEPT !.hash = h(i)]] \in [{i} -> Row]
    BY <2>1, <2>2 DEF Row
  <2>4. UNCHANGED <<nextId, catName, users, trail, bulkAudit, req, phase, answers>>
    BY <1>2 DEF BackfillRow
  <2>5. TableOK
    <3>1. CASE UNCHANGED rows
      BY <2>4, <3>1 DEF TypeOK
    <3>2. CASE Put([j \in {i} |-> [rows[j] EXCEPT !.hash = h(i)]])
      BY <2>1, <2>3, <2>4, <3>2, RewriteTyped
    <3>3. QED
      BY <3>1, <3>2
  <2>6. cursor' \in 0..MaxRows
    BY <2>1, MaxRowsAssumption DEF RowIds
  <2>7. QED
    BY <2>4, <2>5, <2>6 DEF TypeOK
<1>3. CASE BackfillDone
  <2>1. cursor' \in 0..MaxRows
    BY <1>3, MaxRowsAssumption DEF BackfillDone
  <2>2. QED
    BY <1>3, <2>1 DEF BackfillDone, TypeOK
<1>4. QED
  BY <1>1, <1>2, <1>3

\* Every handler, bulk writer and restart step keeps the types.
LEMMA NextTyped == TypeOK /\ [Next]_vars => TypeOK'
<1> SUFFICES ASSUME TypeOK, [Next]_vars PROVE TypeOK'
  OBVIOUS
<1>1. ASSUME NEW s \in Slots, Proceed(s) PROVE TypeOK'
  BY <1>1, CreateTyped, CommitTyped DEF Proceed
<1>2. CASE UNCHANGED vars
  BY <1>2 DEF vars, TypeOK
<1>3. QED
  BY <1>1, <1>2, ArriveTyped, BulkTyped, RestartTyped DEF Next

\* Every variable of the ledger keeps its type: the table never holds an id the
\* counter did not hand out, and no handler is in a state the code has no name for.
THEOREM TypeCorrect == Spec => []TypeOK
BY InitTyped, NextTyped, PTL DEF Spec

(***************************************************************************)
(* The inductive invariant: what the two unique indexes enforce, and what  *)
(* never reusing an id adds to it.                                         *)
(***************************************************************************)
\* idx_transactions_idempotency_key: one row, live or trashed, per submission.
KeyUnique ==
  \A i, j \in DOMAIN rows :
    rows[i].key # NoKey /\ rows[i].key = rows[j].key /\ rows[i].owner = rows[j].owner => i = j

\* An answer names an id already handed out, so a later insert cannot take it.
AnswersOwn ==
  \A a \in answers :
    /\ a.id < nextId
    /\ a.id \in DOMAIN rows => rows[a.id].owner = a.user /\ rows[a.id].key = a.key

\* Nothing was ever audited under an id not handed out yet.
FreshTrail == \A i \in RowIds : i >= nextId => trail[i].last = "none"

IInv == TypeOK /\ KeyUnique /\ AnswersOwn /\ FreshTrail /\ LiveHashUnique

\* The steps that hand out no id, and give no row another owner or key.
SameIdentity ==
  /\ DOMAIN rows' \subseteq DOMAIN rows
  /\ \A i \in DOMAIN rows' : rows'[i].owner = rows[i].owner /\ rows'[i].key = rows[i].key

\* The steps that bring no live row a digest.
NoNewDigest ==
  /\ DOMAIN rows' \subseteq DOMAIN rows
  /\ \A i \in DOMAIN rows' :
       ~rows'[i].trashed => ~rows[i].trashed /\ rows'[i].hash \in {rows[i].hash, NoHash}

\* The steps that audit existing rows only.
AuditsRows ==
  trail' = trail \/ \E S \in SUBSET DOMAIN rows, a \in {"update", "delete", "restore"} : Audit(S, a)

Tame == SameIdentity /\ AuditsRows /\ nextId' = nextId /\ answers' = answers

\* A step that adds no row and keeps owners and keys cannot break the identity of a
\* submission: nobody gets a second row, no answer changes its row, no id comes back.
LEMMA TameKeepsIdentity ==
  ASSUME IInv, Tame
  PROVE  KeyUnique' /\ AnswersOwn' /\ FreshTrail'
<1>1. KeyUnique'
  BY DEF IInv, Tame, SameIdentity, KeyUnique
<1>2. AnswersOwn'
  BY DEF IInv, Tame, SameIdentity, AnswersOwn
<1>3. FreshTrail'
  <2> SUFFICES ASSUME NEW i \in RowIds, i >= nextId PROVE trail'[i].last = "none"
    BY DEF FreshTrail, Tame
  <2>1. trail[i].last = "none"
    BY DEF IInv, FreshTrail
  <2>2. i \notin DOMAIN rows
    <3>1. nextId \in Nat /\ i \in Nat
      BY MaxRowsAssumption DEF IInv, TypeOK, RowIds
    <3>2. \A j \in DOMAIN rows : j < nextId
      BY DEF IInv, TypeOK
    <3>3. QED
      BY <3>1, <3>2
  <2>3. CASE trail' = trail
    BY <2>1, <2>3
  <2>4. ASSUME NEW S \in SUBSET DOMAIN rows, NEW a \in {"update", "delete", "restore"}, Audit(S, a)
        PROVE  trail'[i].last = "none"
    BY <2>1, <2>2, <2>4 DEF Audit
  <2>5. QED
    BY <2>3, <2>4 DEF Tame, AuditsRows
<1>4. QED
  BY <1>1, <1>2, <1>3

\* If no live row gains a digest, the live digests stay distinct.
LEMMA NoNewDigestKeepsUnique ==
  ASSUME IInv, NoNewDigest
  PROVE  LiveHashUnique'
<1> SUFFICES ASSUME NEW i \in Live', NEW j \in Live', SameHash(i, j)' PROVE i = j
  BY DEF LiveHashUnique
<1>1. i \in Live /\ j \in Live /\ SameHash(i, j)
  BY DEF NoNewDigest, Live, SameHash
<1>2. QED
  BY <1>1 DEF IInv, LiveHashUnique

\* Rewriting rows in place, keeping owner and key.
LEMMA RewriteIsTame ==
  ASSUME TypeOK, NEW S \in SUBSET DOMAIN rows, NEW new \in [S -> Row], Put(new),
         \A i \in S : new[i].owner = rows[i].owner /\ new[i].key = rows[i].key
  PROVE  /\ SameIdentity
         /\ (\A i \in S : ~new[i].trashed => ~rows[i].trashed /\ new[i].hash \in {rows[i].hash, NoHash})
              => NoNewDigest
<1>1. S \in SUBSET RowIds
  BY DEF TypeOK
<1>2. /\ DOMAIN rows' = DOMAIN rows
      /\ \A i \in DOMAIN rows' : rows'[i] = IF i \in S THEN new[i] ELSE rows[i]
  BY <1>1, PutRows
<1>3. QED
  BY <1>2 DEF SameIdentity, NoNewDigest

\* Flipping deleted_at changes neither owner, key nor digest of a row.
LEMMA TrashIsTame ==
  ASSUME TypeOK, NEW S \in SUBSET DOMAIN rows, NEW b \in BOOLEAN, SetTrashed(S, b)
  PROVE  /\ SameIdentity
         /\ b => NoNewDigest
         /\ DOMAIN rows' = DOMAIN rows
         /\ \A i \in DOMAIN rows : rows'[i].hash = rows[i].hash
                                   /\ rows'[i].trashed = IF i \in S THEN b ELSE rows[i].trashed
<1> DEFINE new == [i \in S |-> [rows[i] EXCEPT !.trashed = b]]
<1>1. \A i \in S : rows[i] \in Row
  BY DEF TypeOK
<1>2. /\ new \in [S -> Row]
      /\ \A i \in S : /\ new[i].owner = rows[i].owner /\ new[i].key = rows[i].key
                      /\ new[i].hash = rows[i].hash /\ new[i].trashed = b
  BY <1>1 DEF Row
<1>3. Put(new)
  BY DEF SetTrashed
<1>4. S \in SUBSET RowIds
  BY DEF TypeOK
<1> HIDE DEF new
<1>5. SameIdentity /\ (b => NoNewDigest)
  BY <1>2, <1>3, RewriteIsTame
<1>6. /\ DOMAIN rows' = DOMAIN rows
      /\ \A i \in DOMAIN rows' : rows'[i] = IF i \in S THEN new[i] ELSE rows[i]
  BY <1>2, <1>3, <1>4, PutRows
<1>7. QED
  BY <1>2, <1>5, <1>6

\* Destroying rows gives nobody a digest and moves no submission.
LEMMA DropIsTame ==
  ASSUME TypeOK, NEW S, Drop(S)
  PROVE  SameIdentity /\ NoNewDigest
BY DropRows DEF SameIdentity, NoNewDigest

\* Restoring rows re-arms their dormant digests.  It is safe when no live row
\* holds one of them and no two of the restored rows share one.
LEMMA RestoreKeepsUnique ==
  ASSUME IInv, NEW S \in SUBSET Trash, SetTrashed(S, FALSE),
         \A i \in S : ~LiveHolder(rows[i].hash),
         \A i, j \in S : i # j => ~SameHash(i, j)
  PROVE  LiveHashUnique'
<1>1. S \in SUBSET DOMAIN rows
  BY DEF Trash
<1>2. /\ DOMAIN rows' = DOMAIN rows
      /\ \A i \in DOMAIN rows : rows'[i].hash = rows[i].hash
                                /\ rows'[i].trashed = IF i \in S THEN FALSE ELSE rows[i].trashed
  BY <1>1, TrashIsTame DEF IInv
<1> SUFFICES ASSUME NEW i \in Live', NEW j \in Live', SameHash(i, j)' PROVE i = j
  BY DEF LiveHashUnique
<1>3. (i \in Live \/ i \in S) /\ (j \in Live \/ j \in S) /\ SameHash(i, j)
  BY <1>2 DEF Live, SameHash
<1>4. CASE i \in Live /\ j \in Live
  BY <1>3, <1>4 DEF IInv, LiveHashUnique
<1>5. CASE i \in S /\ j \in S
  BY <1>3, <1>5
<1>6. CASE (i \in S /\ j \in Live) \/ (i \in Live /\ j \in S)
  BY <1>3, <1>6 DEF SameHash, LiveHolder
<1>7. QED
  BY <1>3, <1>4, <1>5, <1>6

(***************************************************************************)
(* The two inserts, the only steps that hand out ids.                      *)
(***************************************************************************)
LEMMA InsertRowKeeps ==
  ASSUME IInv, NEW s \in Slots, InsertRow(s)
  PROVE  KeyUnique' /\ AnswersOwn' /\ FreshTrail' /\ LiveHashUnique'
<1> DEFINE r == req[s]
           row == NewRow(r.user, r.key, r.text, r.cat, r.hash)
<1>1. /\ r.op = "create" /\ nextId \in RowIds /\ nextId' = nextId + 1
      /\ ~LiveHolder(r.hash) /\ KeyHolders(r.user, r.key) = {}
      /\ Put([i \in {nextId} |-> row]) /\ Audit({nextId}, "insert")
      /\ Answer(r.user, r.key, nextId)
  BY DEF InsertRow
<1>2. row \in Row
  BY <1>1, NewRowTyped DEF IInv
<1>3. [i \in {nextId} |-> row] \in [{nextId} -> Row] /\ {nextId} \in SUBSET RowIds
  BY <1>1, <1>2
<1>4. /\ DOMAIN rows' = DOMAIN rows \cup {nextId}
      /\ \A i \in DOMAIN rows' : rows'[i] = IF i = nextId THEN row ELSE rows[i]
  <2>1. /\ DOMAIN rows' = DOMAIN rows \cup {nextId}
        /\ \A i \in DOMAIN rows' :
             rows'[i] = IF i \in {nextId} THEN [j \in {nextId} |-> row][i] ELSE rows[i]
    BY <1>1, <1>3, PutRows DEF IInv
  <2>2. QED
    BY <2>1
<1>5. row.owner = r.user /\ row.key = r.key /\ row.hash = r.hash
  BY DEF NewRow
<1>6. /\ nextId \in Nat /\ \A i \in DOMAIN rows : i \in Nat /\ i < nextId
      /\ \A a \in answers : a.id \in Nat
  BY <1>1, MaxRowsAssumption DEF IInv, TypeOK, RowIds
<1> HIDE DEF row
<1>7. KeyUnique'
  <2> SUFFICES ASSUME NEW i \in DOMAIN rows', NEW j \in DOMAIN rows', rows'[i].key # NoKey,
                      rows'[i].key = rows'[j].key, rows'[i].owner = rows'[j].owner
               PROVE  i = j
    BY DEF KeyUnique
  <2>1. \A k \in DOMAIN rows : ~(row.key # NoKey /\ rows[k].key = row.key /\ rows[k].owner = row.owner)
    BY <1>1, <1>5 DEF KeyHolders
  <2>2. CASE i \in DOMAIN rows /\ j \in DOMAIN rows
    BY <1>4, <1>6, <2>2 DEF IInv, KeyUnique
  <2>3. QED
    BY <1>4, <1>6, <2>1, <2>2
<1>8. AnswersOwn'
  <2> SUFFICES ASSUME NEW a \in answers'
               PROVE  /\ a.id < nextId'
                      /\ a.id \in DOMAIN rows' => rows'[a.id].owner = a.user /\ rows'[a.id].key = a.key
    BY DEF AnswersOwn
  <2>1. CASE a \in answers
    <3>1. a.id < nextId /\ a.id \in Nat
      BY <1>6, <2>1 DEF IInv, AnswersOwn
    <3>2. a.id < nextId' /\ a.id # nextId
      BY <1>1, <1>6, <3>1
    <3>3. QED
      BY <1>4, <2>1, <3>2 DEF IInv, AnswersOwn
  <2>2. CASE a = [user |-> r.user, key |-> r.key, id |-> nextId]
    BY <1>1, <1>4, <1>5, <1>6, <2>2
  <2>3. QED
    BY <1>1, <2>1, <2>2 DEF Answer
<1>9. FreshTrail'
  <2> SUFFICES ASSUME NEW i \in RowIds, i >= nextId' PROVE trail'[i].last = "none"
    BY DEF FreshTrail
  <2>1. i >= nextId /\ i # nextId
    BY <1>1, <1>6 DEF RowIds
  <2>2. QED
    BY <1>1, <2>1 DEF IInv, FreshTrail, Audit
<1>10. LiveHashUnique'
  <2> SUFFICES ASSUME NEW i \in Live', NEW j \in Live', SameHash(i, j)' PROVE i = j
    BY DEF LiveHashUnique
  <2>1. i \in DOMAIN rows' /\ j \in DOMAIN rows' /\ rows'[i].hash = rows'[j].hash
        /\ rows'[i].hash # NoHash /\ ~rows'[i].trashed /\ ~rows'[j].trashed
    BY DEF Live, SameHash
  <2>2. \A k \in Live : ~(row.hash # NoHash /\ rows[k].hash = row.hash)
    BY <1>1, <1>5 DEF LiveHolder
  <2>3. CASE i # nextId /\ j # nextId
    BY <1>4, <2>1, <2>3 DEF IInv, LiveHashUnique, Live, SameHash
  <2>4. CASE i = nextId /\ j # nextId
    BY <1>4, <2>1, <2>2, <2>4 DEF Live
  <2>5. CASE i # nextId /\ j = nextId
    BY <1>4, <2>1, <2>2, <2>5 DEF Live
  <2>6. QED
    BY <2>3, <2>4, <2>5
<1>11. QED
  BY <1>7, <1>8, <1>9, <1>10

\* Of the items of a batch that share a digest only the first keeps it, and only
\* if no live row holds it.
LEMMA BatchHashes ==
  ASSUME TypeOK, NEW items \in Items, NEW m \in 1..Len(items), NEW n \in 1..Len(items),
         BatchHash(items, m) # NoHash
  PROVE  ~LiveHolder(BatchHash(items, m)) /\ (BatchHash(items, m) = BatchHash(items, n) => m = n)
<1>1. Len(items) \in Nat
        /\ \A k \in 1..Len(items) : items[k].text \in Texts /\ items[k].cat \in Cats
  BY ItemsTyped
<1> DEFINE d(k) == Digest(items[k].text, items[k].cat)
<1>2. \A k \in 1..Len(items) :
        BatchHash(items, k) # NoHash =>
          /\ BatchHash(items, k) = d(k) /\ ~LiveHolder(d(k))
          /\ \A l \in 1..(k - 1) : d(l) # d(k)
  BY DEF BatchHash
<1> HIDE DEF d
<1>3. ASSUME BatchHash(items, m) = BatchHash(items, n), m # n
      PROVE  FALSE
  <2>1. d(m) = d(n) /\ (\A l \in 1..(m - 1) : d(l) # d(m)) /\ (\A l \in 1..(n - 1) : d(l) # d(n))
    BY <1>2, <1>3
  <2>2. m \in 1..(n - 1) \/ n \in 1..(m - 1)
    BY <1>1, <1>3
  <2>3. QED
    BY <2>1, <2>2
<1>4. QED
  BY <1>2, <1>3

\* A batch of keyless items takes fresh ids, and its digests clash neither with live
\* rows nor with one another.
LEMMA BatchCreateKeeps ==
  ASSUME IInv, NEW u \in Users, NEW items \in Items, BatchCreate(u, items)
  PROVE  KeyUnique' /\ AnswersOwn' /\ FreshTrail' /\ LiveHashUnique'
<1> DEFINE n == Len(items)
           ids == nextId .. (nextId + n - 1)
           item(i) == i - nextId + 1
           new == [i \in ids |-> LET m == i - nextId + 1
                                 IN NewRow(u, NoKey, items[m].text, items[m].cat, BatchHash(items, m))]
<1>1. n \in Nat /\ \A m \in 1..n : items[m].text \in Texts /\ items[m].cat \in Cats
  BY ItemsTyped
<1>2. Put(new) /\ nextId' = nextId + n /\ Audit(ids, "insert") /\ answers' = answers
  BY DEF BatchCreate
<1>3. /\ nextId \in Nat /\ \A i \in DOMAIN rows : i \in Nat /\ i < nextId
      /\ \A a \in answers : a.id \in Nat
  BY MaxRowsAssumption DEF IInv, TypeOK, RowIds
<1>4. \A i \in ids : item(i) \in 1..n /\ i \notin DOMAIN rows
  BY <1>1, <1>3
<1>5. /\ DOMAIN rows' = DOMAIN rows \cup ids
      /\ \A i \in DOMAIN rows' : rows'[i] = IF i \in ids THEN new[i] ELSE rows[i]
  BY <1>2 DEF Put
<1>6. \A i \in ids : new[i].key = NoKey /\ new[i].hash = BatchHash(items, item(i))
  BY DEF NewRow
<1> HIDE DEF new, ids, item
<1>7. KeyUnique'
  <2> SUFFICES ASSUME NEW i \in DOMAIN rows', NEW j \in DOMAIN rows', rows'[i].key # NoKey,
                      rows'[i].key = rows'[j].key, rows'[i].owner = rows'[j].owner
               PROVE  i = j
    BY DEF KeyUnique
  <2>1. i \in DOMAIN rows /\ j \in DOMAIN rows /\ i \notin ids /\ j \notin ids
    BY <1>5, <1>6
  <2>2. QED
    BY <1>5, <2>1 DEF IInv, KeyUnique
<1>8. AnswersOwn'
  <2> SUFFICES ASSUME NEW a \in answers
               PROVE  /\ a.id < nextId'
                      /\ a.id \in DOMAIN rows' => rows'[a.id].owner = a.user /\ rows'[a.id].key = a.key
    BY <1>2 DEF AnswersOwn
  <2>1. a.id < nextId
    BY DEF IInv, AnswersOwn
  <2>2. a.id < nextId' /\ a.id \notin ids
    BY <1>1, <1>2, <1>3, <2>1 DEF ids
  <2>3. QED
    BY <1>5, <2>2 DEF IInv, AnswersOwn
<1>9. FreshTrail'
  <2> SUFFICES ASSUME NEW i \in RowIds, i >= nextId' PROVE trail'[i].last = "none"
    BY DEF FreshTrail
  <2>1. i >= nextId /\ i \notin ids
    BY <1>1, <1>2, <1>3 DEF RowIds, ids
  <2>2. QED
    BY <1>2, <2>1 DEF IInv, FreshTrail, Audit
<1>10. LiveHashUnique'
  <2> SUFFICES ASSUME NEW i \in Live', NEW j \in Live', SameHash(i, j)' PROVE i = j
    BY DEF LiveHashUnique
  <2>1. i \in DOMAIN rows' /\ j \in DOMAIN rows' /\ rows'[i].hash = rows'[j].hash
        /\ rows'[i].hash # NoHash /\ ~rows'[i].trashed /\ ~rows'[j].trashed
    BY DEF Live, SameHash
  <2>2. \A k \in ids : new[k].hash # NoHash => ~LiveHolder(new[k].hash)
    BY <1>4, <1>6, BatchHashes DEF IInv
  <2>3. CASE i \notin ids /\ j \notin ids
    BY <1>5, <2>1, <2>3 DEF IInv, LiveHashUnique, Live, SameHash
  <2>4. CASE i \in ids /\ j \notin ids
    BY <1>5, <2>1, <2>2, <2>4 DEF Live, LiveHolder
  <2>5. CASE i \notin ids /\ j \in ids
    BY <1>5, <2>1, <2>2, <2>5 DEF Live, LiveHolder
  <2>6. CASE i \in ids /\ j \in ids
    <3>1. BatchHash(items, item(i)) = BatchHash(items, item(j)) /\ BatchHash(items, item(i)) # NoHash
      BY <1>5, <1>6, <2>1, <2>6
    <3>2. item(i) = item(j)
      BY <1>4, <2>6, <3>1, BatchHashes DEF IInv
    <3>3. QED
      BY <1>3, <2>6, <3>2 DEF item, ids
  <2>7. QED
    BY <2>3, <2>4, <2>5, <2>6
<1>11. QED
  BY <1>7, <1>8, <1>9, <1>10

(***************************************************************************)
(* Every other step is tame, and brings a live row a digest only where no  *)
(* live row holds it.                                                      *)
(***************************************************************************)
LEMMA UnchangedIsTame ==
  ASSUME TypeOK, UNCHANGED <<rows, nextId, trail, answers>>
  PROVE  Tame /\ NoNewDigest
BY DEF Tame, SameIdentity, NoNewDigest, AuditsRows

\* A handler that has only read has changed nothing.
LEMMA ArriveIsTame ==
  ASSUME TypeOK, NEW s \in Slots, Arrive(s)
  PROVE  Tame /\ NoNewDigest
<1>1. UNCHANGED <<rows, nextId, trail, answers>>
  BY DEF Arrive, StartCreate, StartEdit, StartDelete, StartRestore, StartPurge, StartRestoreAll,
         StartDeleteUser
<1>2. QED
  BY <1>1, UnchangedIsTame

\* The lookup answers with the row that holds the key.
LEMMA LookupKeeps ==
  ASSUME IInv, NEW s \in Slots, LookupKey(s)
  PROVE  KeyUnique' /\ AnswersOwn' /\ FreshTrail' /\ LiveHashUnique'
<1> DEFINE r == req[s]
<1>1. UNCHANGED <<rows, nextId, trail>>
  BY DEF LookupKey
<1>2. KeyUnique' /\ FreshTrail' /\ LiveHashUnique'
  BY <1>1 DEF IInv, KeyUnique, FreshTrail, LiveHashUnique, Live, SameHash
<1>3. AnswersOwn'
  <2> SUFFICES ASSUME NEW a \in answers'
               PROVE  /\ a.id < nextId
                      /\ a.id \in DOMAIN rows => rows[a.id].owner = a.user /\ rows[a.id].key = a.key
    BY <1>1 DEF AnswersOwn
  <2>1. CASE a \in answers
    BY <2>1 DEF IInv, AnswersOwn
  <2>2. CASE a \notin answers
    <3> PICK i \in KeyHolders(r.user, r.key) : a = [user |-> r.user, key |-> r.key, id |-> i]
      BY <2>2 DEF LookupKey, Answer
    <3>1. i \in DOMAIN rows /\ rows[i].owner = r.user /\ rows[i].key = r.key
      BY DEF KeyHolders
    <3>2. i < nextId
      BY <3>1 DEF IInv, TypeOK
    <3>3. QED
      BY <3>1, <3>2
  <2>3. QED
    BY <2>1, <2>2
<1>4. QED
  BY <1>2, <1>3

\* The steps of a create that lead up to, or away from, its insert write no row.
LEMMA CreateKeeps ==
  ASSUME IInv, NEW s \in Slots,
         ProbeHash(s) \/ InsertHashConflict(s) \/ InsertKeyConflict(s) \/ InsertOrphan(s)
  PROVE  Tame /\ LiveHashUnique'
<1>1. Tame /\ NoNewDigest
  BY UnchangedIsTame DEF IInv, ProbeHash, InsertHashConflict, InsertKeyConflict, InsertOrphan
<1>2. QED
  BY <1>1, NoNewDigestKeepsUnique

\* The store call of an edit, delete, restore, restore-all, purge or account deletion
\* keeps the submissions apart and the live digests distinct.
LEMMA CommitKeeps ==
  ASSUME IInv, NEW s \in Slots,
         \/ CommitEdit(s) \/ CommitDelete(s) \/ CommitRestore(s) \/ CommitRestoreAll(s)
         \/ CommitPurge(s) \/ CommitDeleteUser(s)
  PROVE  Tame /\ LiveHashUnique'
<1> USE DEF IInv
<1>1. nextId' = nextId /\ answers' = answers
  BY DEF CommitEdit, CommitDelete, CommitRestore, CommitRestoreAll, CommitPurge, CommitDeleteUser
<1>2. CASE UNCHANGED <<rows, trail>>
  <2>1. Tame /\ NoNewDigest
    BY <1>1, <1>2, UnchangedIsTame
  <2>2. QED
    BY <2>1, NoNewDigestKeepsUnique
<1>3. CASE CommitEdit(s) /\ req[s].id \in DOMAIN rows
  <2> DEFINE new == [i \in {req[s].id} |-> Edited(rows[i], req[s].text, req[s].cat)]
  <2>1. req[s].text \in Texts /\ req[s].cat \in Cats
    BY <1>3, RequestKinds DEF CommitEdit, EditReq
  <2>2. rows[req[s].id] \in Row
    BY <1>3 DEF TypeOK
  <2>3. /\ new \in [{req[s].id} -> Row]
        /\ \A i \in {req[s].id} :
             /\ new[i].owner = rows[i].owner /\ new[i].key = rows[i].key
             /\ new[i].trashed = rows[i].trashed /\ new[i].hash \in {rows[i].hash, NoHash}
    BY <2>1, <2>2, EditedRow
  <2>4. Put(new) /\ Audit({req[s].id}, "update")
    BY <1>3 DEF CommitEdit
  <2> HIDE DEF new
  <2>5. SameIdentity /\ NoNewDigest
    BY <1>3, <2>3, <2>4, RewriteIsTame
  <2>6. Tame
    BY <1>1, <1>3, <2>4, <2>5 DEF Tame, AuditsRows
  <2>7. QED
    BY <2>5, <2>6, NoNewDigestKeepsUnique
<1>4. CASE CommitDelete(s) /\ ~UNCHANGED <<rows, trail>>
  <2>1. /\ {req[s].id} \in SUBSET DOMAIN rows
        /\ SetTrashed({req[s].id}, TRUE) /\ Audit({req[s].id}, "delete")
    BY <1>4 DEF CommitDelete, Live
  <2>2. SameIdentity /\ NoNewDigest
    BY <2>1, TrashIsTame
  <2>3. Tame
    BY <1>1, <2>1, <2>2 DEF Tame, AuditsRows
  <2>4. QED
    BY <2>2, <2>3, NoNewDigestKeepsUnique
<1>5. ASSUME NEW back \in SUBSET Trash, SetTrashed(back, FALSE), Audit(back, "restore"),
             \A i \in back : ~LiveHolder(rows[i].hash),
             \A i, j \in back : i # j => ~SameHash(i, j)
      PROVE  Tame /\ LiveHashUnique'
  <2>1. back \in SUBSET DOMAIN rows
    BY DEF Trash
  <2>2. SameIdentity
    BY <1>5, <2>1, TrashIsTame
  <2>3. Tame
    BY <1>1, <1>5, <2>1, <2>2 DEF Tame, AuditsRows
  <2>4. QED
    BY <1>5, <2>3, RestoreKeepsUnique
<1>6. CASE CommitRestore(s) /\ ~UNCHANGED <<rows, trail>>
  <2>1. /\ {req[s].id} \in SUBSET Trash /\ ~LiveHolder(rows[req[s].id].hash)
        /\ SetTrashed({req[s].id}, FALSE) /\ Audit({req[s].id}, "restore")
    BY <1>6 DEF CommitRestore
  <2>2. QED
    BY <1>5, <2>1
<1>7. CASE CommitRestoreAll(s)
  <2> PICK back \in SUBSET (req[s].ids \cap Trash) :
             Restorable(req[s].ids, back) /\ SetTrashed(back, FALSE) /\ Audit(back, "restore")
    BY <1>7 DEF CommitRestoreAll
  <2>1. /\ \A i \in back : ~LiveHolder(rows[i].hash)
        /\ \A i, j \in back : i # j => ~SameHash(i, j)
    BY DEF Restorable
  <2>2. QED
    BY <1>5, <2>1
<1>8. CASE CommitPurge(s) \/ CommitDeleteUser(s)
  <2>1. trail' = trail /\ \E S : Drop(S)
    BY <1>8 DEF CommitPurge, CommitDeleteUser
  <2>2. SameIdentity /\ NoNewDigest
    BY <2>1, DropIsTame
  <2>3. Tame
    BY <1>1, <2>1, <2>2 DEF Tame, AuditsRows
  <2>4. QED
    BY <2>2, <2>3, NoNewDigestKeepsUnique
<1>9. CASE CommitEdit(s) /\ req[s].id \notin DOMAIN rows
  BY <1>2, <1>9 DEF CommitEdit
<1>10. QED
  BY <1>2, <1>3, <1>4, <1>6, <1>7, <1>8, <1>9

\* So do the bulk writers and a category rename; a batch create is the one that adds rows.
LEMMA BulkKeeps ==
  ASSUME IInv, BulkWrite
  PROVE  \/ Tame /\ LiveHashUnique'
         \/ SomeSlot("batchCreate") /\ \E u \in Users, items \in Items : BatchCreate(u, items)
<1> USE DEF IInv
<1>1. ASSUME NEW u \in Users, NEW ids \in SUBSET RowIds, NEW p \in Patches,
             BatchUpdate(u, ids, p) \/ FilterUpdate(u, ids, p)
      PROVE  Tame /\ LiveHashUnique'
  <2> DEFINE hit == {i \in ids \cap Live : MayTouch(u, i)}
             new == [i \in hit |-> Patched(rows[i], p)]
  <2>1. hit \in SUBSET DOMAIN rows /\ \A i \in hit : rows[i] \in Row
    BY DEF Live, TypeOK
  <2>2. Put(new) /\ (trail' = trail \/ Audit(hit, "update")) /\ UNCHANGED <<nextId, answers>>
    BY <1>1 DEF BatchUpdate, FilterUpdate
  <2>3. /\ new \in [hit -> Row]
        /\ \A i \in hit :
             /\ new[i].owner = rows[i].owner /\ new[i].key = rows[i].key
             /\ new[i].trashed = rows[i].trashed /\ new[i].hash \in {rows[i].hash, NoHash}
    BY <2>1, PatchedRow
  <2> HIDE DEF new, hit
  <2>4. SameIdentity /\ NoNewDigest
    BY <2>1, <2>2, <2>3, RewriteIsTame
  <2>5. Tame
    BY <2>1, <2>2, <2>4 DEF Tame, AuditsRows
  <2>6. QED
    BY <2>4, <2>5, NoNewDigestKeepsUnique
<1>2. ASSUME NEW u \in Users, NEW ids \in SUBSET RowIds,
             BatchDelete(u, ids) \/ FilterDelete(u, ids)
      PROVE  Tame /\ LiveHashUnique'
  <2> DEFINE hit == {i \in ids \cap Live : MayTouch(u, i)}
  <2>1. hit \in SUBSET DOMAIN rows
    BY DEF Live
  <2>2. SetTrashed(hit, TRUE) /\ (trail' = trail \/ Audit(hit, "delete"))
        /\ UNCHANGED <<nextId, answers>>
    BY <1>2 DEF BatchDelete, FilterDelete
  <2> HIDE DEF hit
  <2>3. SameIdentity /\ NoNewDigest
    BY <2>1, <2>2, TrashIsTame
  <2>4. Tame
    BY <2>1, <2>2, <2>3 DEF Tame, AuditsRows
  <2>5. QED
    BY <2>3, <2>4, NoNewDigestKeepsUnique
<1>3. ASSUME NEW u \in Users, NEW ids \in SUBSET RowIds, BatchRestore(u, ids)
      PROVE  Tame /\ LiveHashUnique'
  <2> PICK back \in SUBSET Trash :
             /\ Restorable({i \in ids \cap DOMAIN rows : MayTouch(u, i)}, back)
             /\ SetTrashed(back, FALSE) /\ Audit(back, "restore")
    BY <1>3 DEF BatchRestore
  <2>1. /\ \A i \in back : ~LiveHolder(rows[i].hash)
        /\ \A i, j \in back : i # j => ~SameHash(i, j)
    BY DEF Restorable
  <2>2. back \in SUBSET DOMAIN rows
    BY DEF Trash
  <2>3. SameIdentity
    BY <2>2, TrashIsTame
  <2>4. Tame
    BY <1>3, <2>2, <2>3 DEF Tame, AuditsRows, BatchRestore
  <2>5. QED
    BY <2>1, <2>4, RestoreKeepsUnique
<1>4. ASSUME NEW u \in Users, PurgeAll(u)
      PROVE  Tame /\ LiveHashUnique'
  <2>1. SameIdentity /\ NoNewDigest
    BY <1>4, DropIsTame DEF PurgeAll
  <2>2. Tame
    BY <1>4, <2>1 DEF Tame, AuditsRows, PurgeAll
  <2>3. QED
    BY <2>1, <2>2, NoNewDigestKeepsUnique
<1>5. ASSUME NEW u \in Users, NEW c \in Cats, NEW n \in Names, RenameCategory(u, c, n)
      PROVE  Tame /\ LiveHashUnique'
  <2> DEFINE S == {j \in DOMAIN rows : rows[j].cat = c}
             new == [i \in S |-> [rows[i] EXCEPT !.hash = NoHash]]
  <2>1. S \in SUBSET DOMAIN rows /\ \A i \in S : rows[i] \in Row
    BY DEF TypeOK
  <2>2. /\ new \in [S -> Row]
        /\ \A i \in S : /\ new[i].owner = rows[i].owner /\ new[i].key = rows[i].key
                        /\ new[i].trashed = rows[i].trashed /\ new[i].hash = NoHash
    BY <2>1 DEF Row
  <2>3. Put(new) /\ UNCHANGED <<nextId, trail, answers>>
    BY <1>5 DEF RenameCategory
  <2> HIDE DEF S, new
  <2>4. SameIdentity /\ NoNewDigest
    BY <2>1, <2>2, <2>3, RewriteIsTame
  <2>5. Tame
    BY <2>3, <2>4 DEF Tame, AuditsRows
  <2>6. QED
    BY <2>4, <2>5, NoNewDigestKeepsUnique
<1>6. QED
  BY <1>1, <1>2, <1>3, <1>4, <1>5 DEF BulkWrite

\* The boot backfill anchors a live row only to a digest no live row holds.
LEMMA RestartKeeps ==
  ASSUME IInv, Crash \/ BackfillRow \/ BackfillDone
  PROVE  Tame /\ LiveHashUnique'
<1> USE DEF IInv
<1>1. CASE UNCHANGED <<rows, nextId, trail, answers>>
  BY <1>1, UnchangedIsTame, NoNewDigestKeepsUnique
<1>2. CASE BackfillRow /\ ~UNCHANGED rows
  <2> DEFINE h(i) == Digest(rows[i].text, rows[i].cat)
             new(i) == [j \in {i} |-> [rows[j] EXCEPT !.hash = h(i)]]
  <2> PICK i \in Unhashed : (rows[i].trashed \/ ~LiveHolder(h(i))) /\ Put(new(i))
    BY <1>2 DEF BackfillRow
  <2>1. {i} \in SUBSET DOMAIN rows /\ i \in RowIds /\ rows[i] \in Row
    BY DEF Unhashed, TypeOK
  <2>2. h(i) \in Digests
    BY <2>1, DigestTyped DEF Row
  <2>3. /\ new(i) \in [{i} -> Row]
        /\ new(i)[i].owner = rows[i].owner /\ new(i)[i].key = rows[i].key
        /\ new(i)[i].trashed = rows[i].trashed /\ new(i)[i].hash = h(i)
    BY <2>1, <2>2 DEF Row
  <2> HIDE DEF new
  <2>4. SameIdentity
    BY <2>1, <2>3, RewriteIsTame
  <2>5. Tame
    BY <1>2, <2>4 DEF Tame, AuditsRows, BackfillRow
  <2>6. /\ DOMAIN rows' = DOMAIN rows
        /\ \A j \in DOMAIN rows' : rows'[j] = IF j = i THEN new(i)[i] ELSE rows[j]
    <3>1. /\ DOMAIN rows' = DOMAIN rows \cup {i}
          /\ \A j \in DOMAIN rows' : rows'[j] = IF j \in {i} THEN new(i)[j] ELSE rows[j]
      BY <2>1, <2>3, PutRows
    <3>2. QED
      BY <2>1, <3>1
  <2>7. LiveHashUnique'
    <3> SUFFICES ASSUME NEW j \in Live', NEW k \in Live', SameHash(j, k)' PROVE j = k
      BY DEF LiveHashUnique
    <3>1. /\ rows'[j].hash = rows'[k].hash /\ rows'[j].hash # NoHash
          /\ j \in Live /\ k \in Live
      BY <2>3, <2>6 DEF Live, SameHash
    <3>2. CASE j # i /\ k # i
      BY <2>6, <3>1, <3>2 DEF LiveHashUnique, SameHash, Live
    <3>3. CASE j = i /\ k # i
      BY <2>3, <2>6, <3>1, <3>3 DEF Live, LiveHolder
    <3>4. CASE j # i /\ k = i
      BY <2>3, <2>6, <3>1, <3>4 DEF Live, LiveHolder
    <3>5. QED
      BY <3>2, <3>3, <3>4
  <2>8. QED
    BY <2>5, <2>7
<1>3. QED
  BY <1>1, <1>2 DEF Crash, BackfillRow, BackfillDone

\* An empty ledger satisfies the invariant.
LEMMA InitInv == Init => IInv
<1>1. Init => KeyUnique /\ AnswersOwn /\ FreshTrail /\ LiveHashUnique
  BY DEF Init, KeyUnique, AnswersOwn, FreshTrail, LiveHashUnique, Live
<1>2. QED
  BY <1>1, InitTyped DEF IInv

\* A step hands out an id, looks one up, or is tame.
LEMMA StepKinds ==
  ASSUME IInv, [Next]_vars
  PROVE  \/ Tame /\ LiveHashUnique'
         \/ \E s \in Slots : InsertRow(s) \/ LookupKey(s)
         \/ \E u \in Users, items \in Items : BatchCreate(u, items)
<1>1. ASSUME NEW s \in Slots, Arrive(s) PROVE Tame /\ LiveHashUnique'
  BY <1>1, ArriveIsTame, NoNewDigestKeepsUnique DEF IInv
<1>2. ASSUME NEW s \in Slots, Proceed(s)
      PROVE  (Tame /\ LiveHashUnique') \/ InsertRow(s) \/ LookupKey(s)
  BY <1>2, CreateKeeps, CommitKeeps DEF Proceed
<1>3. CASE UNCHANGED vars
  BY <1>3, UnchangedIsTame, NoNewDigestKeepsUnique DEF vars, IInv
<1>4. QED
  BY <1>1, <1>2, <1>3, BulkKeeps, RestartKeeps DEF Next

\* Every step keeps the invariant.
LEMMA NextInv == IInv /\ [Next]_vars => IInv'
<1> SUFFICES ASSUME IInv, [Next]_vars PROVE IInv'
  OBVIOUS
<1>1. TypeOK'
  BY NextTyped DEF IInv
<1>2. KeyUnique' /\ AnswersOwn' /\ FreshTrail' /\ LiveHashUnique'
  BY StepKinds, TameKeepsIdentity, InsertRowKeeps, LookupKeeps, BatchCreateKeeps
<1>3. QED
  BY <1>1, <1>2 DEF IInv

\* The conjunction of what the two unique indexes enforce and of fresh ids is inductive:
\* it holds of every reachable ledger, through retries, races and restarts.
THEOREM Invariance == Spec => []IInv
BY InitInv, NextInv, PTL DEF Spec

(***************************************************************************)
(* What follows from it.                                                   *)
(***************************************************************************)
\* No two live rows ever hold one digest, whatever creates, edits, restores,
\* renames, restarts and backfills interleave.
THEOREM LiveHashesUnique == Spec => []LiveHashUnique
<1>1. IInv => LiveHashUnique
  BY DEF IInv
<1>2. QED
  BY <1>1, Invariance, PTL

\* A retried submission is recorded once: all its 201 answers name one row.
THEOREM CreatesExactlyOnce == Spec => []ExactlyOnce
<1>1. IInv => ExactlyOnce
  <2> SUFFICES ASSUME IInv, NEW a \in answers, NEW b \in answers
               PROVE  /\ a.id \in DOMAIN rows => rows[a.id].owner = a.user /\ rows[a.id].key = a.key
                      /\ (a.user = b.user /\ a.key = b.key /\ {a.id, b.id} \subseteq DOMAIN rows)
                           => a.id = b.id
    BY DEF ExactlyOnce
  <2>1. a.key # NoKey
    BY NullsAssumption DEF IInv, TypeOK
  <2>2. QED
    BY <2>1 DEF IInv, AnswersOwn, KeyUnique
<1>2. QED
  BY <1>1, Invariance, PTL

\* An id is never handed out twice: what a slow handler or a client's undo holds
\* can be gone, but never be another row.
THEOREM FreshIds == Spec => IdsAreFresh
<1>1. IInv /\ [Next]_vars => [\A i \in DOMAIN rows' \ DOMAIN rows : trail[i].last = "none"]_vars
  <2> SUFFICES ASSUME IInv, [Next]_vars, NEW i \in DOMAIN rows', i \notin DOMAIN rows
               PROVE  trail[i].last = "none"
    OBVIOUS
  <2>1. CASE Tame
    BY <2>1 DEF Tame, SameIdentity
  <2>2. ASSUME NEW s \in Slots, LookupKey(s) PROVE FALSE
    BY <2>2 DEF LookupKey
  <2>3. ASSUME NEW s \in Slots, InsertRow(s) PROVE trail[i].last = "none"
    <3>1. i = nextId /\ nextId \in RowIds
      BY <2>3 DEF InsertRow, Put
    <3>2. QED
      BY <3>1, MaxRowsAssumption DEF IInv, FreshTrail, RowIds
  <2>4. ASSUME NEW u \in Users, NEW items \in Items, BatchCreate(u, items)
        PROVE  trail[i].last = "none"
    <3>1. i \in nextId .. (nextId + Len(items) - 1)
      BY <2>4 DEF BatchCreate, Put
    <3>2. i \in RowIds
      BY NextTyped DEF IInv, TypeOK
    <3>3. i >= nextId
      BY <3>1, MaxRowsAssumption DEF IInv, TypeOK
    <3>4. QED
      BY <3>2, <3>3 DEF IInv, FreshTrail
  <2>5. QED
    BY <2>1, <2>2, <2>3, <2>4, StepKinds
<1>2. QED
  BY <1>1, Invariance, PTL DEF Spec, IdsAreFresh

(***************************************************************************)
(* The ledger implements the submission log: initial states map to initial *)
(* states, and every step of a handler, a bulk write, an account deletion  *)
(* or a restart maps to a step of the log or to a stutter.                 *)
(***************************************************************************)
\* The foreign key: a row's owner has an account.  A cascade is then the only
\* step that destroys a live row.
OwnersExist == \A i \in DOMAIN rows : rows[i].owner \in users

\* What a step does to the table, seen from outside: it adds live rows or it
\* destroys rows, out of the trash or with their owner's account, never both.
TableStep ==
  /\ DOMAIN rows' \subseteq DOMAIN rows \/ DOMAIN rows \subseteq DOMAIN rows'
  /\ \A i \in DOMAIN rows \ DOMAIN rows' : rows[i].trashed \/ rows[i].owner \in users \ users'
  /\ \A i \in DOMAIN rows \cap DOMAIN rows' :
       rows'[i].owner = rows[i].owner /\ rows'[i].key = rows[i].key
  /\ \A i \in DOMAIN rows' \ DOMAIN rows : ~rows'[i].trashed /\ rows'[i].owner \in users
  /\ users' \subseteq users

\* An answer is new only when the row it names is there.
AnswerStep ==
  /\ answers \subseteq answers'
  /\ \A a \in answers' \ answers : KeyHolders(a.user, a.key)' # {}

\* Only three steps take rows out of the table.
LEMMA Destroyers ==
  ASSUME TypeOK, [Next]_vars
  PROVE  \/ DOMAIN rows \subseteq DOMAIN rows' /\ users' = users
         \/ Drop(Trash) /\ users' = users
         \/ \E i \in RowIds : Drop({i} \cap Trash) /\ users' = users
         \/ \E v \in Users : Drop({i \in DOMAIN rows : rows[i].owner = v}) /\ users' = users \ {v}
<1> DEFINE Grows == DOMAIN rows \subseteq DOMAIN rows' /\ users' = users
<1>1. ASSUME NEW s \in Slots, Arrive(s) PROVE Grows
  BY <1>1 DEF Arrive, StartCreate, StartEdit, StartDelete, StartRestore, StartPurge, StartRestoreAll,
              StartDeleteUser
<1>2. \A new : Put(new) => DOMAIN rows \subseteq DOMAIN rows'
  BY DEF Put
<1>3. \A S, b : SetTrashed(S, b) => DOMAIN rows \subseteq DOMAIN rows'
  BY <1>2 DEF SetTrashed
<1>4. ASSUME NEW s \in Slots,
             \/ ProbeHash(s) \/ InsertHashConflict(s) \/ InsertKeyConflict(s) \/ InsertRow(s)
             \/ InsertOrphan(s) \/ LookupKey(s)
      PROVE  Grows
  BY <1>2, <1>4 DEF ProbeHash, InsertHashConflict, InsertKeyConflict, InsertRow, InsertOrphan, LookupKey
<1>5. ASSUME NEW s \in Slots,
             CommitEdit(s) \/ CommitDelete(s) \/ CommitRestore(s) \/ CommitRestoreAll(s)
      PROVE  Grows
  BY <1>2, <1>3, <1>5 DEF CommitEdit, CommitDelete, CommitRestore, CommitRestoreAll
<1>6. ASSUME NEW s \in Slots, CommitPurge(s)
      PROVE  \E i \in RowIds : Drop({i} \cap Trash) /\ users' = users
  <2>1. req[s].id \in RowIds
    BY <1>6, RequestKinds DEF CommitPurge, RowReq
  <2>2. QED
    BY <1>6, <2>1 DEF CommitPurge
<1>7. ASSUME NEW s \in Slots, CommitDeleteUser(s)
      PROVE  \E v \in Users :
               Drop({i \in DOMAIN rows : rows[i].owner = v}) /\ users' = users \ {v}
  <2>1. req[s].target \in Users
    BY <1>7, RequestKinds DEF CommitDeleteUser, DeleteUserReq
  <2>2. QED
    BY <1>7, <2>1 DEF CommitDeleteUser
<1>8. ASSUME BulkWrite PROVE Grows \/ (Drop(Trash) /\ users' = users)
  BY <1>2, <1>3, <1>8 DEF BulkWrite, BatchCreate, BatchUpdate, FilterUpdate, BatchDelete, FilterDelete,
                          BatchRestore, PurgeAll, RenameCategory
<1>9. ASSUME Crash \/ BackfillRow \/ BackfillDone PROVE Grows
  BY <1>2, <1>9 DEF Crash, BackfillRow, BackfillDone
<1>10. CASE UNCHANGED vars
  BY <1>10 DEF vars
<1>11. QED
  BY <1>1, <1>4, <1>5, <1>6, <1>7, <1>8, <1>9, <1>10 DEF Next, Proceed

\* Every step treats the table as the submission log requires.
LEMMA StepsOnTable ==
  ASSUME IInv, OwnersExist, [Next]_vars
  PROVE  TableStep
<1> DEFINE Removal ==
             /\ users' \subseteq users
             /\ DOMAIN rows' \subseteq DOMAIN rows \/ DOMAIN rows \subseteq DOMAIN rows'
             /\ \A i \in DOMAIN rows \ DOMAIN rows' : rows[i].trashed \/ rows[i].owner \in users \ users'
           Identity ==
             /\ \A i \in DOMAIN rows \cap DOMAIN rows' :
                  rows'[i].owner = rows[i].owner /\ rows'[i].key = rows[i].key
             /\ \A i \in DOMAIN rows' \ DOMAIN rows : ~rows'[i].trashed /\ rows'[i].owner \in users
<1>1. Removal
  <2>1. CASE DOMAIN rows \subseteq DOMAIN rows' /\ users' = users
    BY <2>1
  <2>2. ASSUME NEW S \in SUBSET Trash, Drop(S), users' = users
        PROVE  Removal
    <3>1. DOMAIN rows' = DOMAIN rows \ S
      BY <2>2, DropRows DEF IInv
    <3>2. QED
      BY <2>2, <3>1 DEF Trash
  <2>3. ASSUME NEW v \in Users, Drop({i \in DOMAIN rows : rows[i].owner = v}), users' = users \ {v}
        PROVE  Removal
    <3>1. DOMAIN rows' = DOMAIN rows \ {i \in DOMAIN rows : rows[i].owner = v}
      BY <2>3, DropRows DEF IInv
    <3>2. QED
      BY <2>3, <3>1 DEF OwnersExist
  <2>4. \A i : {i} \cap Trash \in SUBSET Trash
    OBVIOUS
  <2>5. QED
    BY <2>1, <2>2, <2>3, <2>4, Destroyers DEF IInv
<1>2. Identity
  <2>1. CASE Tame
    BY <2>1 DEF Tame, SameIdentity
  <2>2. ASSUME NEW s \in Slots, LookupKey(s) PROVE Identity
    BY <2>2 DEF LookupKey
  <2>3. ASSUME NEW s \in Slots, InsertRow(s) PROVE Identity
    <3>1. \A i \in DOMAIN rows : i # nextId
      BY <2>3, MaxRowsAssumption DEF IInv, TypeOK, InsertRow, RowIds
    <3>2. QED
      BY <2>3, <3>1 DEF InsertRow, Put, NewRow
  <2>4. ASSUME NEW u \in Users, NEW items \in Items, BatchCreate(u, items) PROVE Identity
    <3> DEFINE ids == nextId .. (nextId + Len(items) - 1)
    <3>1. \A i \in ids : i \notin DOMAIN rows
      BY MaxRowsAssumption, ItemsTyped DEF IInv, TypeOK, RowIds
    <3>2. QED
      BY <2>4, <3>1 DEF BatchCreate, Put, NewRow
  <2>5. QED
    BY <2>1, <2>2, <2>3, <2>4, StepKinds
<1>3. QED
  BY <1>1, <1>2 DEF TableStep

\* No row outlives its owner's account, and none is inserted without one.
LEMMA OwnersKept ==
  ASSUME IInv, OwnersExist, [Next]_vars
  PROVE  OwnersExist'
<1>1. TableStep
  BY StepsOnTable
<1>2. CASE users' = users
  BY <1>1, <1>2 DEF TableStep, OwnersExist
<1>3. ASSUME NEW v \in Users, Drop({i \in DOMAIN rows : rows[i].owner = v}), users' = users \ {v}
      PROVE  OwnersExist'
  <2>1. /\ DOMAIN rows' = DOMAIN rows \ {i \in DOMAIN rows : rows[i].owner = v}
        /\ \A i \in DOMAIN rows' : rows'[i] = rows[i]
    BY <1>3, DropRows DEF IInv
  <2>2. QED
    BY <1>3, <2>1 DEF OwnersExist
<1>4. QED
  BY <1>2, <1>3, Destroyers DEF IInv

\* Every step gives 201 only for a row that the table holds then.
LEMMA StepsOnAnswers ==
  ASSUME IInv, [Next]_vars
  PROVE  AnswerStep
<1>1. CASE Tame
  BY <1>1 DEF Tame, AnswerStep
<1>2. ASSUME NEW s \in Slots, InsertRow(s) PROVE AnswerStep
  <2> DEFINE r == req[s]
             row == NewRow(r.user, r.key, r.text, r.cat, r.hash)
  <2>1. row.owner = r.user /\ row.key = r.key
    BY DEF NewRow
  <2>2. nextId \in DOMAIN rows' /\ rows'[nextId] = row
    BY <1>2 DEF InsertRow, Put
  <2>3. answers' = IF r.key = NoKey THEN answers
                   ELSE answers \cup {[user |-> r.user, key |-> r.key, id |-> nextId]}
    BY <1>2 DEF InsertRow, Answer
  <2> HIDE DEF row
  <2>4. ASSUME NEW a \in answers' \ answers PROVE nextId \in KeyHolders(a.user, a.key)'
    <3>1. a.user = r.user /\ a.key = r.key /\ a.key # NoKey
      BY <2>3, <2>4
    <3>2. QED
      BY <2>1, <2>2, <3>1 DEF KeyHolders
  <2>5. QED
    BY <2>3, <2>4 DEF AnswerStep
<1>3. ASSUME NEW s \in Slots, LookupKey(s) PROVE AnswerStep
  <2> DEFINE r == req[s]
  <2>1. rows' = rows
    BY <1>3 DEF LookupKey
  <2>2. CASE answers' = answers
    BY <2>2 DEF AnswerStep
  <2>3. ASSUME NEW i \in KeyHolders(r.user, r.key), Answer(r.user, r.key, i)
        PROVE  AnswerStep
    <3>1. answers \subseteq answers'
          /\ \A a \in answers' \ answers : a.user = r.user /\ a.key = r.key
      BY <2>3 DEF Answer
    <3>2. \A a \in answers' \ answers : i \in KeyHolders(a.user, a.key)'
      BY <2>1, <2>3, <3>1 DEF KeyHolders
    <3>3. QED
      BY <3>1, <3>2 DEF AnswerStep
  <2>4. QED
    BY <1>3, <2>2, <2>3 DEF LookupKey
<1>4. ASSUME NEW u \in Users, NEW items \in Items, BatchCreate(u, items) PROVE AnswerStep
  BY <1>4 DEF BatchCreate, AnswerStep
<1>5. QED
  BY <1>1, <1>2, <1>3, <1>4, StepKinds

(***************************************************************************)
(* The abstract state of one submission, as the table holds it.            *)
(***************************************************************************)
\* A submission is absent, or recorded by one row whose place tells its entry.
EntryShape ==
  \A u \in Users, k \in Keys :
    \/ KeyHolders(u, k) = {} /\ Entry(u, k) = "absent"
    \/ \E i \in DOMAIN rows :
         /\ KeyHolders(u, k) = {i}
         /\ Entry(u, k) = IF rows[i].trashed THEN "trashed" ELSE "live"

\* Under the key index a submission is at most one row, so it is never "doubled".
LEMMA EntryForms == KeyUnique => EntryShape
<1> SUFFICES ASSUME KeyUnique, NEW u \in Users, NEW k \in Keys, KeyHolders(u, k) # {}
             PROVE  \E i \in DOMAIN rows :
                      /\ KeyHolders(u, k) = {i}
                      /\ Entry(u, k) = IF rows[i].trashed THEN "trashed" ELSE "live"
  BY DEF EntryShape, Entry
<1> PICK i \in KeyHolders(u, k) : TRUE
  OBVIOUS
<1>1. i \in DOMAIN rows /\ KeyHolders(u, k) = {i}
  BY DEF KeyHolders, KeyUnique
<1>2. Cardinality({i}) = 1
  BY FS_Singleton
<1>3. ~(Cardinality(KeyHolders(u, k)) > 1)
  BY <1>1, <1>2
<1>4. Entry(u, k) = IF {i} \subseteq Live THEN "live" ELSE "trashed"
  BY <1>1, <1>3 DEF Entry
<1>5. QED
  BY <1>1, <1>4 DEF Live

\* One step moves one submission as the log allows, or not at all.
LEMMA EntryMoves ==
  ASSUME KeyUnique, KeyUnique', TableStep, NEW u \in Users, NEW k \in Keys
  PROVE  \/ Entry(u, k)' = Entry(u, k)
         \/ <<Entry(u, k), Entry(u, k)'>> \in Log!Moves
         \/ u \in users \ users' /\ Entry(u, k)' = "absent"
<1> DEFINE held == KeyHolders(u, k)
<1>1. \/ held = {} /\ Entry(u, k) = "absent"
      \/ \E i \in DOMAIN rows :
           held = {i} /\ Entry(u, k) = IF rows[i].trashed THEN "trashed" ELSE "live"
  BY EntryForms DEF EntryShape
<1>2. \/ held' = {} /\ Entry(u, k)' = "absent"
      \/ \E i \in DOMAIN rows' :
           held' = {i} /\ Entry(u, k)' = IF rows'[i].trashed THEN "trashed" ELSE "live"
  <2>1. (KeyUnique => EntryShape)'
    BY EntryForms, PTL
  <2>2. QED
    BY <2>1 DEF EntryShape
<1>3. \A i \in DOMAIN rows \cap DOMAIN rows' : i \in held <=> i \in held'
  BY DEF TableStep, KeyHolders
<1>4. \A i \in held : i \in DOMAIN rows /\ rows[i].owner = u
  BY DEF KeyHolders
<1>5. \A i \in held' : i \in DOMAIN rows'
  BY DEF KeyHolders
<1> HIDE DEF held
<1>6. CASE held = {} /\ Entry(u, k) = "absent"
  <2>1. CASE held' = {} /\ Entry(u, k)' = "absent"
    BY <1>6, <2>1
  <2>2. ASSUME NEW i \in DOMAIN rows', held' = {i},
               Entry(u, k)' = IF rows'[i].trashed THEN "trashed" ELSE "live"
        PROVE  <<Entry(u, k), Entry(u, k)'>> \in Log!Moves
    <3>1. i \notin DOMAIN rows
      BY <1>3, <1>6, <2>2
    <3>2. Entry(u, k)' = "live"
      BY <2>2, <3>1 DEF TableStep
    <3>3. QED
      BY <1>6, <3>2 DEF Log!Moves
  <2>3. QED
    BY <1>2, <2>1, <2>2
<1>7. ASSUME NEW i \in DOMAIN rows, held = {i},
             Entry(u, k) = IF rows[i].trashed THEN "trashed" ELSE "live"
      PROVE  \/ Entry(u, k)' = Entry(u, k)
             \/ <<Entry(u, k), Entry(u, k)'>> \in Log!Moves
             \/ u \in users \ users' /\ Entry(u, k)' = "absent"
  <2>1. CASE i \in DOMAIN rows'
    <3>1. Entry(u, k)' = IF rows'[i].trashed THEN "trashed" ELSE "live"
      BY <1>2, <1>3, <1>7, <2>1
    <3>2. QED
      BY <1>7, <3>1 DEF Log!Moves
  <2>2. CASE i \notin DOMAIN rows'
    <3>1. DOMAIN rows' \subseteq DOMAIN rows
      BY <2>2 DEF TableStep
    <3>2. held' = {}
      BY <1>3, <1>5, <1>7, <2>2, <3>1
    <3>3. Entry(u, k)' = "absent"
      BY <1>2, <3>2
    <3>4. rows[i].trashed \/ u \in users \ users'
      BY <1>4, <1>7, <2>2 DEF TableStep
    <3>5. QED
      BY <1>7, <3>3, <3>4 DEF Log!Moves
  <2>3. QED
    BY <2>1, <2>2
<1>8. QED
  BY <1>1, <1>6, <1>7

(***************************************************************************)
(* The refinement.                                                         *)
(***************************************************************************)
RInv == IInv /\ OwnersExist

\* The invariant with which steps are mapped holds of every reachable ledger.
LEMMA RefinementInvariance == Spec => []RInv
<1>1. Init => RInv
  BY InitInv DEF RInv, OwnersExist, Init
<1>2. RInv /\ [Next]_vars => RInv'
  BY NextInv, OwnersKept DEF RInv
<1>3. QED
  BY <1>1, <1>2, PTL DEF Spec

\* An empty ledger maps to the empty log.
LEMMA LogInit == Init => Log!Init
<1> SUFFICES ASSUME Init PROVE Log!Init
  OBVIOUS
<1>1. \A u \in Users, k \in Keys : Entry(u, k) = "absent"
  BY DEF Init, Entry, KeyHolders
<1>2. [s \in Users \X Keys |-> Entry(s[1], s[2])] = [s \in Users \X Keys |-> "absent"]
  BY <1>1
<1>3. {<<a.user, a.key>> : a \in answers} = {} /\ users = Users
  BY DEF Init
<1>4. QED
  BY <1>2, <1>3 DEF Log!Init, Log!Subs

\* Every step keeps the log's promises on every submission at once.
LEMMA LogStep ==
  ASSUME RInv, RInv', [Next]_vars
  PROVE  Log!Next
<1> DEFINE entry == [s \in Users \X Keys |-> Entry(s[1], s[2])]
           answered == {<<a.user, a.key>> : a \in answers}
<1>1. TableStep /\ AnswerStep
  BY StepsOnTable, StepsOnAnswers DEF RInv
<1>2. KeyUnique /\ KeyUnique'
  BY DEF RInv, IInv
<1>3. EntryShape'
  <2>1. (KeyUnique => EntryShape)'
    BY EntryForms, PTL
  <2>2. QED
    BY <1>2, <2>1
<1>4. \A u \in Users, k \in Keys :
        /\ Entry(u, k)' \in {"absent", "live", "trashed"}
        /\ KeyHolders(u, k)' # {} => Entry(u, k)' # "absent"
  BY <1>3 DEF EntryShape
<1>5. \A s \in Users \X Keys : entry[s] = Entry(s[1], s[2]) /\ entry'[s] = Entry(s[1], s[2])'
  OBVIOUS
<1>6. users' \subseteq users
  BY <1>1 DEF TableStep
<1>7. entry' \in [Users \X Keys -> {"absent", "live", "trashed"}]
  BY <1>4
<1>8. ASSUME NEW s \in Users \X Keys
      PROVE  \/ entry'[s] = entry[s]
             \/ <<entry[s], entry'[s]>> \in Log!Moves
             \/ s[1] \in users \ users' /\ entry'[s] = "absent"
  <2>1. s[1] \in Users /\ s[2] \in Keys
    BY <1>8
  <2>2. \/ Entry(s[1], s[2])' = Entry(s[1], s[2])
        \/ <<Entry(s[1], s[2]), Entry(s[1], s[2])'>> \in Log!Moves
        \/ s[1] \in users \ users' /\ Entry(s[1], s[2])' = "absent"
    BY <1>1, <1>2, <2>1, EntryMoves
  <2> HIDE DEF entry
  <2>3. QED
    BY <1>5, <1>8, <2>2
<1>9. answered \subseteq answered' /\ answered' \subseteq Users \X Keys
  <2>1. answers \subseteq answers'
    BY <1>1 DEF AnswerStep
  <2>2. \A a \in answers' : a.user \in Users /\ a.key \in Keys
    BY DEF RInv, IInv, TypeOK
  <2>3. QED
    BY <2>1, <2>2
<1>10. \A s \in answered' \ answered : entry'[s] # "absent"
  <2> SUFFICES ASSUME NEW a \in answers', <<a.user, a.key>> \notin answered
               PROVE  entry'[<<a.user, a.key>>] # "absent"
    OBVIOUS
  <2>1. a \notin answers
    OBVIOUS
  <2>2. a.user \in Users /\ a.key \in Keys
    BY DEF RInv, IInv, TypeOK
  <2>3. KeyHolders(a.user, a.key)' # {}
    BY <1>1, <2>1 DEF AnswerStep
  <2>4. Entry(a.user, a.key)' # "absent"
    BY <1>4, <2>2, <2>3
  <2>5. QED
    BY <2>2, <2>4
<1>11. QED
  BY <1>6, <1>7, <1>8, <1>9, <1>10 DEF Log!Next, Log!Subs

\* The ledger, with its stale handlers, bulk writes, account deletions, crashes
\* and boots, is an exactly-once submission log.
THEOREM ImplementsLog == Spec => ImplementsSubmissions
<1>1. RInv /\ RInv' /\ [Next]_vars => Log!Next
  BY LogStep
<1>2. QED
  BY <1>1, LogInit, RefinementInvariance, PTL DEF Spec, ImplementsSubmissions, Log!Spec
=============================================================================
