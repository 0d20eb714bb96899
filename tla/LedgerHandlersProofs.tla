------------------------ MODULE LedgerHandlersProofs ------------------------
(***************************************************************************)
(* What a handler of the ledger may still rely on when it makes its second *)
(* database call: proofs, for any household and any number of handlers, of *)
(* the properties that a particular race can break, each under one         *)
(* condition that rules that race out.  The runs LedgerEditRace and        *)
(* LedgerAccountRace show two of the conditions are needed.                *)
(***************************************************************************)
EXTENDS LedgerProofs

(***************************************************************************)
(* The conditions.                                                         *)
(***************************************************************************)
\* one request at a time
OneAtATime == \A s, r \in Slots : s = r

\* no category is renamed under a create that has computed its digest
NoRenameRace == OneAtATime \/ ~({"create", "rename"} \subseteq Kinds)

\* no row is deleted under an edit that has checked it
NoEditRace == OneAtATime \/ "edit" \notin Kinds \/ {"delete", "batchDelete"} \cap Kinds = {}

\* no row is created for an account whose deletion has counted its rows
NoAccountRace == OneAtATime \/ "deleteUser" \notin Kinds

\* A handler in flight was asked for, and a server that boots has none.
AskedFor == \A s \in Slots : req[s] # Idle => req[s].op \in Kinds
BootIsQuiet == phase = "booting" => \A s \in Slots : req[s] = Idle
HandlerInv == TypeOK /\ AskedFor /\ BootIsQuiet

\* What a handler is born with: the digest of the category as named now, a row that
\* is live, an account that owns nothing.
Born(q) ==
  /\ q.op \in Kinds
  /\ q.op = "create" => q.hash = Digest(q.text, q.cat)
  /\ q.op = "edit" => q.id \in Live
  /\ q.op = "deleteUser" => \A i \in DOMAIN rows : rows[i].owner # q.target

\* A bulk writer runs in a slot of its own: one at a time, it meets no handler in flight.
LEMMA BulkAlone ==
  ASSUME OneAtATime, NEW kind, SomeSlot(kind), NEW s \in Slots
  PROVE  req[s] = Idle
BY DEF OneAtATime, SomeSlot, CanStart

\* Only a serving server starts a bulk writer, and no bulk writer touches the slots.
LEMMA BulkSlots ==
  ASSUME BulkWrite
  PROVE  phase = "serving" /\ UNCHANGED <<phase, req, cursor, users>>
<1>1. phase = "serving"
  BY DEF BulkWrite, SomeSlot, CanStart
<1>2. UNCHANGED <<phase, req, cursor, users>>
  BY DEF BulkWrite, BatchCreate, BatchUpdate, FilterUpdate, BatchDelete, FilterDelete,
         BatchRestore, PurgeAll, RenameCategory
<1>3. QED
  BY <1>1, <1>2

\* A request that arrives fills a free slot of a serving server and writes nothing.
LEMMA ArriveSlots ==
  ASSUME NEW s \in Slots, Arrive(s)
  PROVE  /\ req[s] = Idle /\ phase = "serving"
         /\ UNCHANGED <<rows, nextId, catName, users, trail, bulkAudit, phase, cursor, answers>>
         /\ \E q : Born(q) /\ req' = [req EXCEPT ![s] = q]
<1> PICK u \in Users :
      \/ \E k \in Keys \cup {NoKey}, t \in Texts, c \in Cats : StartCreate(s, u, k, t, c)
      \/ \E i \in RowIds, t \in Texts, c \in Cats : StartEdit(s, u, i, t, c)
      \/ \E i \in RowIds : StartDelete(s, u, i) \/ StartRestore(s, u, i) \/ StartPurge(s, u, i)
      \/ StartRestoreAll(s, u)
      \/ \E v \in Users : StartDeleteUser(s, u, v)
  BY DEF Arrive
<1>1. ASSUME NEW k \in Keys \cup {NoKey}, NEW t \in Texts, NEW c \in Cats,
             StartCreate(s, u, k, t, c)
      PROVE  \E q : Born(q) /\ req' = [req EXCEPT ![s] = q]
  BY <1>1 DEF StartCreate, CanStart, Begin, Born
<1>2. ASSUME NEW i \in RowIds, NEW t \in Texts, NEW c \in Cats, StartEdit(s, u, i, t, c)
      PROVE  \E q : Born(q) /\ req' = [req EXCEPT ![s] = q]
  BY <1>2 DEF StartEdit, CanStart, Begin, Born
<1>3. ASSUME NEW i \in RowIds, StartDelete(s, u, i) \/ StartRestore(s, u, i) \/ StartPurge(s, u, i)
      PROVE  \E q : Born(q) /\ req' = [req EXCEPT ![s] = q]
  BY <1>3 DEF StartDelete, StartRestore, StartPurge, CanStart, Begin, Born
<1>4. CASE StartRestoreAll(s, u)
  BY <1>4 DEF StartRestoreAll, CanStart, Begin, Born
<1>5. ASSUME NEW v \in Users, StartDeleteUser(s, u, v)
      PROVE  \E q : Born(q) /\ req' = [req EXCEPT ![s] = q]
  BY <1>5 DEF StartDeleteUser, CanStart, Begin, Born
<1>6. \E q : Born(q) /\ req' = [req EXCEPT ![s] = q]
  BY <1>1, <1>2, <1>3, <1>4, <1>5
<1>7. /\ req[s] = Idle /\ phase = "serving"
      /\ UNCHANGED <<rows, nextId, catName, users, trail, bulkAudit, phase, cursor, answers>>
  BY DEF StartCreate, StartEdit, StartDelete, StartRestore, StartPurge, StartRestoreAll,
         StartDeleteUser, CanStart
<1>8. QED
  BY <1>6, <1>7

\* What a create in flight becomes before its insert: it may lose its digest, and
\* keeps the content it was sent.
MovesOn(q, r) ==
  /\ q.op = "create" /\ r.op = "create"
  /\ r.text = q.text /\ r.cat = q.cat /\ r.hash \in {q.hash, NoHash}

\* A handler that proceeds is a create that moves on, writing nothing, or is done.
LEMMA ProceedSlots ==
  ASSUME TypeOK, NEW s \in Slots, Proceed(s)
  PROVE  /\ req[s] # Idle
         /\ UNCHANGED <<catName, phase, cursor, bulkAudit>>
         /\ \/ Finish(s)
            \/ /\ UNCHANGED <<rows, trail>>
               /\ \E r : MovesOn(req[s], r) /\ req' = [req EXCEPT ![s] = r]
<1>1. req[s].op # "idle" => req[s] # Idle
  BY DEF Idle
<1>2. CASE ProbeHash(s)
  <2> DEFINE r == [req[s] EXCEPT !.at = "insert",
                                 !.hash = IF LiveHolder(req[s].hash) THEN NoHash ELSE req[s].hash]
  <2>1. req[s] \in CreateReq
    BY <1>2, RequestKinds DEF ProbeHash
  <2>2. MovesOn(req[s], r)
    BY <2>1 DEF MovesOn, CreateReq
  <2>3. req' = [req EXCEPT ![s] = r]
    BY <1>2 DEF ProbeHash, TypeOK
  <2>4. UNCHANGED <<rows, trail, catName, phase, cursor, bulkAudit>> /\ req[s].op = "create"
    BY <1>2 DEF ProbeHash
  <2> HIDE DEF r
  <2>5. QED
    BY <1>1, <2>2, <2>3, <2>4
<1>3. CASE InsertHashConflict(s)
  <2> DEFINE r == [req[s] EXCEPT !.hash = NoHash]
  <2>1. req[s] \in CreateReq
    BY <1>3, RequestKinds DEF InsertHashConflict
  <2>2. MovesOn(req[s], r)
    BY <2>1 DEF MovesOn, CreateReq
  <2>3. req' = [req EXCEPT ![s] = r]
    BY <1>3 DEF InsertHashConflict, TypeOK
  <2>4. UNCHANGED <<rows, trail, catName, phase, cursor, bulkAudit>> /\ req[s].op = "create"
    BY <1>3 DEF InsertHashConflict
  <2> HIDE DEF r
  <2>5. QED
    BY <1>1, <2>2, <2>3, <2>4
<1>4. CASE InsertKeyConflict(s)
  <2> DEFINE r == [req[s] EXCEPT !.at = "lookup"]
  <2>1. req[s] \in CreateReq
    BY <1>4, RequestKinds DEF InsertKeyConflict
  <2>2. MovesOn(req[s], r)
    BY <2>1 DEF MovesOn, CreateReq
  <2>3. req' = [req EXCEPT ![s] = r]
    BY <1>4 DEF InsertKeyConflict, TypeOK
  <2>4. UNCHANGED <<rows, trail, catName, phase, cursor, bulkAudit>> /\ req[s].op = "create"
    BY <1>4 DEF InsertKeyConflict
  <2> HIDE DEF r
  <2>5. QED
    BY <1>1, <2>2, <2>3, <2>4
<1>5. CASE InsertRow(s) \/ InsertOrphan(s) \/ LookupKey(s)
  BY <1>1, <1>5 DEF InsertRow, InsertOrphan, LookupKey
<1>6. CASE \/ CommitEdit(s) \/ CommitDelete(s) \/ CommitRestore(s) \/ CommitRestoreAll(s)
           \/ CommitPurge(s) \/ CommitDeleteUser(s)
  BY <1>1, <1>6 DEF CommitEdit, CommitDelete, CommitRestore, CommitRestoreAll, CommitPurge,
                    CommitDeleteUser
<1>7. QED
  BY <1>2, <1>3, <1>4, <1>5, <1>6 DEF Proceed

\* A handler in flight was asked for, through arrivals, steps, and crashes.
LEMMA HandlersKept == HandlerInv /\ [Next]_vars => HandlerInv'
<1> SUFFICES ASSUME HandlerInv, [Next]_vars PROVE AskedFor' /\ BootIsQuiet'
  BY NextTyped DEF HandlerInv
<1> USE DEF HandlerInv
<1>1. req \in [Slots -> Requests]
  BY DEF TypeOK
<1>2. ASSUME NEW s \in Slots, Arrive(s) PROVE AskedFor' /\ BootIsQuiet'
  <2> PICK q : Born(q) /\ req' = [req EXCEPT ![s] = q]
    BY <1>2, ArriveSlots
  <2>1. phase' = "serving" /\ q.op \in Kinds
    BY <1>2, ArriveSlots DEF Born
  <2>2. QED
    BY <1>1, <2>1 DEF AskedFor, BootIsQuiet
<1>3. ASSUME NEW s \in Slots, Proceed(s) PROVE AskedFor' /\ BootIsQuiet'
  <2>1. req[s] # Idle /\ phase' = phase
    BY <1>3, ProceedSlots
  <2>2. CASE Finish(s)
    BY <1>1, <2>1, <2>2 DEF AskedFor, BootIsQuiet, Finish
  <2>3. ASSUME NEW r, MovesOn(req[s], r), req' = [req EXCEPT ![s] = r]
        PROVE  AskedFor' /\ BootIsQuiet'
    BY <1>1, <2>1, <2>3 DEF AskedFor, BootIsQuiet, MovesOn
  <2>4. QED
    BY <1>3, <2>2, <2>3, ProceedSlots
<1>4. CASE BulkWrite
  BY <1>4, BulkSlots DEF AskedFor, BootIsQuiet
<1>5. CASE Crash
  BY <1>5 DEF Crash, AskedFor, BootIsQuiet
<1>6. CASE BackfillRow \/ BackfillDone
  BY <1>6 DEF BackfillRow, BackfillDone, AskedFor, BootIsQuiet
<1>7. CASE UNCHANGED vars
  BY <1>7 DEF vars, AskedFor, BootIsQuiet
<1>8. QED
  BY <1>2, <1>3, <1>4, <1>5, <1>6, <1>7 DEF Next

LEMMA HandlersInit == Init => HandlerInv
BY InitTyped DEF Init, HandlerInv, AskedFor, BootIsQuiet

(***************************************************************************)
(* The audit table tells whether a row is live.  No condition is needed:   *)
(* the entry is written in the transaction that writes the row.            *)
(***************************************************************************)
\* A row stays where it is with its last lifecycle entry, or moves with a new one.
AuditedMove(i) ==
  \/ i \in DOMAIN rows /\ rows'[i].trashed = rows[i].trashed /\ trail'[i].last = trail[i].last
  \/ ~rows'[i].trashed /\ trail'[i].last \in {"insert", "restore"}
  \/ rows'[i].trashed /\ (trail'[i].last = "delete" \/ bulkAudit')

LEMMA AuditedMovesKeep ==
  ASSUME AuditTellsState, bulkAudit => bulkAudit', \A i \in DOMAIN rows' : AuditedMove(i)
  PROVE  AuditTellsState'
BY DEF AuditTellsState, AuditedMove

\* What an audit entry leaves under the ids it covers.
LEMMA AuditEffect ==
  ASSUME TypeOK, NEW S, NEW a \in {"insert", "update", "delete", "restore"}, Audit(S, a)
  PROVE  \A i \in RowIds :
           /\ i \notin S => trail'[i] = trail[i]
           /\ i \in S /\ a = "update" => trail'[i].last = trail[i].last /\ trail'[i].edited
           /\ i \in S /\ a # "update" => trail'[i].last = a /\ ~trail'[i].edited
BY DEF Audit, TypeOK, Trails

\* Rows edited in place stay where they are.
LEMMA EditsAudited ==
  ASSUME TypeOK, NEW S \in SUBSET DOMAIN rows, NEW new \in [S -> Row], Put(new),
         \A i \in S : new[i].trashed = rows[i].trashed,
         trail' = trail \/ Audit(S, "update")
  PROVE  \A i \in DOMAIN rows' : AuditedMove(i)
<1>1. S \in SUBSET RowIds
  BY DEF TypeOK
<1>2. /\ DOMAIN rows' = DOMAIN rows
      /\ \A i \in DOMAIN rows' : rows'[i] = IF i \in S THEN new[i] ELSE rows[i]
  BY <1>1, PutRows
<1>3. \A i \in DOMAIN rows : trail'[i].last = trail[i].last
  BY AuditEffect DEF TypeOK
<1>4. QED
  BY <1>2, <1>3 DEF AuditedMove

\* Rows that move between the table and the trash get the entry of the move.
LEMMA MovesAudited ==
  ASSUME TypeOK, NEW S \in SUBSET DOMAIN rows, NEW b \in BOOLEAN, SetTrashed(S, b),
         \/ b /\ Audit(S, "delete")
         \/ b /\ trail' = trail /\ bulkAudit'
         \/ ~b /\ Audit(S, "restore")
  PROVE  \A i \in DOMAIN rows' : AuditedMove(i)
<1>1. /\ DOMAIN rows' = DOMAIN rows
      /\ \A i \in DOMAIN rows : rows'[i].trashed = IF i \in S THEN b ELSE rows[i].trashed
  BY TrashIsTame
<1>2. DOMAIN rows \subseteq RowIds
  BY DEF TypeOK
<1>3. CASE b /\ Audit(S, "delete")
  BY <1>1, <1>2, <1>3, AuditEffect DEF AuditedMove
<1>4. CASE b /\ trail' = trail /\ bulkAudit'
  BY <1>1, <1>4 DEF AuditedMove
<1>5. CASE ~b /\ Audit(S, "restore")
  BY <1>1, <1>2, <1>5, AuditEffect DEF AuditedMove
<1>6. QED
  BY <1>3, <1>4, <1>5

\* A row inserted gets its first entry, and the others keep theirs.
LEMMA InsertsAudited ==
  ASSUME TypeOK, NEW S \in SUBSET RowIds, NEW new, DOMAIN new = S, Put(new),
         \A i \in S : ~new[i].trashed, Audit(S, "insert")
  PROVE  \A i \in DOMAIN rows' : AuditedMove(i)
<1>1. /\ DOMAIN rows' = DOMAIN rows \cup S
      /\ \A i \in DOMAIN rows' : rows'[i] = IF i \in S THEN new[i] ELSE rows[i]
  BY DEF Put
<1>2. DOMAIN rows' \subseteq RowIds
  BY <1>1 DEF TypeOK
<1>3. QED
  BY <1>1, <1>2, AuditEffect DEF AuditedMove

\* Destroying rows moves no other.
LEMMA DropsAudited ==
  ASSUME TypeOK, NEW S, Drop(S), trail' = trail
  PROVE  \A i \in DOMAIN rows' : AuditedMove(i)
BY DropRows DEF AuditedMove

\* A handler's step audits what it moves.
LEMMA ProceedAudited ==
  ASSUME TypeOK, NEW s \in Slots, Proceed(s)
  PROVE  \A i \in DOMAIN rows' : AuditedMove(i)
<1>1. CASE UNCHANGED <<rows, trail>>
  BY <1>1 DEF AuditedMove
<1>2. CASE InsertRow(s)
  <2> DEFINE new == [i \in {nextId} |-> NewRow(req[s].user, req[s].key, req[s].text, req[s].cat, req[s].hash)]
  <2>1. {nextId} \in SUBSET RowIds /\ Put(new) /\ Audit({nextId}, "insert")
    BY <1>2 DEF InsertRow
  <2>2. DOMAIN new = {nextId} /\ \A i \in {nextId} : ~new[i].trashed
    BY DEF NewRow
  <2> HIDE DEF new
  <2>3. QED
    BY <2>1, <2>2, InsertsAudited
<1>3. CASE CommitEdit(s) /\ req[s].id \in DOMAIN rows
  <2> DEFINE new == [i \in {req[s].id} |-> Edited(rows[i], req[s].text, req[s].cat)]
  <2>1. req[s].text \in Texts /\ req[s].cat \in Cats
    BY <1>3, RequestKinds DEF CommitEdit, EditReq
  <2>2. rows[req[s].id] \in Row
    BY <1>3 DEF TypeOK
  <2>3. new \in [{req[s].id} -> Row] /\ \A i \in {req[s].id} : new[i].trashed = rows[i].trashed
    BY <2>1, <2>2, EditedRow
  <2>4. Put(new) /\ Audit({req[s].id}, "update")
    BY <1>3 DEF CommitEdit
  <2> HIDE DEF new
  <2>5. QED
    BY <1>3, <2>3, <2>4, EditsAudited
<1>4. CASE CommitDelete(s) /\ ~UNCHANGED <<rows, trail>>
  <2>1. /\ {req[s].id} \in SUBSET DOMAIN rows
        /\ SetTrashed({req[s].id}, TRUE) /\ Audit({req[s].id}, "delete")
    BY <1>4 DEF CommitDelete, Live
  <2>2. QED
    BY <2>1, MovesAudited
<1>5. CASE CommitRestore(s) /\ ~UNCHANGED <<rows, trail>>
  <2>1. /\ {req[s].id} \in SUBSET DOMAIN rows
        /\ SetTrashed({req[s].id}, FALSE) /\ Audit({req[s].id}, "restore")
    BY <1>5 DEF CommitRestore, Trash
  <2>2. QED
    BY <2>1, MovesAudited
<1>6. CASE CommitRestoreAll(s)
  <2> PICK back \in SUBSET DOMAIN rows : SetTrashed(back, FALSE) /\ Audit(back, "restore")
    BY <1>6 DEF CommitRestoreAll, Trash
  <2>1. QED
    BY MovesAudited
<1>7. CASE CommitPurge(s) \/ CommitDeleteUser(s)
  <2>1. trail' = trail /\ \E S : Drop(S)
    BY <1>7 DEF CommitPurge, CommitDeleteUser
  <2>2. QED
    BY <2>1, DropsAudited
<1>8. CASE CommitEdit(s) /\ req[s].id \notin DOMAIN rows
  BY <1>1, <1>8 DEF CommitEdit
<1>9. CASE \/ ProbeHash(s) \/ InsertHashConflict(s) \/ InsertKeyConflict(s)
           \/ InsertOrphan(s) \/ LookupKey(s)
  BY <1>1, <1>9 DEF ProbeHash, InsertHashConflict, InsertKeyConflict, InsertOrphan, LookupKey
<1>10. QED
  BY <1>1, <1>2, <1>3, <1>4, <1>5, <1>6, <1>7, <1>8, <1>9 DEF Proceed

\* A bulk writer audits what it moves, row by row or under id 0.
LEMMA BulkAudited ==
  ASSUME TypeOK, BulkWrite
  PROVE  (bulkAudit => bulkAudit') /\ \A i \in DOMAIN rows' : AuditedMove(i)
<1>1. ASSUME NEW u \in Users, NEW items \in Items, BatchCreate(u, items)
      PROVE  bulkAudit' = bulkAudit /\ \A i \in DOMAIN rows' : AuditedMove(i)
  <2> DEFINE ids == nextId .. (nextId + Len(items) - 1)
             new == [i \in ids |-> LET m == i - nextId + 1
                                   IN NewRow(u, NoKey, items[m].text, items[m].cat, BatchHash(items, m))]
  <2>1. ids \in SUBSET RowIds
    BY <1>1, ItemsTyped, BatchIds DEF BatchCreate
  <2>2. Put(new) /\ Audit(ids, "insert") /\ bulkAudit' = bulkAudit
    BY <1>1 DEF BatchCreate
  <2>3. DOMAIN new = ids /\ \A i \in ids : ~new[i].trashed
    BY DEF NewRow
  <2> HIDE DEF ids, new
  <2>4. QED
    BY <2>1, <2>2, <2>3, InsertsAudited
<1>2. ASSUME NEW u \in Users, NEW ids \in SUBSET RowIds, NEW p \in Patches,
             BatchUpdate(u, ids, p) \/ FilterUpdate(u, ids, p)
      PROVE  bulkAudit' = bulkAudit /\ \A i \in DOMAIN rows' : AuditedMove(i)
  <2> DEFINE hit == {i \in ids \cap Live : MayTouch(u, i)}
             new == [i \in hit |-> Patched(rows[i], p)]
  <2>1. hit \in SUBSET DOMAIN rows /\ \A i \in hit : rows[i] \in Row
    BY DEF Live, TypeOK
  <2>2. Put(new) /\ (trail' = trail \/ Audit(hit, "update")) /\ bulkAudit' = bulkAudit
    BY <1>2 DEF BatchUpdate, FilterUpdate
  <2>3. new \in [hit -> Row] /\ \A i \in hit : new[i].trashed = rows[i].trashed
    BY <2>1, PatchedRow
  <2> HIDE DEF hit, new
  <2>4. QED
    BY <2>1, <2>2, <2>3, EditsAudited
<1>3. ASSUME NEW u \in Users, NEW ids \in SUBSET RowIds,
             BatchDelete(u, ids) \/ FilterDelete(u, ids)
      PROVE  (bulkAudit => bulkAudit') /\ \A i \in DOMAIN rows' : AuditedMove(i)
  <2> DEFINE hit == {i \in ids \cap Live : MayTouch(u, i)}
  <2>1. hit \in SUBSET DOMAIN rows
    BY DEF Live
  <2>2. /\ SetTrashed(hit, TRUE)
        /\ \/ Audit(hit, "delete") /\ bulkAudit' = bulkAudit
           \/ trail' = trail /\ bulkAudit'
    BY <1>3 DEF BatchDelete, FilterDelete
  <2> HIDE DEF hit
  <2>3. CASE Audit(hit, "delete") /\ bulkAudit' = bulkAudit
    BY <2>1, <2>2, <2>3, MovesAudited
  <2>4. CASE trail' = trail /\ bulkAudit'
    BY <2>1, <2>2, <2>4, MovesAudited
  <2>5. QED
    BY <2>2, <2>3, <2>4
<1>4. ASSUME NEW u \in Users, NEW ids \in SUBSET RowIds, BatchRestore(u, ids)
      PROVE  bulkAudit' = bulkAudit /\ \A i \in DOMAIN rows' : AuditedMove(i)
  <2> PICK back \in SUBSET DOMAIN rows : SetTrashed(back, FALSE) /\ Audit(back, "restore")
    BY <1>4 DEF BatchRestore, Trash
  <2>1. QED
    BY <1>4, MovesAudited DEF BatchRestore
<1>5. ASSUME NEW u \in Users, PurgeAll(u)
      PROVE  bulkAudit' = bulkAudit /\ \A i \in DOMAIN rows' : AuditedMove(i)
  BY <1>5, DropsAudited DEF PurgeAll
<1>6. ASSUME NEW u \in Users, NEW c \in Cats, NEW n \in Names, RenameCategory(u, c, n)
      PROVE  bulkAudit' = bulkAudit /\ \A i \in DOMAIN rows' : AuditedMove(i)
  <2> DEFINE S == {j \in DOMAIN rows : rows[j].cat = c}
             new == [i \in S |-> [rows[i] EXCEPT !.hash = NoHash]]
  <2>1. S \in SUBSET DOMAIN rows /\ \A i \in S : rows[i] \in Row
    BY DEF TypeOK
  <2>2. new \in [S -> Row] /\ \A i \in S : new[i].trashed = rows[i].trashed
    BY <2>1 DEF Row
  <2>3. Put(new) /\ UNCHANGED <<trail, bulkAudit>>
    BY <1>6 DEF RenameCategory
  <2> HIDE DEF S, new
  <2>4. QED
    BY <2>1, <2>2, <2>3, EditsAudited
<1>7. QED
  BY <1>1, <1>2, <1>3, <1>4, <1>5, <1>6 DEF BulkWrite

\* The backfill writes digests, and moves nothing.
LEMMA RestartAudited ==
  ASSUME TypeOK, Crash \/ BackfillRow \/ BackfillDone
  PROVE  bulkAudit' = bulkAudit /\ trail' = trail /\ \A i \in DOMAIN rows' : AuditedMove(i)
<1>1. UNCHANGED <<bulkAudit, trail>>
  BY DEF Crash, BackfillRow, BackfillDone
<1>2. CASE UNCHANGED rows
  BY <1>1, <1>2 DEF AuditedMove
<1>3. CASE BackfillRow /\ ~UNCHANGED rows
  <2> DEFINE h(i) == Digest(rows[i].text, rows[i].cat)
             new(i) == [j \in {i} |-> [rows[j] EXCEPT !.hash = h(i)]]
  <2> PICK i \in Unhashed : Put(new(i))
    BY <1>3 DEF BackfillRow
  <2>1. {i} \in SUBSET DOMAIN rows /\ rows[i] \in Row
    BY DEF Unhashed, TypeOK
  <2>2. h(i) \in Digests
    BY <2>1, DigestTyped DEF Row
  <2>3. new(i) \in [{i} -> Row] /\ \A j \in {i} : new(i)[j].trashed = rows[j].trashed
    BY <2>1, <2>2 DEF Row
  <2> HIDE DEF new
  <2>4. QED
    BY <1>1, <2>1, <2>3, EditsAudited
<1>4. QED
  BY <1>2, <1>3 DEF Crash, BackfillDone

\* Every step audits what it moves.
LEMMA NextAudited == TypeOK /\ AuditTellsState /\ [Next]_vars => AuditTellsState'
<1> SUFFICES ASSUME TypeOK, AuditTellsState, [Next]_vars PROVE AuditTellsState'
  OBVIOUS
<1>1. ASSUME NEW s \in Slots, Arrive(s) PROVE AuditTellsState'
  <2>1. UNCHANGED <<rows, trail, bulkAudit>>
    BY <1>1, ArriveSlots
  <2>2. QED
    BY <2>1 DEF AuditTellsState
<1>2. ASSUME NEW s \in Slots, Proceed(s) PROVE AuditTellsState'
  <2>1. bulkAudit' = bulkAudit
    BY <1>2, ProceedSlots
  <2>2. QED
    BY <1>2, <2>1, ProceedAudited, AuditedMovesKeep
<1>3. CASE BulkWrite
  BY <1>3, BulkAudited, AuditedMovesKeep
<1>4. CASE Crash \/ BackfillRow \/ BackfillDone
  BY <1>4, RestartAudited, AuditedMovesKeep
<1>5. CASE UNCHANGED vars
  BY <1>5 DEF vars, AuditTellsState
<1>6. QED
  BY <1>1, <1>2, <1>3, <1>4, <1>5 DEF Next

\* A row that is not in the trash has an insert or a restore as its last lifecycle entry,
\* and one in the trash a delete, unless a filter delete, which leaves one summary, has
\* run: no edit, restore, rename or backfill, racing or cut short by a crash, leaves the
\* audit table telling another story.  Of purged rows it says nothing.
THEOREM AuditIsTrue == Spec => []AuditTellsState
<1>1. Init => AuditTellsState
  BY DEF Init, AuditTellsState
<1>2. QED
  BY <1>1, InitTyped, NextTyped, NextAudited, PTL DEF Spec

(***************************************************************************)
(* A stored digest is the digest of the content beside it, unless a rename *)
(* overtakes a create that has computed its digest under the old name.     *)
(***************************************************************************)
\* The digest a create carries is still the one its content has.
CreateTruthful ==
  \A s \in Slots :
    req[s].op = "create" => req[s].hash \in {NoHash, Digest(req[s].text, req[s].cat)}

HashInv == HandlerInv /\ HashTruthful /\ CreateTruthful

\* A row keeps its content, its category's name and its digest, or is stored without a
\* digest, or with the right one.
TruthKept(i) ==
  \/ /\ i \in DOMAIN rows
     /\ rows'[i].hash = rows[i].hash /\ rows'[i].text = rows[i].text /\ rows'[i].cat = rows[i].cat
     /\ catName'[rows[i].cat] = catName[rows[i].cat]
  \/ rows'[i].hash = NoHash
  \/ rows'[i].hash = Digest(rows[i].text, rows[i].cat)'

LEMMA TruthKeptKeeps ==
  ASSUME HashTruthful, \A i \in DOMAIN rows' : TruthKept(i)
  PROVE  HashTruthful'
BY DEF HashTruthful, TruthKept, Digest

\* An edit that moves an input of the digest drops it; another one keeps both.
LEMMA EditedTruth ==
  ASSUME NEW r \in Row, NEW t \in Texts, NEW c \in Cats
  PROVE  \/ Edited(r, t, c).hash = NoHash
         \/ /\ Edited(r, t, c).hash = r.hash
            /\ Edited(r, t, c).text = r.text /\ Edited(r, t, c).cat = r.cat
BY DEF Edited, Row

LEMMA PatchedTruth ==
  ASSUME NEW r \in Row, NEW p \in Patches
  PROVE  \/ Patched(r, p).hash = NoHash
         \/ /\ Patched(r, p).hash = r.hash
            /\ Patched(r, p).text = r.text /\ Patched(r, p).cat = r.cat
<1>1. r.text \in Texts /\ r.cat \in Cats
  BY DEF Row
<1>2. CASE p \in [text: Texts]
  BY <1>1, <1>2, EditedTruth DEF Patched
<1>3. CASE p \notin [text: Texts]
  <2>1. p.cat \in Cats
    BY <1>3 DEF Patches
  <2>2. QED
    BY <1>1, <1>3, <2>1, EditedTruth DEF Patched
<1>4. QED
  BY <1>2, <1>3

\* Rows rewritten under unchanged category names.
LEMMA RewriteTruth ==
  ASSUME TypeOK, NEW S \in SUBSET RowIds, NEW new \in [S -> Row], Put(new), catName' = catName,
         \A i \in S :
           \/ /\ i \in DOMAIN rows /\ new[i].hash = rows[i].hash
              /\ new[i].text = rows[i].text /\ new[i].cat = rows[i].cat
           \/ new[i].hash \in {NoHash, Digest(new[i].text, new[i].cat)}
  PROVE  \A i \in DOMAIN rows' : TruthKept(i)
<1>1. /\ DOMAIN rows' = DOMAIN rows \cup S
      /\ \A i \in DOMAIN rows' : rows'[i] = IF i \in S THEN new[i] ELSE rows[i]
  BY PutRows
<1>2. ASSUME NEW i \in DOMAIN rows', i \notin S PROVE TruthKept(i)
  BY <1>1, <1>2 DEF TruthKept
<1>3. ASSUME NEW i \in S PROVE TruthKept(i)
  BY <1>1 DEF TruthKept, Digest
<1>4. QED
  BY <1>2, <1>3

\* Rows that only move to the trash or out of it.
LEMMA TrashTruth ==
  ASSUME TypeOK, NEW S \in SUBSET DOMAIN rows, NEW b \in BOOLEAN, SetTrashed(S, b), catName' = catName
  PROVE  \A i \in DOMAIN rows' : TruthKept(i)
<1> DEFINE new == [i \in S |-> [rows[i] EXCEPT !.trashed = b]]
<1>1. S \in SUBSET RowIds /\ \A i \in S : rows[i] \in Row
  BY DEF TypeOK
<1>2. /\ new \in [S -> Row]
      /\ \A i \in S : new[i].hash = rows[i].hash /\ new[i].text = rows[i].text
                      /\ new[i].cat = rows[i].cat
  BY <1>1 DEF Row
<1>3. Put(new)
  BY DEF SetTrashed
<1> HIDE DEF new
<1>4. QED
  BY <1>1, <1>2, <1>3, RewriteTruth

\* Rows destroyed.
LEMMA DropTruth ==
  ASSUME TypeOK, NEW S, Drop(S), catName' = catName
  PROVE  \A i \in DOMAIN rows' : TruthKept(i)
BY DropRows DEF TruthKept

\* A handler's store call keeps every digest truthful: the insert stores the one the
\* create carries.
LEMMA ProceedTruth ==
  ASSUME HashInv, NEW s \in Slots, Proceed(s)
  PROVE  \A i \in DOMAIN rows' : TruthKept(i)
<1>1. TypeOK /\ CreateTruthful
  BY DEF HashInv, HandlerInv
<1>2. catName' = catName
  BY <1>1, ProceedSlots
<1>3. CASE UNCHANGED rows
  BY <1>2, <1>3 DEF TruthKept
<1>4. CASE InsertRow(s)
  <2> DEFINE row == NewRow(req[s].user, req[s].key, req[s].text, req[s].cat, req[s].hash)
             new == [i \in {nextId} |-> row]
  <2>1. req[s].op = "create" /\ {nextId} \in SUBSET RowIds /\ Put(new)
    BY <1>4 DEF InsertRow
  <2>2. row \in Row
    BY <1>1, <2>1, NewRowTyped
  <2>3. row.hash \in {NoHash, Digest(row.text, row.cat)}
    BY <1>1, <2>1 DEF CreateTruthful, NewRow
  <2> HIDE DEF row
  <2>4. new \in [{nextId} -> Row]
        /\ \A i \in {nextId} : new[i].hash \in {NoHash, Digest(new[i].text, new[i].cat)}
    BY <2>2, <2>3
  <2> HIDE DEF new
  <2>5. QED
    BY <1>1, <1>2, <2>1, <2>4, RewriteTruth
<1>5. CASE CommitEdit(s) /\ req[s].id \in DOMAIN rows
  <2> DEFINE new == [i \in {req[s].id} |-> Edited(rows[i], req[s].text, req[s].cat)]
  <2>1. req[s].text \in Texts /\ req[s].cat \in Cats
    BY <1>1, <1>5, RequestKinds DEF CommitEdit, EditReq
  <2>2. rows[req[s].id] \in Row /\ {req[s].id} \in SUBSET RowIds
    BY <1>1, <1>5 DEF TypeOK
  <2>3. new \in [{req[s].id} -> Row]
        /\ \A i \in {req[s].id} :
             \/ new[i].hash = rows[i].hash /\ new[i].text = rows[i].text /\ new[i].cat = rows[i].cat
             \/ new[i].hash = NoHash
    BY <2>1, <2>2, EditedRow, EditedTruth
  <2>4. Put(new)
    BY <1>5 DEF CommitEdit
  <2> HIDE DEF new
  <2>5. QED
    BY <1>1, <1>2, <1>5, <2>2, <2>3, <2>4, RewriteTruth
<1>6. CASE /\ CommitDelete(s) \/ CommitRestore(s) \/ CommitRestoreAll(s)
           /\ ~UNCHANGED rows
  <2>1. \E S \in SUBSET DOMAIN rows, b \in BOOLEAN : SetTrashed(S, b)
    <3>1. CASE CommitDelete(s)
      BY <1>6, <3>1 DEF CommitDelete, Live
    <3>2. CASE CommitRestore(s)
      BY <1>6, <3>2 DEF CommitRestore, Trash
    <3>3. CASE CommitRestoreAll(s)
      BY <1>6, <3>3 DEF CommitRestoreAll, Trash
    <3>4. QED
      BY <1>6, <3>1, <3>2, <3>3
  <2>2. QED
    BY <1>1, <1>2, <2>1, TrashTruth
<1>7. CASE CommitPurge(s) \/ CommitDeleteUser(s)
  <2>1. \E S : Drop(S)
    BY <1>7 DEF CommitPurge, CommitDeleteUser
  <2>2. QED
    BY <1>1, <1>2, <2>1, DropTruth
<1>8. CASE CommitEdit(s) /\ req[s].id \notin DOMAIN rows
  BY <1>3, <1>8 DEF CommitEdit
<1>9. CASE \/ ProbeHash(s) \/ InsertHashConflict(s) \/ InsertKeyConflict(s)
           \/ InsertOrphan(s) \/ LookupKey(s)
  BY <1>3, <1>9 DEF ProbeHash, InsertHashConflict, InsertKeyConflict, InsertOrphan, LookupKey
<1>10. QED
  BY <1>3, <1>4, <1>5, <1>6, <1>7, <1>8, <1>9 DEF Proceed

\* A bulk writer computes digests and stores them in one call; a rename clears those
\* filed under the old name, tombstones included.
LEMMA BulkTruth ==
  ASSUME HashInv, BulkWrite
  PROVE  \A i \in DOMAIN rows' : TruthKept(i)
<1> SUFFICES ASSUME TypeOK PROVE \A i \in DOMAIN rows' : TruthKept(i)
  BY DEF HashInv, HandlerInv
<1>1. ASSUME NEW u \in Users, NEW items \in Items, BatchCreate(u, items)
      PROVE  \A i \in DOMAIN rows' : TruthKept(i)
  <2> DEFINE n == Len(items)
             ids == nextId .. (nextId + n - 1)
             new == [i \in ids |-> LET m == i - nextId + 1
                                   IN NewRow(u, NoKey, items[m].text, items[m].cat, BatchHash(items, m))]
  <2>1. n \in Nat /\ \A m \in 1..n : items[m].text \in Texts /\ items[m].cat \in Cats
    BY ItemsTyped
  <2>2. ids \in SUBSET RowIds
    BY <1>1, <2>1, BatchIds DEF BatchCreate
  <2>3. \A i \in ids : i - nextId + 1 \in 1..n
    BY <2>1 DEF TypeOK
  <2>4. \A m \in 1..n : /\ Digest(items[m].text, items[m].cat) \in Digests
                        /\ BatchHash(items, m) \in {NoHash, Digest(items[m].text, items[m].cat)}
    BY <2>1, DigestTyped DEF BatchHash
  <2>5. \A i \in ids : new[i] \in Row /\ new[i].hash \in {NoHash, Digest(new[i].text, new[i].cat)}
    BY <2>1, <2>3, <2>4 DEF NewRow, Row
  <2>6. Put(new) /\ catName' = catName /\ new \in [ids -> Row]
    BY <1>1, <2>5 DEF BatchCreate
  <2> HIDE DEF ids, new
  <2>7. QED
    BY <2>2, <2>5, <2>6, RewriteTruth
<1>2. ASSUME NEW u \in Users, NEW ids \in SUBSET RowIds, NEW p \in Patches,
             BatchUpdate(u, ids, p) \/ FilterUpdate(u, ids, p)
      PROVE  \A i \in DOMAIN rows' : TruthKept(i)
  <2> DEFINE hit == {i \in ids \cap Live : MayTouch(u, i)}
             new == [i \in hit |-> Patched(rows[i], p)]
  <2>1. hit \in SUBSET DOMAIN rows /\ hit \in SUBSET RowIds /\ \A i \in hit : rows[i] \in Row
    BY DEF Live, TypeOK
  <2>2. Put(new) /\ catName' = catName
    BY <1>2 DEF BatchUpdate, FilterUpdate
  <2>3. new \in [hit -> Row]
        /\ \A i \in hit :
             \/ new[i].hash = rows[i].hash /\ new[i].text = rows[i].text /\ new[i].cat = rows[i].cat
             \/ new[i].hash = NoHash
    BY <2>1, PatchedRow, PatchedTruth
  <2> HIDE DEF hit, new
  <2>4. QED
    BY <2>1, <2>2, <2>3, RewriteTruth
<1>3. ASSUME NEW u \in Users, NEW ids \in SUBSET RowIds,
             BatchDelete(u, ids) \/ FilterDelete(u, ids)
      PROVE  \A i \in DOMAIN rows' : TruthKept(i)
  <2>1. {i \in ids \cap Live : MayTouch(u, i)} \in SUBSET DOMAIN rows
    BY DEF Live
  <2>2. QED
    BY <1>3, <2>1, TrashTruth DEF BatchDelete, FilterDelete
<1>4. ASSUME NEW u \in Users, NEW ids \in SUBSET RowIds, BatchRestore(u, ids)
      PROVE  \A i \in DOMAIN rows' : TruthKept(i)
  <2> PICK back \in SUBSET DOMAIN rows : SetTrashed(back, FALSE)
    BY <1>4 DEF BatchRestore, Trash
  <2>1. QED
    BY <1>4, TrashTruth DEF BatchRestore
<1>5. ASSUME NEW u \in Users, PurgeAll(u)
      PROVE  \A i \in DOMAIN rows' : TruthKept(i)
  BY <1>5, DropTruth DEF PurgeAll
<1>6. ASSUME NEW u \in Users, NEW c \in Cats, NEW n \in Names, RenameCategory(u, c, n)
      PROVE  \A i \in DOMAIN rows' : TruthKept(i)
  <2> DEFINE S == {j \in DOMAIN rows : rows[j].cat = c}
             new == [i \in S |-> [rows[i] EXCEPT !.hash = NoHash]]
  <2>1. S \in SUBSET RowIds /\ \A i \in S : rows[i] \in Row
    BY DEF TypeOK
  <2>2. new \in [S -> Row] /\ \A i \in S : new[i].hash = NoHash
    BY <2>1 DEF Row
  <2>3. Put(new) /\ catName' = [catName EXCEPT ![c] = n]
    BY <1>6 DEF RenameCategory
  <2> HIDE DEF new
  <2>4. /\ DOMAIN rows' = DOMAIN rows \cup S
        /\ \A i \in DOMAIN rows' : rows'[i] = IF i \in S THEN new[i] ELSE rows[i]
    BY <2>1, <2>2, <2>3, PutRows
  <2>5. \A i \in DOMAIN rows : rows[i].cat \in Cats /\ (i \notin S => rows[i].cat # c)
    BY DEF TypeOK, Row
  <2>6. \A k \in Cats : k # c => catName'[k] = catName[k]
    BY <2>3 DEF TypeOK
  <2>7. ASSUME NEW i \in DOMAIN rows', i \in S PROVE TruthKept(i)
    BY <2>2, <2>4, <2>7 DEF TruthKept
  <2>8. ASSUME NEW i \in DOMAIN rows', i \notin S PROVE TruthKept(i)
    BY <2>4, <2>5, <2>6, <2>8 DEF TruthKept
  <2>9. QED
    BY <2>7, <2>8
<1>7. QED
  BY <1>1, <1>2, <1>3, <1>4, <1>5, <1>6 DEF BulkWrite

\* The backfill stores the digest of the content it finds.
LEMMA RestartTruth ==
  ASSUME TypeOK, Crash \/ BackfillRow \/ BackfillDone
  PROVE  catName' = catName /\ \A i \in DOMAIN rows' : TruthKept(i)
<1>1. catName' = catName
  BY DEF Crash, BackfillRow, BackfillDone
<1>2. CASE UNCHANGED rows
  BY <1>1, <1>2 DEF TruthKept
<1>3. CASE BackfillRow /\ ~UNCHANGED rows
  <2> DEFINE h(i) == Digest(rows[i].text, rows[i].cat)
             new(i) == [j \in {i} |-> [rows[j] EXCEPT !.hash = h(i)]]
  <2> PICK i \in Unhashed : Put(new(i))
    BY <1>3 DEF BackfillRow
  <2>1. {i} \in SUBSET RowIds /\ rows[i] \in Row
    BY DEF Unhashed, TypeOK
  <2>2. h(i) \in Digests
    BY <2>1, DigestTyped DEF Row
  <2>3. new(i) \in [{i} -> Row]
        /\ \A j \in {i} : new(i)[j].hash = Digest(new(i)[j].text, new(i)[j].cat)
    BY <2>1, <2>2 DEF Row
  <2> HIDE DEF new
  <2>4. QED
    BY <1>1, <2>1, <2>3, RewriteTruth
<1>4. QED
  BY <1>1, <1>2, <1>3 DEF Crash, BackfillDone

\* The digest a create in flight carries stays the one its content has: a rename would
\* have to overtake it.
LEMMA CarriedKept ==
  ASSUME NoRenameRace, HashInv, [Next]_vars
  PROVE  CreateTruthful'
<1> USE DEF HashInv, HandlerInv
<1>1. req \in [Slots -> Requests]
  BY DEF TypeOK
<1>2. ASSUME NEW s \in Slots, Arrive(s) PROVE CreateTruthful'
  <2> PICK q : Born(q) /\ req' = [req EXCEPT ![s] = q]
    BY <1>2, ArriveSlots
  <2>1. catName' = catName
    BY <1>2, ArriveSlots
  <2>2. q.op = "create" => q.hash = Digest(q.text, q.cat)
    BY DEF Born
  <2>3. QED
    BY <1>1, <2>1, <2>2 DEF CreateTruthful, Digest
<1>3. ASSUME NEW s \in Slots, Proceed(s) PROVE CreateTruthful'
  <2>1. catName' = catName
    BY <1>3, ProceedSlots
  <2>2. CASE Finish(s)
    BY <1>1, <2>1, <2>2 DEF CreateTruthful, Digest, Finish, Idle
  <2>3. ASSUME NEW r, MovesOn(req[s], r), req' = [req EXCEPT ![s] = r]
        PROVE  CreateTruthful'
    BY <1>1, <2>1, <2>3 DEF CreateTruthful, Digest, MovesOn
  <2>4. QED
    BY <1>3, <2>2, <2>3, ProceedSlots
<1>4. CASE BulkWrite /\ catName' = catName
  BY <1>4, BulkSlots DEF CreateTruthful, Digest
<1>5. CASE BulkWrite /\ catName' # catName
  <2>1. SomeSlot("rename")
    BY <1>5 DEF BulkWrite, BatchCreate, BatchUpdate, FilterUpdate, BatchDelete, FilterDelete,
                BatchRestore, PurgeAll
  <2>2. \A s \in Slots : req[s].op # "create"
    <3>1. CASE OneAtATime
      BY <2>1, <3>1, BulkAlone DEF Idle
    <3>2. CASE ~({"create", "rename"} \subseteq Kinds)
      <4>1. "create" \notin Kinds
        BY <2>1, <3>2 DEF SomeSlot, CanStart
      <4>2. QED
        BY <4>1 DEF AskedFor, Idle
    <3>3. QED
      BY <3>1, <3>2 DEF NoRenameRace
  <2>3. QED
    BY <1>5, <2>2, BulkSlots DEF CreateTruthful
<1>6. CASE Crash
  BY <1>6 DEF Crash, CreateTruthful, Idle
<1>7. CASE BackfillRow \/ BackfillDone
  BY <1>7 DEF BackfillRow, BackfillDone, CreateTruthful, Digest
<1>8. CASE UNCHANGED vars
  BY <1>8 DEF vars, CreateTruthful, Digest
<1>9. QED
  BY <1>2, <1>3, <1>4, <1>5, <1>6, <1>7, <1>8 DEF Next

LEMMA HashStep ==
  ASSUME NoRenameRace, HashInv, [Next]_vars
  PROVE  HashInv'
<1>1. HashTruthful'
  <2>1. ASSUME NEW s \in Slots, Arrive(s) PROVE \A i \in DOMAIN rows' : TruthKept(i)
    BY <2>1, ArriveSlots DEF TruthKept
  <2>2. ASSUME UNCHANGED vars PROVE \A i \in DOMAIN rows' : TruthKept(i)
    BY <2>2 DEF vars, TruthKept
  <2>3. \A i \in DOMAIN rows' : TruthKept(i)
    BY <2>1, <2>2, ProceedTruth, BulkTruth, RestartTruth DEF Next, HashInv, HandlerInv
  <2>4. QED
    BY <2>3, TruthKeptKeeps DEF HashInv
<1>2. QED
  BY <1>1, CarriedKept, HandlersKept DEF HashInv

LEMMA HashInit == Init => HashInv
BY HandlersInit DEF Init, HashInv, HashTruthful, CreateTruthful, Idle

LEMMA HashAlways == NoRenameRace => (Spec => []HashInv)
<1> SUFFICES ASSUME NoRenameRace PROVE Spec => []HashInv
  OBVIOUS
<1>1. HashInv /\ [Next]_vars => HashInv'
  BY HashStep
<1>2. QED
  BY <1>1, HashInit, PTL DEF Spec

\* A row never claims the identity of content it no longer holds, however edits, bulk
\* patches, restores and backfills interleave, unless a rename overtakes a create.
THEOREM HashesTruthful == NoRenameRace => (Spec => []HashTruthful)
<1> SUFFICES ASSUME NoRenameRace PROVE Spec => []HashTruthful
  OBVIOUS
<1>1. HashInv => HashTruthful
  BY DEF HashInv
<1>2. Spec => []HashInv
  BY HashAlways
<1>3. QED
  BY <1>1, <1>2, PTL

(***************************************************************************)
(* What the boot backfill leaves behind.                                   *)
(***************************************************************************)
\* The backfill has attempted the live rows up to its cursor: one it left without a
\* digest has content a live row already answers for.
Anchored ==
  phase = "booting" =>
    \A i \in Live : i <= cursor => LiveHolder(Digest(rows[i].text, rows[i].cat))

AnchorInv == HashInv /\ Anchored

\* A live row with a digest answers for its own content.
LEMMA SelfAnchored ==
  ASSUME HashInv, NEW i \in Live, rows[i].hash # NoHash
  PROVE  LiveHolder(Digest(rows[i].text, rows[i].cat))
BY DEF HashInv, HashTruthful, Live, LiveHolder

\* One step of the backfill extends what is anchored to the row it attempts.
LEMMA BackfillAnchors ==
  ASSUME AnchorInv, BackfillRow
  PROVE  Anchored'
<1>1. TypeOK /\ HashInv /\ Anchored /\ phase = "booting" /\ catName' = catName
  BY DEF AnchorInv, HashInv, HandlerInv, BackfillRow
<1> DEFINE h(i) == Digest(rows[i].text, rows[i].cat)
           new(i) == [j \in {i} |-> [rows[j] EXCEPT !.hash = h(i)]]
<1> PICK i \in Unhashed :
      /\ \A j \in Unhashed : i <= j
      /\ IF rows[i].trashed \/ ~LiveHolder(h(i)) THEN Put(new(i)) ELSE UNCHANGED rows
      /\ cursor' = i
  BY DEF BackfillRow
<1>2. /\ i \in DOMAIN rows /\ {i} \in SUBSET RowIds /\ rows[i] \in Row /\ i > cursor
      /\ rows[i].hash = NoHash
  BY <1>1 DEF Unhashed, TypeOK
<1>3. \A k \in DOMAIN rows : rows[k] \in Row /\ h(k) \in Digests /\ h(k) # NoHash
  BY <1>1, DigestTyped, NullsAssumption DEF TypeOK, Row, Digests
\* what was live stays live, with its content, and keeps its digest
<1>4. /\ DOMAIN rows' = DOMAIN rows
      /\ \A k \in DOMAIN rows :
           /\ rows'[k].text = rows[k].text /\ rows'[k].cat = rows[k].cat
           /\ rows'[k].trashed = rows[k].trashed
           /\ k # i => rows'[k].hash = rows[k].hash
      /\ ~rows[i].trashed => rows'[i].hash = h(i) \/ LiveHolder(h(i))
  <2>1. CASE UNCHANGED rows
    <3>1. ~rows[i].trashed => rows'[i].hash = h(i) \/ LiveHolder(h(i))
      <4>1. CASE rows[i].trashed \/ ~LiveHolder(h(i))
        <5>1. Put(new(i))
          BY <4>1
        <5>2. rows'[i].hash = h(i)
          BY <1>2, <5>1 DEF Put, Row
        <5>3. QED
          BY <5>2
      <4>2. QED
        BY <4>1
    <3>2. QED
      BY <2>1, <3>1
  <2>2. CASE ~UNCHANGED rows
    <3>1. Put(new(i))
      BY <2>2
    <3>2. new(i) \in [{i} -> Row] /\ new(i)[i] = [rows[i] EXCEPT !.hash = h(i)]
      BY <1>2, <1>3 DEF Row
    <3>3. /\ new(i)[i].text = rows[i].text /\ new(i)[i].cat = rows[i].cat
          /\ new(i)[i].trashed = rows[i].trashed /\ new(i)[i].hash = h(i)
      BY <1>2, <3>2 DEF Row
    <3> HIDE DEF new
    <3>4. /\ DOMAIN rows' = DOMAIN rows \cup {i}
          /\ \A k \in DOMAIN rows' : rows'[k] = IF k \in {i} THEN new(i)[k] ELSE rows[k]
      BY <1>1, <1>2, <3>1, <3>2, PutRows
    <3>5. DOMAIN rows' = DOMAIN rows /\ rows'[i] = new(i)[i]
      BY <1>2, <3>4
    <3>6. \A k \in DOMAIN rows : k # i => rows'[k] = rows[k]
      BY <3>4, <3>5
    <3>7. QED
      BY <3>3, <3>5, <3>6
  <2>3. QED
    BY <2>1, <2>2
<1>5. Live' = Live
  BY <1>4 DEF Live
\* so an answer for some content is never lost
<1>6. ASSUME NEW d \in Digests, LiveHolder(d) PROVE LiveHolder(d)'
  <2> PICK k \in Live : rows[k].hash = d
    BY <1>6 DEF LiveHolder
  <2>1. d # NoHash /\ k \in DOMAIN rows /\ k # i
    BY <1>2, <1>6 DEF LiveHolder, Live
  <2>2. k \in Live' /\ rows'[k].hash = d
    BY <1>4, <1>5, <2>1
  <2>3. QED
    BY <2>1, <2>2 DEF LiveHolder
<1>7. ASSUME NEW k \in Live', k <= i PROVE LiveHolder(Digest(rows[k].text, rows[k].cat))'
  <2>1. k \in Live /\ k \in DOMAIN rows /\ Digest(rows[k].text, rows[k].cat)' = h(k)
    BY <1>1, <1>4, <1>5 DEF Digest, Live
  <2>2. LiveHolder(h(k)) => LiveHolder(h(k))'
    BY <1>3, <1>6, <2>1
  <2>3. CASE k <= cursor
    BY <1>1, <2>1, <2>2, <2>3 DEF Anchored
  <2>4. CASE k # i /\ ~(k <= cursor)
    <3>1. i \in Nat /\ k \in Nat /\ cursor \in Nat
      BY <1>1, <1>2, <2>1, MaxRowsAssumption DEF TypeOK, RowIds
    <3>2. k \in Unhashed => i <= k
      OBVIOUS
    <3>3. k > cursor /\ k \notin Unhashed
      BY <1>7, <2>4, <3>1, <3>2
    <3>4. rows[k].hash # NoHash
      BY <2>1, <3>3 DEF Unhashed
    <3>5. QED
      BY <1>1, <2>1, <2>2, <3>4, SelfAnchored
  <2>5. CASE k = i
    <3>1. ~rows[i].trashed
      BY <2>1, <2>5 DEF Live
    <3>2. CASE rows'[i].hash = h(i)
      BY <1>3, <1>5, <2>1, <2>5, <3>2 DEF LiveHolder
    <3>3. CASE LiveHolder(h(i))
      BY <2>1, <2>2, <2>5, <3>3
    <3>4. QED
      BY <1>4, <3>1, <3>2, <3>3
  <2>6. QED
    BY <2>3, <2>4, <2>5
<1>8. QED
  BY <1>7 DEF Anchored

\* Nothing but the backfill writes while the server boots.
LEMMA AnchorStep ==
  ASSUME NoRenameRace, AnchorInv, [Next]_vars
  PROVE  AnchorInv'
<1> SUFFICES Anchored'
  BY HashStep DEF AnchorInv
<1>1. TypeOK /\ BootIsQuiet
  BY DEF AnchorInv, HashInv, HandlerInv
<1>2. ASSUME NEW s \in Slots, Arrive(s) PROVE Anchored'
  BY <1>2, ArriveSlots DEF Anchored
<1>3. ASSUME NEW s \in Slots, Proceed(s) PROVE Anchored'
  BY <1>1, <1>3, ProceedSlots DEF Anchored, BootIsQuiet
<1>4. CASE BulkWrite
  BY <1>4, BulkSlots DEF Anchored
<1>5. CASE Crash
  <2>1. cursor' = 0 /\ rows' = rows
    BY <1>5 DEF Crash
  <2>2. \A i \in DOMAIN rows : ~(i <= 0)
    BY <1>1, MaxRowsAssumption DEF TypeOK, RowIds
  <2>3. QED
    BY <2>1, <2>2 DEF Anchored, Live
<1>6. CASE BackfillRow
  BY <1>6, BackfillAnchors
<1>7. CASE BackfillDone
  BY <1>7 DEF BackfillDone, Anchored
<1>8. CASE UNCHANGED vars
  BY <1>8 DEF vars, AnchorInv, Anchored, Live, LiveHolder, Digest
<1>9. QED
  BY <1>2, <1>3, <1>4, <1>5, <1>6, <1>7, <1>8 DEF Next

\* Once the server serves again after a restart, importing the content of any live row
\* finds a live row to deduplicate against -- unless a rename overtook a create, and
\* left a digest of the old name behind.
THEOREM BootAnchors == NoRenameRace => (Spec => BootAnchorsLedger)
<1> SUFFICES ASSUME NoRenameRace PROVE Spec => BootAnchorsLedger
  OBVIOUS
<1>1. Init => AnchorInv
  BY HashInit DEF Init, AnchorInv, Anchored
<1>2. AnchorInv /\ [Next]_vars => AnchorInv'
  BY AnchorStep
<1>3. AnchorInv /\ [Next]_vars =>
        [phase = "booting" /\ phase' = "serving" =>
           \A i \in Live : LiveHolder(Digest(rows[i].text, rows[i].cat))]_vars
  <2> SUFFICES ASSUME AnchorInv, Next, phase = "booting", phase' = "serving", NEW i \in Live
               PROVE  LiveHolder(Digest(rows[i].text, rows[i].cat))
    OBVIOUS
  <2>1. TypeOK /\ BootIsQuiet /\ HashInv /\ Anchored
    BY DEF AnchorInv, HashInv, HandlerInv
  <2>2. BackfillDone
    <3>1. ~\E s \in Slots : Arrive(s) \/ Proceed(s)
      BY <2>1, ArriveSlots, ProceedSlots
    <3>2. ~BulkWrite
      BY BulkSlots
    <3>3. QED
      BY <3>1, <3>2 DEF Next, Crash, BackfillRow
  <2>3. CASE rows[i].hash # NoHash
    BY <2>1, <2>3, SelfAnchored
  <2>4. CASE rows[i].hash = NoHash
    <3>1. i \in DOMAIN rows /\ i \notin Unhashed
      BY <2>2 DEF BackfillDone, Live
    <3>2. i <= cursor
      <4>1. ~(i > cursor)
        BY <2>4, <3>1 DEF Unhashed
      <4>2. i \in Nat /\ cursor \in Nat
        BY <2>1, <3>1, MaxRowsAssumption DEF TypeOK, RowIds
      <4>3. QED
        BY <4>1, <4>2
    <3>3. QED
      BY <2>1, <3>2 DEF Anchored
  <2>5. QED
    BY <2>3, <2>4
<1>4. QED
  BY <1>1, <1>2, <1>3, PTL DEF Spec, BootAnchorsLedger

(***************************************************************************)
(* No update entry follows the delete entry of a trashed row, unless the   *)
(* row was deleted under an edit that had checked it.                      *)
(***************************************************************************)
\* The row an edit has checked was not deleted since.
EditsOfKept == \A s \in Slots : req[s].op = "edit" => trail[req[s].id].last # "delete"

EditInv == HandlerInv /\ AuditTellsState /\ NoEditInTrash /\ EditsOfKept

\* Every audit entry is one the trash allows: no update of a deleted row, and a delete
\* only while no edit holds the row.
LEMMA AuditKeepsEdits ==
  ASSUME EditInv, NEW S \in SUBSET RowIds, NEW a \in {"insert", "update", "delete", "restore"},
         Audit(S, a),
         a = "update" => \A i \in S : trail[i].last # "delete",
         a = "delete" => \A s \in Slots : req[s].op # "edit",
         \A s \in Slots : req'[s] = req[s] \/ req'[s] = Idle
  PROVE  NoEditInTrash' /\ EditsOfKept'
<1>1. TypeOK
  BY DEF EditInv, HandlerInv
<1>2. \A i \in RowIds :
        /\ i \notin S => trail'[i] = trail[i]
        /\ i \in S /\ a = "update" => trail'[i].last = trail[i].last /\ trail'[i].edited
        /\ i \in S /\ a # "update" => trail'[i].last = a /\ ~trail'[i].edited
  BY <1>1, AuditEffect
<1>3. NoEditInTrash'
  <2> SUFFICES ASSUME NEW i \in RowIds PROVE ~(trail'[i].last = "delete" /\ trail'[i].edited)
    BY DEF NoEditInTrash
  <2>1. ~(trail[i].last = "delete" /\ trail[i].edited)
    BY DEF EditInv, NoEditInTrash
  <2>2. QED
    BY <1>2, <2>1, Zenon
<1>4. EditsOfKept'
  <2> SUFFICES ASSUME NEW s \in Slots, req'[s].op = "edit" PROVE trail'[req'[s].id].last # "delete"
    BY DEF EditsOfKept
  <2>1. req'[s] = req[s] /\ req[s].op = "edit"
    BY DEF Idle
  <2>2. req[s].id \in RowIds
    BY <1>1, <2>1, RequestKinds DEF EditReq
  <2>3. trail[req[s].id].last # "delete" /\ a # "delete"
    BY <2>1 DEF EditInv, EditsOfKept
  <2>4. QED
    BY <1>2, <2>1, <2>2, <2>3
<1>5. QED
  BY <1>3, <1>4

\* A step that audits nothing and starts no edit.
LEMMA UnauditedKeepsEdits ==
  ASSUME EditInv, trail' = trail, \A s \in Slots : req'[s] = req[s] \/ req'[s].op # "edit"
  PROVE  NoEditInTrash' /\ EditsOfKept'
BY DEF EditInv, NoEditInTrash, EditsOfKept

\* A live row's last entry is no delete.
LEMMA LiveNotDeleted ==
  ASSUME AuditTellsState, NEW i \in Live
  PROVE  trail[i].last # "delete"
BY DEF AuditTellsState, Live

\* Where edits and audited deletes do not race, a delete meets no edit in flight.
LEMMA DeleteMeetsNoEdit ==
  ASSUME NoEditRace, EditInv,
         \/ \E s \in Slots : req[s].op = "delete"
         \/ SomeSlot("batchDelete")
  PROVE  \A s \in Slots : req[s].op # "edit"
<1>1. CASE OneAtATime
  BY <1>1, BulkAlone DEF OneAtATime, Idle
<1>2. CASE "edit" \notin Kinds
  BY <1>2 DEF EditInv, HandlerInv, AskedFor, Idle
<1>3. CASE {"delete", "batchDelete"} \cap Kinds = {}
  <2>1. ~SomeSlot("batchDelete")
    BY <1>3 DEF SomeSlot, CanStart
  <2>2. \A s \in Slots : req[s].op # "delete"
    BY <1>3 DEF EditInv, HandlerInv, AskedFor, Idle
  <2>3. QED
    BY <2>1, <2>2
<1>4. QED
  BY <1>1, <1>2, <1>3 DEF NoEditRace

\* The handlers' steps.
LEMMA ProceedEdits ==
  ASSUME NoEditRace, EditInv, NEW s \in Slots, Proceed(s)
  PROVE  NoEditInTrash' /\ EditsOfKept'
<1>1. TypeOK /\ AuditTellsState /\ req \in [Slots -> Requests]
  BY DEF EditInv, HandlerInv, TypeOK
<1>2. Finish(s) => \A r \in Slots : req'[r] = req[r] \/ req'[r] = Idle
  BY <1>1 DEF Finish
<1>3. CASE trail' = trail
  <2>1. \A r \in Slots : req'[r] = req[r] \/ req'[r].op # "edit"
    <3>1. CASE Finish(s)
      BY <1>2, <3>1 DEF Idle
    <3>2. ASSUME NEW q, MovesOn(req[s], q), req' = [req EXCEPT ![s] = q]
          PROVE  \A r \in Slots : req'[r] = req[r] \/ req'[r].op # "edit"
      BY <1>1, <3>2 DEF MovesOn
    <3>3. QED
      BY <1>1, <3>1, <3>2, ProceedSlots
  <2>2. QED
    BY <1>3, <2>1, UnauditedKeepsEdits
<1>4. CASE InsertRow(s)
  BY <1>2, <1>4, AuditKeepsEdits DEF InsertRow
<1>5. CASE CommitEdit(s) /\ req[s].id \in DOMAIN rows
  <2>1. req[s].op = "edit" /\ Audit({req[s].id}, "update") /\ Finish(s)
    BY <1>5 DEF CommitEdit
  <2>2. req[s].id \in RowIds
    BY <1>1, <2>1, RequestKinds DEF EditReq
  <2>3. trail[req[s].id].last # "delete"
    BY <2>1 DEF EditInv, EditsOfKept
  <2>4. QED
    BY <1>2, <2>1, <2>2, <2>3, AuditKeepsEdits
<1>6. CASE CommitDelete(s) /\ trail' # trail
  <2>1. req[s].op = "delete" /\ Audit({req[s].id}, "delete") /\ Finish(s)
    BY <1>6 DEF CommitDelete
  <2>2. req[s].id \in RowIds
    BY <1>1, <2>1, RequestKinds DEF RowReq
  <2>3. \A r \in Slots : req[r].op # "edit"
    BY <2>1, DeleteMeetsNoEdit
  <2>4. QED
    BY <1>2, <2>1, <2>2, <2>3, AuditKeepsEdits
<1>7. CASE CommitRestore(s) /\ trail' # trail
  <2>1. req[s].op = "restore" /\ Audit({req[s].id}, "restore") /\ Finish(s)
    BY <1>7 DEF CommitRestore
  <2>2. req[s].id \in RowIds
    BY <1>1, <2>1, RequestKinds DEF RowReq
  <2>3. QED
    BY <1>2, <2>1, <2>2, AuditKeepsEdits
<1>8. CASE CommitRestoreAll(s)
  <2> PICK back \in SUBSET RowIds : Audit(back, "restore")
    BY <1>1, <1>8 DEF CommitRestoreAll, Trash, TypeOK
  <2>1. Finish(s)
    BY <1>8 DEF CommitRestoreAll
  <2>2. QED
    BY <1>2, <2>1, AuditKeepsEdits
<1>9. CASE CommitPurge(s) \/ CommitDeleteUser(s)
  BY <1>3, <1>9 DEF CommitPurge, CommitDeleteUser
<1>10. CASE CommitEdit(s) /\ req[s].id \notin DOMAIN rows
  BY <1>3, <1>10 DEF CommitEdit
<1>11. CASE \/ ProbeHash(s) \/ InsertHashConflict(s) \/ InsertKeyConflict(s)
            \/ InsertOrphan(s) \/ LookupKey(s)
  BY <1>3, <1>11 DEF ProbeHash, InsertHashConflict, InsertKeyConflict, InsertOrphan, LookupKey
<1>12. QED
  BY <1>3, <1>4, <1>5, <1>6, <1>7, <1>8, <1>9, <1>10, <1>11 DEF Proceed

\* The bulk writers: a batch update hits live rows only.
LEMMA BulkEdits ==
  ASSUME NoEditRace, EditInv, BulkWrite
  PROVE  NoEditInTrash' /\ EditsOfKept'
<1>1. TypeOK /\ AuditTellsState
  BY DEF EditInv, HandlerInv
<1>2. \A s \in Slots : req'[s] = req[s] \/ req'[s] = Idle
  BY BulkSlots
<1>3. CASE trail' = trail
  BY <1>3, BulkSlots, UnauditedKeepsEdits
<1>4. Live \subseteq RowIds /\ Trash \subseteq RowIds
  BY <1>1 DEF Live, Trash, TypeOK
<1>5. ASSUME NEW u \in Users, NEW items \in Items, BatchCreate(u, items)
      PROVE  NoEditInTrash' /\ EditsOfKept'
  <2> DEFINE ids == nextId .. (nextId + Len(items) - 1)
  <2>1. ids \in SUBSET RowIds
    BY <1>1, <1>5, ItemsTyped, BatchIds DEF BatchCreate
  <2>2. Audit(ids, "insert")
    BY <1>5 DEF BatchCreate
  <2> HIDE DEF ids
  <2>3. QED
    BY <1>2, <2>1, <2>2, AuditKeepsEdits
<1>6. ASSUME NEW u \in Users, NEW ids \in SUBSET RowIds, NEW p \in Patches, BatchUpdate(u, ids, p)
      PROVE  NoEditInTrash' /\ EditsOfKept'
  <2> DEFINE hit == {i \in ids \cap Live : MayTouch(u, i)}
  <2>1. hit \in SUBSET RowIds /\ \A i \in hit : trail[i].last # "delete"
    BY <1>1, LiveNotDeleted
  <2>2. Audit(hit, "update")
    BY <1>6 DEF BatchUpdate
  <2> HIDE DEF hit
  <2>3. QED
    BY <1>2, <2>1, <2>2, AuditKeepsEdits
<1>7. ASSUME NEW u \in Users, NEW ids \in SUBSET RowIds, BatchDelete(u, ids), SomeSlot("batchDelete")
      PROVE  NoEditInTrash' /\ EditsOfKept'
  <2> DEFINE hit == {i \in ids \cap Live : MayTouch(u, i)}
  <2>1. hit \in SUBSET RowIds
    OBVIOUS
  <2>2. Audit(hit, "delete")
    BY <1>7 DEF BatchDelete
  <2>3. \A s \in Slots : req[s].op # "edit"
    BY <1>7, DeleteMeetsNoEdit
  <2> HIDE DEF hit
  <2>4. QED
    BY <1>2, <2>1, <2>2, <2>3, AuditKeepsEdits
<1>8. ASSUME NEW u \in Users, NEW ids \in SUBSET RowIds, BatchRestore(u, ids)
      PROVE  NoEditInTrash' /\ EditsOfKept'
  <2> PICK back \in SUBSET RowIds : Audit(back, "restore")
    BY <1>4, <1>8 DEF BatchRestore
  <2>1. QED
    BY <1>2, AuditKeepsEdits
<1>9. QED
  BY <1>3, <1>5, <1>6, <1>7, <1>8
  DEF BulkWrite, FilterUpdate, FilterDelete, PurgeAll, RenameCategory

\* An edit arrives at a live row, whose last entry is no delete.
LEMMA ArriveEdits ==
  ASSUME EditInv, NEW s \in Slots, Arrive(s)
  PROVE  NoEditInTrash' /\ EditsOfKept'
<1>1. req \in [Slots -> Requests] /\ AuditTellsState
  BY DEF EditInv, HandlerInv, TypeOK
<1>2. trail' = trail
  BY ArriveSlots
<1> PICK q : Born(q) /\ req' = [req EXCEPT ![s] = q]
  BY ArriveSlots
<1>3. q.op = "edit" => trail[q.id].last # "delete"
  BY <1>1, LiveNotDeleted DEF Born
<1>4. EditsOfKept'
  BY <1>1, <1>2, <1>3 DEF EditInv, EditsOfKept
<1>5. QED
  BY <1>2, <1>4 DEF EditInv, NoEditInTrash

LEMMA EditStep ==
  ASSUME NoEditRace, EditInv, [Next]_vars
  PROVE  EditInv'
<1>1. TypeOK /\ HandlerInv /\ AuditTellsState
  BY DEF EditInv, HandlerInv
<1>2. NoEditInTrash' /\ EditsOfKept'
  <2>1. CASE Crash \/ BackfillRow \/ BackfillDone
    <3>1. trail' = trail /\ \A s \in Slots : req'[s] = req[s] \/ req'[s].op # "edit"
      BY <2>1 DEF Crash, BackfillRow, BackfillDone, Idle
    <3>2. QED
      BY <3>1, UnauditedKeepsEdits
  <2>2. CASE UNCHANGED vars
    BY <2>2, UnauditedKeepsEdits DEF vars
  <2>3. QED
    BY <2>1, <2>2, ArriveEdits, ProceedEdits, BulkEdits DEF Next
<1>3. QED
  BY <1>1, <1>2, HandlersKept, NextAudited DEF EditInv

\* A row deleted under an edit is not edited: no update entry follows the delete entry of
\* a trashed row, unless an edit and an audited delete are both in flight.
THEOREM NoTrashEdits == NoEditRace => (Spec => []NoEditInTrash)
<1> SUFFICES ASSUME NoEditRace PROVE Spec => []NoEditInTrash
  OBVIOUS
<1>1. Init => EditInv
  BY HandlersInit DEF Init, EditInv, AuditTellsState, NoEditInTrash, EditsOfKept, Idle
<1>2. EditInv /\ [Next]_vars => EditInv'
  BY EditStep
<1>3. EditInv => NoEditInTrash
  BY DEF EditInv
<1>4. QED
  BY <1>1, <1>2, <1>3, PTL DEF Spec

(***************************************************************************)
(* A row is destroyed for good only out of the trash, unless an account is *)
(* deleted under a create of its own.                                      *)
(***************************************************************************)
\* The account a deletion has counted still owns nothing.
TargetsOwnNothing ==
  \A s \in Slots :
    req[s].op = "deleteUser" => \A i \in DOMAIN rows : rows[i].owner # req[s].target

OwnInv == HandlerInv /\ IInv /\ TargetsOwnNothing

\* Where they do not race, an insert meets no account deletion in flight.
LEMMA InsertMeetsNoDeletion ==
  ASSUME NoAccountRace, HandlerInv,
         (\E s \in Slots : req[s].op = "create") \/ SomeSlot("batchCreate")
  PROVE  \A s \in Slots : req[s].op # "deleteUser"
<1>1. CASE OneAtATime
  BY <1>1, BulkAlone DEF OneAtATime, Idle
<1>2. CASE "deleteUser" \notin Kinds
  BY <1>2 DEF HandlerInv, AskedFor, Idle
<1>3. QED
  BY <1>1, <1>2 DEF NoAccountRace

\* Only an insert gives an account a row, and only an arrival begins a deletion.
LEMMA OwnStep ==
  ASSUME NoAccountRace, OwnInv, [Next]_vars
  PROVE  OwnInv'
<1> SUFFICES TargetsOwnNothing'
  BY HandlersKept, NextInv DEF OwnInv
<1>1. HandlerInv /\ IInv /\ TypeOK /\ req \in [Slots -> Requests]
  BY DEF OwnInv, HandlerInv, TypeOK
<1>2. ASSUME \A s \in Slots : req[s].op # "deleteUser",
             \A s \in Slots : req'[s] = req[s] \/ req'[s] = Idle
      PROVE  TargetsOwnNothing'
  BY <1>2 DEF TargetsOwnNothing, Idle
<1>3. ASSUME SameIdentity, \A s \in Slots : req'[s] = req[s] \/ req'[s].op # "deleteUser"
      PROVE  TargetsOwnNothing'
  BY <1>3 DEF OwnInv, TargetsOwnNothing, SameIdentity
<1>4. ASSUME NEW s \in Slots, Arrive(s) PROVE TargetsOwnNothing'
  <2> PICK q : Born(q) /\ req' = [req EXCEPT ![s] = q]
    BY <1>4, ArriveSlots
  <2>1. rows' = rows
    BY <1>4, ArriveSlots
  <2>2. q.op = "deleteUser" => \A i \in DOMAIN rows : rows[i].owner # q.target
    BY DEF Born
  <2>3. QED
    BY <1>1, <2>1, <2>2 DEF OwnInv, TargetsOwnNothing
<1>5. ASSUME NEW s \in Slots, InsertRow(s) PROVE TargetsOwnNothing'
  <2>1. req[s].op = "create" /\ Finish(s)
    BY <1>5 DEF InsertRow
  <2>2. \A r \in Slots : req[r].op # "deleteUser"
    BY <1>1, <2>1, InsertMeetsNoDeletion
  <2>3. \A r \in Slots : req'[r] = req[r] \/ req'[r] = Idle
    BY <1>1, <2>1 DEF Finish
  <2>4. QED
    BY <1>2, <2>2, <2>3
<1>6. ASSUME NEW s \in Slots, Proceed(s), Tame PROVE TargetsOwnNothing'
  <2>1. \A r \in Slots : req'[r] = req[r] \/ req'[r].op # "deleteUser"
    <3>1. CASE Finish(s)
      BY <1>1, <3>1 DEF Finish, Idle
    <3>2. ASSUME NEW q, MovesOn(req[s], q), req' = [req EXCEPT ![s] = q]
          PROVE  \A r \in Slots : req'[r] = req[r] \/ req'[r].op # "deleteUser"
      BY <1>1, <3>2 DEF MovesOn
    <3>3. QED
      BY <1>1, <1>6, <3>1, <3>2, ProceedSlots
  <2>2. QED
    BY <1>3, <1>6, <2>1 DEF Tame
<1>7. ASSUME NEW s \in Slots, LookupKey(s) PROVE TargetsOwnNothing'
  <2>1. Finish(s) /\ rows' = rows
    BY <1>7 DEF LookupKey
  <2>2. \A r \in Slots : req'[r] = req[r] \/ req'[r].op # "deleteUser"
    BY <1>1, <2>1 DEF Finish, Idle
  <2>3. QED
    BY <1>3, <2>1, <2>2 DEF SameIdentity
<1>8. CASE BulkWrite
  <2>1. req' = req
    BY <1>8, BulkSlots
  <2>2. CASE SomeSlot("batchCreate")
    <3>1. \A s \in Slots : req[s].op # "deleteUser"
      BY <1>1, <2>2, InsertMeetsNoDeletion
    <3>2. QED
      BY <1>2, <2>1, <3>1
  <2>3. CASE ~SomeSlot("batchCreate")
    <3>1. SameIdentity
      BY <1>1, <1>8, <2>3, BulkKeeps DEF Tame
    <3>2. QED
      BY <1>3, <2>1, <3>1
  <2>4. QED
    BY <2>2, <2>3
<1>9. CASE Crash \/ BackfillRow \/ BackfillDone
  <2>1. SameIdentity
    BY <1>1, <1>9, RestartKeeps DEF Tame
  <2>2. \A s \in Slots : req'[s] = req[s] \/ req'[s].op # "deleteUser"
    BY <1>9 DEF Crash, BackfillRow, BackfillDone, Idle
  <2>3. QED
    BY <1>3, <2>1, <2>2
<1>10. CASE UNCHANGED vars
  BY <1>10 DEF vars, OwnInv, TargetsOwnNothing
<1>11. ASSUME NEW s \in Slots, Proceed(s) PROVE Tame \/ InsertRow(s) \/ LookupKey(s)
  BY <1>1, <1>11, CreateKeeps, CommitKeeps DEF Proceed
<1>12. QED
  BY <1>4, <1>5, <1>6, <1>7, <1>8, <1>9, <1>10, <1>11 DEF Next

\* No step but an account's deletion drops a live row, and it finds none to drop.
LEMMA DestroysTrashOnly ==
  ASSUME OwnInv, Next, NEW i \in DOMAIN rows \ DOMAIN rows'
  PROVE  rows[i].trashed
<1>1. HandlerInv /\ TypeOK /\ TargetsOwnNothing /\ IInv
  BY DEF OwnInv, HandlerInv
<1>2. ASSUME \E S, new : DOMAIN new = S /\ Put(new) PROVE FALSE
  BY <1>2 DEF Put
<1>3. rows' # rows
  OBVIOUS
<1>4. ASSUME NEW S, Drop(S) PROVE i \in S
  BY <1>4 DEF Drop
<1>5. ASSUME NEW s \in Slots, Proceed(s) PROVE rows[i].trashed
  <2>1. CASE CommitPurge(s)
    BY <1>4, <2>1 DEF CommitPurge, Trash
  <2>2. CASE CommitDeleteUser(s)
    <3>1. req[s].op = "deleteUser" /\ Drop({j \in DOMAIN rows : rows[j].owner = req[s].target})
      BY <2>2 DEF CommitDeleteUser
    <3>2. rows[i].owner = req[s].target
      BY <1>4, <3>1
    <3>3. QED
      BY <1>1, <3>1, <3>2 DEF TargetsOwnNothing
  <2>3. CASE \/ ProbeHash(s) \/ InsertHashConflict(s) \/ InsertKeyConflict(s)
             \/ InsertOrphan(s) \/ LookupKey(s)
    BY <1>3, <2>3 DEF ProbeHash, InsertHashConflict, InsertKeyConflict, InsertOrphan, LookupKey
  <2>4. CASE \/ InsertRow(s) \/ CommitEdit(s) \/ CommitDelete(s) \/ CommitRestore(s)
             \/ CommitRestoreAll(s)
    BY <1>2, <1>3, <2>4
    DEF InsertRow, CommitEdit, CommitDelete, CommitRestore, CommitRestoreAll, SetTrashed
  <2>5. QED
    BY <1>5, <2>1, <2>2, <2>3, <2>4 DEF Proceed
<1>6. CASE BulkWrite
  <2>1. ASSUME NEW u \in Users, PurgeAll(u) PROVE rows[i].trashed
    BY <1>4, <2>1 DEF PurgeAll, Trash
  <2>2. QED
    BY <1>2, <1>3, <1>6, <2>1
    DEF BulkWrite, BatchCreate, BatchUpdate, FilterUpdate, BatchDelete, FilterDelete,
        BatchRestore, RenameCategory, SetTrashed
<1>7. ~\E s \in Slots : Arrive(s)
  BY <1>3, ArriveSlots
<1>8. ~Crash /\ ~BackfillDone
  BY <1>3 DEF Crash, BackfillDone
<1>9. ~BackfillRow
  BY <1>2, <1>3 DEF BackfillRow
<1>10. QED
  BY <1>5, <1>6, <1>7, <1>8, <1>9 DEF Next

\* The only way a row disappears for good is out of the trash, unless an account is
\* deleted under a create of its own: the count of its rows came too early.
THEOREM TrashIsTheOnlyExit == NoAccountRace => (Spec => OnlyTrashIsDestroyed)
<1> SUFFICES ASSUME NoAccountRace PROVE Spec => OnlyTrashIsDestroyed
  OBVIOUS
<1>1. Init => OwnInv
  BY HandlersInit, InitInv DEF Init, OwnInv, TargetsOwnNothing, Idle
<1>2. OwnInv /\ [Next]_vars => OwnInv'
  BY OwnStep
<1>3. OwnInv /\ [Next]_vars => [\A i \in DOMAIN rows \ DOMAIN rows' : rows[i].trashed]_vars
  BY DestroysTrashOnly
<1>4. QED
  BY <1>1, <1>2, <1>3, PTL DEF Spec, OnlyTrashIsDestroyed
=============================================================================
