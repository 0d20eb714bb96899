------------------------------- MODULE Ledger -------------------------------
(***************************************************************************)
(* The server's transaction ledger: the transactions table with its two    *)
(* partial unique indexes, the audit trail, and the HTTP handlers that     *)
(* write it.  SQLite is opened with one connection, so every store call is *)
(* one atomic step; a handler is several such calls, and what it captured  *)
(* in an earlier one may be stale when it makes the next.  A slot of `req` *)
(* holds one handler in flight between two of its database calls.          *)
(*                                                                         *)
(* A row's content (date, cents, description) is one value of Texts, taken *)
(* after normalisation, and a category name one value of Names, so a       *)
(* content digest is the pair <<text, name>>.  The audit table is kept as, *)
(* per row, its last lifecycle entry and whether an "update" entry follows *)
(* it.  Tags, notes, money conversion and notifications are left out.      *)
(***************************************************************************)
EXTENDS Naturals, Sequences, FiniteSets

CONSTANTS
  Users,      \* household members
  Admins,     \* the members whose role is admin
  Keys,       \* client-minted idempotency keys
  Texts,      \* normalised (date, cents, description) triples
  Cats,       \* categories
  Names,      \* normalised category names
  Slots,      \* handlers that may be in flight at once
  Kinds,      \* the requests clients send in this instance
  MaxRows,    \* bound on the ids the AUTOINCREMENT counter hands out
  MaxBatch,   \* bound on the items of one batch create
  NoKey, NoHash   \* the two NULLs

ASSUME MaxRowsAssumption == MaxRows \in Nat /\ MaxBatch \in Nat
ASSUME SlotsAssumption == IsFiniteSet(Slots)
ASSUME AdminsAssumption == Admins \subseteq Users
ASSUME NullsAssumption == NoKey \notin Keys /\ NoHash \notin Texts \X Names

VARIABLES
  rows,      \* the table: existing ids -> row (a tombstoned row exists)
  nextId,    \* sqlite_sequence: ids are never reused, not even after a purge
  catName,   \* categories.name
  users,     \* the users table
  trail,     \* transaction_audit, per row id; survives the row
  bulkAudit, \* a filter delete left its summary under transaction_id 0
  req,       \* handlers between two database calls
  phase,     \* "serving", or "booting" while the hash backfill runs
  cursor,    \* last id the backfill attempted
  answers    \* 201 answers given to keyed creates

vars == <<rows, nextId, catName, users, trail, bulkAudit, req, phase, cursor, answers>>

RowIds == 1..MaxRows
Digests == Texts \X Names
Row == [owner: Users, key: Keys \cup {NoKey}, text: Texts, cat: Cats,
        hash: Digests \cup {NoHash}, trashed: BOOLEAN]

Idle == [op |-> "idle"]
CreateReq == [op: {"create"}, at: {"probe", "insert", "lookup"}, user: Users,
              key: Keys \cup {NoKey}, text: Texts, cat: Cats, hash: Digests \cup {NoHash}]
EditReq == [op: {"edit"}, id: RowIds, text: Texts, cat: Cats]
RowReq == [op: {"delete", "restore", "purge"}, id: RowIds]
RestoreAllReq == [op: {"restoreAll"}, ids: SUBSET RowIds]
DeleteUserReq == [op: {"deleteUser"}, target: Users]
Requests == {Idle} \cup CreateReq \cup EditReq \cup RowReq \cup RestoreAllReq \cup DeleteUserReq

Trails == [last: {"none", "insert", "delete", "restore"}, edited: BOOLEAN]

(***************************************************************************)
(* Reading the table.                                                      *)
(***************************************************************************)
Live == {i \in DOMAIN rows : ~rows[i].trashed}
Trash == {i \in DOMAIN rows : rows[i].trashed}

\* ComputeContentHash of a content filed under category c, as named now
Digest(t, c) == <<t, catName[c]>>

\* idx_transactions_content_hash ignores NULLs and tombstones
LiveHolder(h) == h # NoHash /\ \E i \in Live : rows[i].hash = h

\* mutant: the key index carries the digest index's deleted_at predicate
KeyHoldersLive(u, k) == {i \in Live : k # NoKey /\ rows[i].owner = u /\ rows[i].key = k}

\* idx_transactions_idempotency_key ignores NULLs but covers tombstones
KeyHolders(u, k) == {i \in DOMAIN rows : k # NoKey /\ rows[i].owner = u /\ rows[i].key = k}

MayTouch(u, i) == u \in Admins \/ rows[i].owner = u

(***************************************************************************)
(* Writing the table.                                                      *)
(***************************************************************************)
Put(new) ==      \* new: ids -> rows, overwriting or adding
  rows' = [i \in DOMAIN rows \cup DOMAIN new |-> IF i \in DOMAIN new THEN new[i] ELSE rows[i]]

Drop(ids) == rows' = [i \in DOMAIN rows \ ids |-> rows[i]]

Audit(ids, action) ==
  trail' = [i \in RowIds |->
    IF i \notin ids THEN trail[i]
    ELSE IF action = "update" THEN [trail[i] EXCEPT !.edited = TRUE]
    ELSE [last |-> action, edited |-> FALSE]]

\* UpdateTransaction: a full replace that clears the digest iff an input moved
Edited(r, t, c) ==
  [r EXCEPT !.text = t, !.cat = c,
            !.hash = IF r.text = t /\ r.cat = c THEN r.hash ELSE NoHash]

NewRow(u, k, t, c, h) ==
  [owner |-> u, key |-> k, text |-> t, cat |-> c, hash |-> h, trashed |-> FALSE]

SetTrashed(ids, b) == Put([i \in ids |-> [rows[i] EXCEPT !.trashed = b]])

CanStart(s, kind) == phase = "serving" /\ kind \in Kinds /\ req[s] = Idle
Begin(s, r) == req' = [req EXCEPT ![s] = r]
Finish(s) == req' = [req EXCEPT ![s] = Idle]

Answer(u, k, i) ==
  answers' = IF k = NoKey THEN answers ELSE answers \cup {[user |-> u, key |-> k, id |-> i]}

\* the model's bound: every create in flight still finds an id to take
InFlightCreates == {s \in Slots : req[s].op = "create"}
Room(n) == nextId + n + Cardinality(InFlightCreates) <= MaxRows + 1

Init ==
  /\ rows = [i \in {} |-> {}]
  /\ nextId = 1
  /\ catName \in [Cats -> Names]
  /\ users = Users
  /\ trail = [i \in RowIds |-> [last |-> "none", edited |-> FALSE]]
  /\ bulkAudit = FALSE
  /\ req = [s \in Slots |-> Idle]
  /\ phase = "serving"
  /\ cursor = 0
  /\ answers = {}

(***************************************************************************)
(* POST /transactions.  The digest is computed from the category name read *)
(* first; the probe, the insert and the lookup that follow are calls of    *)
(* their own.                                                              *)
(***************************************************************************)
StartCreate(s, u, k, t, c) ==
  /\ CanStart(s, "create") /\ u \in users /\ Room(1)
  /\ Begin(s, [op |-> "create", at |-> "probe", user |-> u, key |-> k,
               text |-> t, cat |-> c, hash |-> Digest(t, c)])
  /\ UNCHANGED <<rows, nextId, catName, users, trail, bulkAudit, phase, cursor, answers>>

ProbeHash(s) ==
  /\ req[s].op = "create" /\ req[s].at = "probe"
  /\ req' = [req EXCEPT ![s].at = "insert",
                        ![s].hash = IF LiveHolder(@) THEN NoHash ELSE @]
  /\ UNCHANGED <<rows, nextId, catName, users, trail, bulkAudit, phase, cursor, answers>>

\* the insert lost the race for the digest: once more, with a NULL one
InsertHashConflict(s) ==
  /\ req[s].op = "create" /\ req[s].at = "insert"
  /\ LiveHolder(req[s].hash)
  /\ req' = [req EXCEPT ![s].hash = NoHash]
  /\ UNCHANGED <<rows, nextId, catName, users, trail, bulkAudit, phase, cursor, answers>>

\* the submission was recorded before: answer it with the recorded row
InsertKeyConflict(s) ==
  /\ req[s].op = "create" /\ req[s].at = "insert"
  /\ KeyHolders(req[s].user, req[s].key) # {}
  /\ req' = [req EXCEPT ![s].at = "lookup"]
  /\ UNCHANGED <<rows, nextId, catName, users, trail, bulkAudit, phase, cursor, answers>>

\* mutant: the counter is not advanced with the insert
InsertRowCounterLost(s) ==
  LET r == req[s] IN
  /\ r.op = "create" /\ r.at = "insert"
  /\ ~LiveHolder(r.hash) /\ KeyHolders(r.user, r.key) = {} /\ r.user \in users
  /\ nextId \in RowIds
  /\ Put([i \in {nextId} |-> NewRow(r.user, r.key, r.text, r.cat, r.hash)])
  /\ Audit({nextId}, "insert")
  /\ Answer(r.user, r.key, nextId)
  /\ Finish(s)
  /\ UNCHANGED <<nextId, catName, users, bulkAudit, phase, cursor>>

InsertRow(s) ==
  LET r == req[s] IN
  /\ r.op = "create" /\ r.at = "insert"
  /\ ~LiveHolder(r.hash) /\ KeyHolders(r.user, r.key) = {} /\ r.user \in users
  /\ nextId \in RowIds
  /\ Put([i \in {nextId} |-> NewRow(r.user, r.key, r.text, r.cat, r.hash)])
  /\ nextId' = nextId + 1
  /\ Audit({nextId}, "insert")
  /\ Answer(r.user, r.key, nextId)
  /\ Finish(s)
  /\ UNCHANGED <<catName, users, bulkAudit, phase, cursor>>

\* the creator's account went away under the request: foreign key, 500
InsertOrphan(s) ==
  /\ req[s].op = "create" /\ req[s].at = "insert" /\ req[s].user \notin users
  /\ Finish(s)
  /\ UNCHANGED <<rows, nextId, catName, users, trail, bulkAudit, phase, cursor, answers>>

\* the holder of the key, tombstoned or not; none if it was purged meanwhile
LookupKey(s) ==
  LET r == req[s] IN
  /\ r.op = "create" /\ r.at = "lookup"
  /\ \/ \E i \in KeyHolders(r.user, r.key) : Answer(r.user, r.key, i)
     \/ KeyHolders(r.user, r.key) = {} /\ UNCHANGED answers
  /\ Finish(s)
  /\ UNCHANGED <<rows, nextId, catName, users, trail, bulkAudit, phase, cursor>>

(***************************************************************************)
(* POST /transactions/batch: keyless items, all in one database            *)
(* transaction; an item whose digest a live row or an earlier item holds   *)
(* is stored without one.                                                  *)
(***************************************************************************)
BatchHash(items, n) ==
  LET h == Digest(items[n].text, items[n].cat)
  IN IF LiveHolder(h) \/ \E m \in 1..(n - 1) : Digest(items[m].text, items[m].cat) = h
     THEN NoHash ELSE h

BatchCreate(u, items) ==
  LET n == Len(items)
      ids == nextId .. (nextId + n - 1)
  IN
  /\ u \in users /\ Room(n)
  /\ Put([i \in ids |->
            LET m == i - nextId + 1
            IN NewRow(u, NoKey, items[m].text, items[m].cat, BatchHash(items, m))])
  /\ nextId' = nextId + n
  /\ Audit(ids, "insert")
  /\ UNCHANGED <<catName, users, bulkAudit, req, phase, cursor, answers>>

(***************************************************************************)
(* PUT and DELETE /transactions/{id}: the handler reads the row and checks *)
(* existence, tombstone and ownership; the store call comes later.         *)
(***************************************************************************)
StartEdit(s, u, i, t, c) ==
  /\ CanStart(s, "edit") /\ u \in users
  /\ i \in Live /\ MayTouch(u, i)
  /\ Begin(s, [op |-> "edit", id |-> i, text |-> t, cat |-> c])
  /\ UNCHANGED <<rows, nextId, catName, users, trail, bulkAudit, phase, cursor, answers>>

\* TransactionStore.Update loads the row again but looks only at its absence
CommitEdit(s) ==
  LET r == req[s] IN
  /\ r.op = "edit"
  /\ \/ /\ r.id \in DOMAIN rows
        /\ Put([i \in {r.id} |-> Edited(rows[i], r.text, r.cat)])
        /\ Audit({r.id}, "update")
     \/ r.id \notin DOMAIN rows /\ UNCHANGED <<rows, trail>>
  /\ Finish(s)
  /\ UNCHANGED <<nextId, catName, users, bulkAudit, phase, cursor, answers>>

StartDelete(s, u, i) ==
  /\ CanStart(s, "delete") /\ u \in users
  /\ i \in Live /\ MayTouch(u, i)
  /\ Begin(s, [op |-> "delete", id |-> i])
  /\ UNCHANGED <<rows, nextId, catName, users, trail, bulkAudit, phase, cursor, answers>>

\* a row tombstoned meanwhile is left alone, with no second audit entry
CommitDelete(s) ==
  LET i == req[s].id IN
  /\ req[s].op = "delete"
  /\ \/ i \in Live /\ SetTrashed({i}, TRUE) /\ Audit({i}, "delete")
     \/ i \notin Live /\ UNCHANGED <<rows, trail>>
  /\ Finish(s)
  /\ UNCHANGED <<nextId, catName, users, bulkAudit, phase, cursor, answers>>

(***************************************************************************)
(* The bulk writers.  The id-listed ones check and write each row inside   *)
(* one transaction and audit it; the filter ones are one statement and     *)
(* leave a single summary entry under id 0.                                *)
(***************************************************************************)
Patches == [text: Texts] \cup [cat: Cats]
Patched(r, p) == IF p \in [text: Texts] THEN Edited(r, p.text, r.cat) ELSE Edited(r, r.text, p.cat)

\* mutant: the batch update forgets UpdateTx's tombstone check
BatchUpdateTrash(u, ids, p) ==
  LET hit == {i \in ids \cap DOMAIN rows : MayTouch(u, i)} IN
  /\ u \in users /\ hit # {}
  /\ Put([i \in hit |-> Patched(rows[i], p)])
  /\ Audit(hit, "update")
  /\ UNCHANGED <<nextId, catName, users, bulkAudit, req, phase, cursor, answers>>

BatchUpdate(u, ids, p) ==
  LET hit == {i \in ids \cap Live : MayTouch(u, i)} IN
  /\ u \in users /\ hit # {}
  /\ Put([i \in hit |-> Patched(rows[i], p)])
  /\ Audit(hit, "update")
  /\ UNCHANGED <<nextId, catName, users, bulkAudit, req, phase, cursor, answers>>

FilterUpdate(u, ids, p) ==
  LET hit == {i \in ids \cap Live : MayTouch(u, i)} IN
  /\ u \in users /\ hit # {}
  /\ Put([i \in hit |-> Patched(rows[i], p)])
  /\ UNCHANGED <<nextId, catName, users, trail, bulkAudit, req, phase, cursor, answers>>

BatchDelete(u, ids) ==
  LET hit == {i \in ids \cap Live : MayTouch(u, i)} IN
  /\ u \in users /\ hit # {}
  /\ SetTrashed(hit, TRUE)
  /\ Audit(hit, "delete")
  /\ UNCHANGED <<nextId, catName, users, bulkAudit, req, phase, cursor, answers>>

FilterDelete(u, ids) ==
  LET hit == {i \in ids \cap Live : MayTouch(u, i)} IN
  /\ u \in users /\ hit # {}
  /\ SetTrashed(hit, TRUE)
  /\ bulkAudit' = TRUE
  /\ UNCHANGED <<nextId, catName, users, trail, req, phase, cursor, answers>>

(***************************************************************************)
(* The trash.  Restoring re-arms a dormant digest, so it can lose to a     *)
(* live row, or to a row restored earlier in the same call.                *)
(***************************************************************************)
StartRestore(s, u, i) ==
  /\ CanStart(s, "restore") /\ u \in users
  /\ i \in Trash /\ MayTouch(u, i)
  /\ Begin(s, [op |-> "restore", id |-> i])
  /\ UNCHANGED <<rows, nextId, catName, users, trail, bulkAudit, phase, cursor, answers>>

\* mutant: restoring ignores the digest index
CommitRestoreUnchecked(s) ==
  LET i == req[s].id IN
  /\ req[s].op = "restore"
  /\ \/ i \in Trash /\ SetTrashed({i}, FALSE) /\ Audit({i}, "restore")
     \/ i \notin Trash /\ UNCHANGED <<rows, trail>>
  /\ Finish(s)
  /\ UNCHANGED <<nextId, catName, users, bulkAudit, phase, cursor, answers>>

CommitRestore(s) ==
  LET i == req[s].id
      ok == i \in Trash /\ ~LiveHolder(rows[i].hash)
  IN
  /\ req[s].op = "restore"
  /\ \/ ok /\ SetTrashed({i}, FALSE) /\ Audit({i}, "restore")
     \/ ~ok /\ UNCHANGED <<rows, trail>>
  /\ Finish(s)
  /\ UNCHANGED <<nextId, catName, users, bulkAudit, phase, cursor, answers>>

SameHash(i, j) == rows[i].hash = rows[j].hash /\ rows[i].hash # NoHash

\* what a pass over the trashed ids of `ids`, in some order, brings back
Restorable(ids, back) ==
  LET free == {i \in ids \cap Trash : ~LiveHolder(rows[i].hash)} IN
  /\ back \subseteq free
  /\ \A i, j \in back : i # j => ~SameHash(i, j)
  /\ \A i \in free \ back : \E j \in back : SameHash(i, j)

BatchRestore(u, ids) ==
  /\ u \in users
  /\ \E back \in SUBSET {i \in ids \cap Trash : MayTouch(u, i)} :
       /\ back # {}
       /\ Restorable({i \in ids \cap DOMAIN rows : MayTouch(u, i)}, back)
       /\ SetTrashed(back, FALSE)
       /\ Audit(back, "restore")
  /\ UNCHANGED <<nextId, catName, users, bulkAudit, req, phase, cursor, answers>>

\* the ids are listed before the transaction that restores them begins
StartRestoreAll(s, u) ==
  /\ CanStart(s, "restoreAll") /\ u \in users \cap Admins
  /\ Trash # {}
  /\ Begin(s, [op |-> "restoreAll", ids |-> Trash])
  /\ UNCHANGED <<rows, nextId, catName, users, trail, bulkAudit, phase, cursor, answers>>

\* mutant: restore-all writes the rows without their audit entries
CommitRestoreAllUnaudited(s) ==
  /\ req[s].op = "restoreAll"
  /\ \E back \in SUBSET (req[s].ids \cap Trash) :
       /\ Restorable(req[s].ids, back)
       /\ SetTrashed(back, FALSE)
  /\ Finish(s)
  /\ UNCHANGED <<nextId, catName, users, trail, bulkAudit, phase, cursor, answers>>

\* ascending ids: of two rows with one digest the older comes back
CommitRestoreAll(s) ==
  /\ req[s].op = "restoreAll"
  /\ \E back \in SUBSET (req[s].ids \cap Trash) :
       /\ Restorable(req[s].ids, back)
       /\ \A i \in back, j \in (req[s].ids \cap Trash) : SameHash(i, j) => i <= j
       /\ SetTrashed(back, FALSE)
       /\ Audit(back, "restore")
  /\ Finish(s)
  /\ UNCHANGED <<nextId, catName, users, bulkAudit, phase, cursor, answers>>

StartPurge(s, u, i) ==
  /\ CanStart(s, "purge") /\ u \in users \cap Admins
  /\ i \in Trash
  /\ Begin(s, [op |-> "purge", id |-> i])
  /\ UNCHANGED <<rows, nextId, catName, users, trail, bulkAudit, phase, cursor, answers>>

\* mutant: the purge statement lost its deleted_at guard
CommitPurgeLive(s) ==
  /\ req[s].op = "purge"
  /\ Drop({req[s].id})
  /\ Finish(s)
  /\ UNCHANGED <<nextId, catName, users, trail, bulkAudit, phase, cursor, answers>>

\* mutant: a plain INTEGER PRIMARY KEY, which reuses the largest id once purged
CommitPurgeFreesId(s) ==
  /\ req[s].op = "purge"
  /\ Drop({req[s].id} \cap Trash)
  /\ nextId' = IF req[s].id \in Trash /\ req[s].id + 1 = nextId THEN req[s].id ELSE nextId
  /\ Finish(s)
  /\ UNCHANGED <<catName, users, trail, bulkAudit, phase, cursor, answers>>

\* a row restored meanwhile is refused; a purge leaves no audit entry
CommitPurge(s) ==
  /\ req[s].op = "purge"
  /\ Drop({req[s].id} \cap Trash)
  /\ Finish(s)
  /\ UNCHANGED <<nextId, catName, users, trail, bulkAudit, phase, cursor, answers>>

PurgeAll(u) ==
  /\ u \in users \cap Admins /\ Trash # {}
  /\ Drop(Trash)
  /\ UNCHANGED <<nextId, catName, users, trail, bulkAudit, req, phase, cursor, answers>>

(***************************************************************************)
(* Neighbours that write transactions: a category rename drops the digests *)
(* filed under the old name, tombstoned rows included; deleting an account *)
(* counts its rows first and later cascades over whatever it then owns.    *)
(***************************************************************************)
\* mutant: the rename clears the digests of live rows only
RenameCategoryLive(u, c, n) ==
  /\ u \in users \cap Admins
  /\ catName[c] # n
  /\ catName' = [catName EXCEPT ![c] = n]
  /\ Put([i \in {j \in Live : rows[j].cat = c} |-> [rows[i] EXCEPT !.hash = NoHash]])
  /\ UNCHANGED <<nextId, users, trail, bulkAudit, req, phase, cursor, answers>>

RenameCategory(u, c, n) ==
  /\ u \in users \cap Admins
  /\ catName[c] # n
  /\ catName' = [catName EXCEPT ![c] = n]
  /\ Put([i \in {j \in DOMAIN rows : rows[j].cat = c} |-> [rows[i] EXCEPT !.hash = NoHash]])
  /\ UNCHANGED <<nextId, users, trail, bulkAudit, req, phase, cursor, answers>>

\* mutant: an account is deleted without counting its rows
StartDeleteUserUncounted(s, u, v) ==
  /\ CanStart(s, "deleteUser") /\ u \in users \cap Admins
  /\ v \in users \ {u}
  /\ Begin(s, [op |-> "deleteUser", target |-> v])
  /\ UNCHANGED <<rows, nextId, catName, users, trail, bulkAudit, phase, cursor, answers>>

StartDeleteUser(s, u, v) ==
  /\ CanStart(s, "deleteUser") /\ u \in users \cap Admins
  /\ v \in users \ {u}
  /\ \A i \in DOMAIN rows : rows[i].owner # v
  /\ Begin(s, [op |-> "deleteUser", target |-> v])
  /\ UNCHANGED <<rows, nextId, catName, users, trail, bulkAudit, phase, cursor, answers>>

CommitDeleteUser(s) ==
  LET v == req[s].target IN
  /\ req[s].op = "deleteUser"
  /\ users' = users \ {v}
  /\ Drop({i \in DOMAIN rows : rows[i].owner = v})
  /\ Finish(s)
  /\ UNCHANGED <<nextId, catName, trail, bulkAudit, phase, cursor, answers>>

(***************************************************************************)
(* A crash loses the handlers in flight, nothing that was committed.  The  *)
(* next boot walks the rows without a digest in id order, tombstoned ones  *)
(* included, each write on its own, before it serves.                      *)
(***************************************************************************)
Crash ==
  /\ "crash" \in Kinds
  /\ phase' = "booting"
  /\ cursor' = 0
  /\ req' = [s \in Slots |-> Idle]
  /\ UNCHANGED <<rows, nextId, catName, users, trail, bulkAudit, answers>>

Unhashed == {i \in DOMAIN rows : i > cursor /\ rows[i].hash = NoHash}

\* mutant: a tombstone holding the digest keeps a live row from being anchored
BackfillRowTrashBlocks ==
  /\ phase = "booting"
  /\ \E i \in Unhashed :
       LET h == Digest(rows[i].text, rows[i].cat) IN
       /\ \A j \in Unhashed : i <= j
       /\ IF \A j \in DOMAIN rows : rows[j].hash # h
          THEN Put([j \in {i} |-> [rows[j] EXCEPT !.hash = h]])
          ELSE UNCHANGED rows
       /\ cursor' = i
  /\ UNCHANGED <<nextId, catName, users, trail, bulkAudit, req, phase, answers>>

BackfillRow ==
  /\ phase = "booting"
  /\ \E i \in Unhashed :
       LET h == Digest(rows[i].text, rows[i].cat) IN
       /\ \A j \in Unhashed : i <= j
       /\ IF rows[i].trashed \/ ~LiveHolder(h)
          THEN Put([j \in {i} |-> [rows[j] EXCEPT !.hash = h]])
          ELSE UNCHANGED rows
       /\ cursor' = i
  /\ UNCHANGED <<nextId, catName, users, trail, bulkAudit, req, phase, answers>>

BackfillDone ==
  /\ phase = "booting" /\ Unhashed = {}
  /\ phase' = "serving"
  /\ cursor' = 0
  /\ UNCHANGED <<rows, nextId, catName, users, trail, bulkAudit, req, answers>>

(***************************************************************************)
(* The single-call handlers hold a slot only for the length of their step. *)
(***************************************************************************)
SomeSlot(kind) == \E s \in Slots : CanStart(s, kind)
Items == UNION {[1..n -> [text: Texts, cat: Cats]] : n \in 1..MaxBatch}

BulkWrite ==
  \/ SomeSlot("batchCreate") /\ \E u \in Users, items \in Items : BatchCreate(u, items)
  \/ SomeSlot("batchUpdate")
       /\ \E u \in Users, ids \in SUBSET RowIds, p \in Patches : BatchUpdate(u, ids, p)
  \/ SomeSlot("filterUpdate")
       /\ \E u \in Users, ids \in SUBSET RowIds, p \in Patches : FilterUpdate(u, ids, p)
  \/ SomeSlot("batchDelete") /\ \E u \in Users, ids \in SUBSET RowIds : BatchDelete(u, ids)
  \/ SomeSlot("filterDelete") /\ \E u \in Users, ids \in SUBSET RowIds : FilterDelete(u, ids)
  \/ SomeSlot("batchRestore") /\ \E u \in Users, ids \in SUBSET RowIds : BatchRestore(u, ids)
  \/ SomeSlot("purgeAll") /\ \E u \in Users : PurgeAll(u)
  \/ SomeSlot("rename") /\ \E u \in Users, c \in Cats, n \in Names : RenameCategory(u, c, n)

Arrive(s) ==
  \E u \in Users :
    \/ \E k \in Keys \cup {NoKey}, t \in Texts, c \in Cats : StartCreate(s, u, k, t, c)
    \/ \E i \in RowIds, t \in Texts, c \in Cats : StartEdit(s, u, i, t, c)
    \/ \E i \in RowIds : StartDelete(s, u, i) \/ StartRestore(s, u, i) \/ StartPurge(s, u, i)
    \/ StartRestoreAll(s, u)
    \/ \E v \in Users : StartDeleteUser(s, u, v)

Proceed(s) ==
  \/ ProbeHash(s) \/ InsertHashConflict(s) \/ InsertKeyConflict(s) \/ InsertRow(s)
  \/ InsertOrphan(s) \/ LookupKey(s)
  \/ CommitEdit(s) \/ CommitDelete(s) \/ CommitRestore(s) \/ CommitRestoreAll(s)
  \/ CommitPurge(s) \/ CommitDeleteUser(s)

Next ==
  \/ \E s \in Slots : Arrive(s) \/ Proceed(s)
  \/ BulkWrite
  \/ Crash \/ BackfillRow \/ BackfillDone

Spec == Init /\ [][Next]_vars

(***************************************************************************)
(* Correctness.                                                            *)
(***************************************************************************)
\* Every variable has its type: the table only holds rows of the schema under
\* ids the counter handed out, and a handler in flight is one of the requests.
TypeOK ==
  /\ DOMAIN rows \subseteq RowIds /\ rows \in [DOMAIN rows -> Row]
  /\ nextId \in 1..(MaxRows + 1) /\ \A i \in DOMAIN rows : i < nextId
  /\ catName \in [Cats -> Names]
  /\ users \subseteq Users
  /\ trail \in [RowIds -> Trails]
  /\ bulkAudit \in BOOLEAN
  /\ req \in [Slots -> Requests]
  /\ phase \in {"serving", "booting"}
  /\ cursor \in 0..MaxRows
  /\ answers \subseteq [user: Users, key: Keys, id: RowIds]

\* Retry protection (migration 017): every 201 a keyed create ever got names a
\* row of that very submission, and all the answers to one submission name the
\* same row for as long as it exists -- whatever edits, trashing, restores and
\* concurrent retries happened in between.
ExactlyOnce ==
  \A a, b \in answers :
    /\ a.id \in DOMAIN rows => rows[a.id].owner = a.user /\ rows[a.id].key = a.key
    /\ (a.user = b.user /\ a.key = b.key /\ {a.id, b.id} \subseteq DOMAIN rows) => a.id = b.id

\* Import dedupe (migration 008): two live rows never hold one digest, through
\* racing creates, edits, restores of dormant digests and the boot backfill.
LiveHashUnique == \A i, j \in Live : SameHash(i, j) => i = j

\* queries.sql UpdateTransaction: a row never claims the identity of content it
\* no longer holds.
HashTruthful ==
  \A i \in DOMAIN rows : rows[i].hash # NoHash => rows[i].hash = Digest(rows[i].text, rows[i].cat)

\* The audit table tells whether a row that is there is live: its last lifecycle entry
\* is a delete exactly when it lies in the trash; once a filter delete has left its one
\* summary entry, trashed rows are not vouched for.
AuditTellsState ==
  \A i \in DOMAIN rows :
    /\ rows[i].trashed => trail[i].last = "delete" \/ bulkAudit
    /\ ~rows[i].trashed => trail[i].last \in {"insert", "restore"}

\* handleUpdateTransaction: a row deleted under an edit is not edited, so no
\* update entry follows the delete entry of a trashed row.
NoEditInTrash == \A i \in RowIds : ~(trail[i].last = "delete" /\ trail[i].edited)

\* queries.sql PurgeTransaction: the only way a row disappears for good is out
\* of the trash.
OnlyTrashIsDestroyed ==
  [][\A i \in DOMAIN rows \ DOMAIN rows' : rows[i].trashed]_vars

\* AUTOINCREMENT: an id is never handed out twice, so a handler (or a client's
\* undo) that holds the id of a purged row can never hit another one.
IdsAreFresh ==
  [][\A i \in DOMAIN rows' \ DOMAIN rows : trail[i].last = "none"]_vars

\* main.go boot backfill: once the server serves again, importing the content
\* of any live row would find a live row to deduplicate against.
BootAnchorsLedger ==
  [][phase = "booting" /\ phase' = "serving" =>
       \A i \in Live : LiveHolder(Digest(rows[i].text, rows[i].cat))]_vars

(***************************************************************************)
(* The ledger implements the submission log clients rely on.               *)
(***************************************************************************)
Entry(u, k) ==
  LET held == KeyHolders(u, k) IN
  IF held = {} THEN "absent"
  ELSE IF Cardinality(held) > 1 THEN "doubled"
  ELSE IF held \subseteq Live THEN "live" ELSE "trashed"

Log == INSTANCE Submissions WITH
         accounts <- users,
         entry <- [s \in Users \X Keys |-> Entry(s[1], s[2])],
         answered <- {<<a.user, a.key>> : a \in answers}

\* Each keyed submission is recorded at most once, answered only once recorded,
\* and destroyed only from the trash or with the account that made it.
ImplementsSubmissions == Log!Spec
=============================================================================
