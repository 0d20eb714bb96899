--------------------------- MODULE ImportSession ---------------------------
(***************************************************************************)
(* The import card of the Settings page and the import session it edits.   *)
(* The server parses an uploaded sheet into a session in memory; the card  *)
(* shows a preview of it, sends one PATCH at a time for the edits made in  *)
(* the table (useImportSession.ts, a promise lane), and confirms.  The     *)
(* session id and the category decisions are kept in localStorage, so that *)
(* a reload, or a return to the page, resumes the session.  What an        *)
(* earlier mount of the card had under way runs on unheard.                *)
(*                                                                         *)
(* A row's content (date, description, amount) is one value of             *)
(* ImportValues: rows with equal content have equal content hashes.        *)
(* ForeignRows quote a currency that is configured only later, UnfiledRows *)
(* name a category that does not exist.                                    *)
(***************************************************************************)
EXTENDS Naturals, Sequences, FiniteSets

CONSTANTS ImportRowCount,  \* rows of the sheet
          ImportValues,    \* contents a row can have
          ImportFile,      \* the sheet: the content of each row
          ForeignRows,     \* rows whose money needs the configured rate
          UnfiledRows,     \* rows that need a category decision
          MaxUploads,      \* sessions, which name the previews
          MaxActs,         \* uploads, edits, confirms and cancels of the user
          MaxDisturbances  \* lost or refused requests, expiries, reloads, and
                           \* what other pages record or configure

ImportRows == 1..ImportRowCount

ASSUME ImportAssumption ==
    /\ ImportRowCount \in Nat \ {0}
    /\ ImportFile \in [ImportRows -> ImportValues]
    /\ ForeignRows \subseteq ImportRows
    /\ UnfiledRows \subseteq ImportRows
    /\ {MaxUploads, MaxActs, MaxDisturbances} \subseteq Nat

VARIABLES
    sessions,       \* server: the import sessions, by id
    recorded,       \* server: how many live transactions have each content
    rateKnown,      \* server: the currency of ForeignRows is configured
    preview,        \* what the table shows
    importStep,     \* "upload", "preview" or "done"
    pendingPatchCount,
    patchQueue,     \* the lane: jobs in order, the first may be at the server
    burst,          \* rows a bulk action has still to patch
    decided,        \* the name of UnfiledRows has a destination
    rateSeen,       \* the currency list the card last saw
    storedImport,   \* localStorage: the session to resume
    storedDecision, \* localStorage: the decisions and their session
    resume, upload, confirms, cancelling,   \* requests under way
    leftLanes,      \* what earlier mounts had in their lanes, each still served in order
    leftEnds,       \* what else they may yet write: the stored session, or 0, and a session dropped
    importBudget,   \* acts and disturbances so far
    importNotes     \* history: hazards this behaviour has met

serverVars  == <<sessions, recorded, rateKnown>>
tableVars   == <<preview, importStep, pendingPatchCount, patchQueue, burst>>
storageVars == <<storedImport, storedDecision>>
requestVars == <<resume, upload, confirms, cancelling>>
backgroundVars == <<rateSeen, leftLanes, leftEnds>>
importVars  == <<serverVars, tableVars, decided, backgroundVars, storageVars,
                 requestVars, importBudget, importNotes>>

SessionIds == 1..MaxUploads
RowState   == [value : ImportValues, skip : BOOLEAN]
Preview    == [id : 0..MaxUploads, rows : [ImportRows -> RowState],
               groups : SUBSET SUBSET ImportRows, errors : SUBSET ImportRows,
               unfiled : SUBSET ImportRows]
FreshRows  == [r \in ImportRows |-> [value |-> ImportFile[r], skip |-> FALSE]]
NoPreview  == [id |-> 0, rows |-> FreshRows, groups |-> {}, errors |-> {}, unfiled |-> {}]
Idle       == [phase |-> "none", id |-> 0, ok |-> FALSE, fresh |-> NoPreview]
NoDecision == [id |-> 0, decided |-> FALSE]
End(to, drop) == [mount |-> importBudget.disturbances, to |-> to, drop |-> drop]

Act == /\ importBudget.acts < MaxActs
       /\ importBudget' = [importBudget EXCEPT !.acts = @ + 1]
Disturbance == /\ importBudget.disturbances < MaxDisturbances
               /\ importBudget' = [importBudget EXCEPT !.disturbances = @ + 1]
NoSpend == UNCHANGED importBudget

----------------------------------------------------------------------------
(* The server's view of a session.                                         *)

Storable(rows, r) == ~rows[r].skip /\ (r \in ForeignRows => rateKnown)

MoneyErrors(rows) == {r \in ImportRows \cap ForeignRows : ~rows[r].skip /\ ~rateKnown}

UnresolvedCategories(rows, filed) ==
    IF filed THEN {} ELSE {r \in UnfiledRows : Storable(rows, r)}

\* Rows that resolve to a content, grouped with the rows of the same content
\* and with the live transactions that already have it.
CollisionGroups(rows, filed) ==
    LET hashed == {r \in ImportRows : Storable(rows, r) /\ (r \in UnfiledRows => filed)}
        of(v)  == {r \in hashed : rows[r].value = v}
    IN  {of(v) : v \in {w \in ImportValues : \/ Cardinality(of(w)) > 1
                                             \/ of(w) # {} /\ recorded[w] > 0}}

BuildPreview(id, rows) ==
    [id |-> id, rows |-> rows, groups |-> CollisionGroups(rows, FALSE),
     errors |-> MoneyErrors(rows), unfiled |-> UnresolvedCategories(rows, FALSE)]

Live(id) == id \in DOMAIN sessions /\ sessions[id].live

Drop(id) == IF Live(id) THEN [sessions EXCEPT ![id].live = FALSE] ELSE sessions

----------------------------------------------------------------------------
(* What the card derives from its state.                                   *)

UnresolvedCount == Cardinality({g \in preview.groups : \E r \in g : ~preview.rows[r].skip})

BlockedRows == {r \in preview.errors : ~preview.rows[r].skip}

\* mutant: Import does not wait for the edits in the lane
CanImportWhilePending ==
    /\ preview.id # 0
    /\ UnresolvedCount = 0
    /\ BlockedRows = {}
    /\ preview.unfiled = {} \/ decided

CanImport ==
    /\ preview.id # 0
    /\ UnresolvedCount = 0
    /\ BlockedRows = {}
    /\ preview.unfiled = {} \/ decided
    /\ pendingPatchCount = 0

PatchesIn(queue) == {i \in DOMAIN queue : queue[i].kind = "patch"}

\* Showing a session runs the effects that restore its stored decisions and
\* store them again.
Show(fresh) ==
    LET kept == storedDecision.id = fresh.id /\ storedDecision.decided
    IN  /\ preview' = fresh
        /\ importStep' = "preview"
        /\ decided' = kept
        /\ storedDecision' = [id |-> fresh.id, decided |-> kept]

Clear ==
    /\ preview' = NoPreview
    /\ importStep' = "upload"
    /\ pendingPatchCount' = 0
    /\ decided' = FALSE
    /\ storedDecision' = NoDecision
    /\ importNotes' = IF PatchesIn(patchQueue) # {} THEN importNotes \cup {"zeroed"}
                                                      ELSE importNotes

----------------------------------------------------------------------------
(* Upload and resume.                                                      *)

ImportInit ==
    /\ sessions = <<>> /\ recorded = [v \in ImportValues |-> 0] /\ rateKnown = FALSE
    /\ preview = NoPreview /\ importStep = "upload"
    /\ pendingPatchCount = 0 /\ patchQueue = <<>> /\ burst = <<>>
    /\ decided = FALSE /\ rateSeen = FALSE /\ leftLanes = {} /\ leftEnds = {}
    /\ storedImport = 0 /\ storedDecision = NoDecision
    /\ resume = Idle /\ upload = Idle /\ confirms = <<>> /\ cancelling = Idle
    /\ importBudget = [acts |-> 0, disturbances |-> 0]
    /\ importNotes = {}

UploadFile ==
    /\ importStep = "upload" /\ upload.phase = "none" /\ Len(sessions) < MaxUploads
    /\ Act
    /\ upload' = [Idle EXCEPT !.phase = "sent"]
    /\ UNCHANGED <<serverVars, tableVars, decided, backgroundVars, storageVars, resume,
                   confirms, cancelling, importNotes>>

ServeUpload ==
    /\ upload.phase = "sent"
    /\ sessions' = Append(sessions, [live |-> TRUE, rows |-> FreshRows])
    /\ LET id == Len(sessions) + 1
       IN  upload' = [phase |-> "answered", id |-> id, ok |-> TRUE,
                      fresh |-> BuildPreview(id, FreshRows)]
    /\ UNCHANGED <<recorded, rateKnown, tableVars, decided, backgroundVars, storageVars,
                   resume, confirms, cancelling, importBudget, importNotes>>

UploadAnswer ==
    /\ upload.phase = "answered"
    /\ Show(upload.fresh)
    /\ storedImport' = upload.id
    /\ upload' = Idle
    /\ importNotes' = IF \/ preview.id # 0 \/ PatchesIn(patchQueue) # {} \/ confirms # <<>>
                         \/ resume.phase # "none" \/ cancelling.phase # "none"
                      THEN importNotes \cup {"raced"} ELSE importNotes
    /\ UNCHANGED <<serverVars, pendingPatchCount, patchQueue, burst, backgroundVars, resume,
                   confirms, cancelling, importBudget>>

\* The card mounts with nothing but localStorage.
Remount ==
    /\ preview' = NoPreview /\ importStep' = "upload"
    /\ pendingPatchCount' = 0 /\ patchQueue' = <<>> /\ burst' = <<>>
    /\ decided' = FALSE /\ upload' = Idle /\ cancelling' = Idle
    /\ resume' = IF storedImport = 0 THEN Idle
                 ELSE [Idle EXCEPT !.phase = "sent", !.id = storedImport]

\* The jobs of the lane that are not settled, with what a bulk action has still to
\* put in it.
OwnLane ==
    LET queued == patchQueue \o burst
        jobs == IF patchQueue # <<>> /\ patchQueue[1].served THEN Tail(queued) ELSE queued
    IN  IF jobs = <<>> THEN {} ELSE {[mount |-> importBudget.disturbances, jobs |-> jobs]}

Unheard(confirm) == [confirm EXCEPT !.mine = FALSE, !.heard = FALSE]

\* The page is loaded again: the scripts are gone, and of each lane only the
\* request that was out may still be served.  The server still completes the
\* confirms it received.
ReloadCard ==
    /\ Disturbance /\ Remount
    /\ rateSeen' = rateKnown
    /\ leftLanes' = {[lane EXCEPT !.jobs = <<Head(@)>>] : lane \in leftLanes \cup OwnLane}
    /\ leftEnds' = {}
    /\ confirms' = [i \in DOMAIN confirms |-> Unheard(confirms[i])]
    /\ UNCHANGED <<serverVars, storageVars, importNotes>>

\* What the mount that is left may yet write when a request of its own ends: an
\* upload stores its session, a cancel and a resume that failed forget theirs.
OwnEnds ==
    (IF upload.phase = "answered" THEN {End(upload.id, 0)} ELSE {})
    \cup (IF cancelling.phase = "sent" THEN {End(0, cancelling.id)} ELSE {})
    \cup (IF cancelling.phase = "answered" \/ (resume.phase # "none" /\ ~resume.ok)
          THEN {End(0, 0)} ELSE {})

\* The user leaves the page and comes back: the old mount's lane, its bulk action
\* and its requests run on, and only their answers are not shown.  (An upload under
\* way is served before the leave: nothing else depends on when.)
ReturnToCard ==
    /\ upload.phase # "sent"
    /\ Disturbance /\ Remount
    /\ rateSeen' \in {rateSeen, rateKnown}
    /\ leftLanes' = leftLanes \cup OwnLane
    /\ leftEnds' = leftEnds \cup OwnEnds
    /\ confirms' = [i \in DOMAIN confirms |-> [confirms[i] EXCEPT !.mine = FALSE]]
    /\ UNCHANGED <<serverVars, storageVars, importNotes>>

ServeResume ==
    /\ resume.phase = "sent"
    /\ \/ resume' = [resume EXCEPT !.phase = "answered", !.ok = Live(resume.id),
                     !.fresh = IF Live(resume.id)
                               THEN BuildPreview(resume.id, sessions[resume.id].rows)
                               ELSE NoPreview]
          /\ NoSpend
       \/ resume' = [resume EXCEPT !.phase = "answered"] /\ Disturbance
    /\ UNCHANGED <<serverVars, tableVars, decided, backgroundVars, storageVars, upload,
                   confirms, cancelling, importNotes>>

\* A session that cannot be resumed is forgotten together with its decisions.
ResumeAnswer ==
    /\ resume.phase = "answered"
    /\ IF resume.ok
       THEN Show(resume.fresh) /\ UNCHANGED storedImport
       ELSE /\ storedImport' = 0 /\ storedDecision' = NoDecision
            /\ UNCHANGED <<preview, importStep, decided>>
    /\ resume' = Idle
    /\ UNCHANGED <<serverVars, pendingPatchCount, patchQueue, burst, backgroundVars, upload,
                   confirms, cancelling, importBudget, importNotes>>

----------------------------------------------------------------------------
(* The table's edits and the lane.                                         *)

\* The rows of the job's session with its edit in them.
Patched(job) ==
    [sessions[job.id].rows EXCEPT ![job.row] =
        IF job.field = "value" THEN [@ EXCEPT !.value = job.to.value]
                               ELSE [@ EXCEPT !.skip = job.to.skip]]

\* field: "value" and "skip" are the user's edits, "bulk" a skip of a bulk action
PatchJob(field, r, to) ==
    [kind |-> "patch", field |-> field, id |-> preview.id, row |-> r, to |-> to,
     served |-> FALSE, ok |-> FALSE, fresh |-> NoPreview]

Enqueue(job) ==
    /\ patchQueue' = Append(patchQueue, job)
    /\ pendingPatchCount' = pendingPatchCount + 1
    /\ confirms' = [i \in DOMAIN confirms |-> [confirms[i] EXCEPT !.edited = TRUE]]

\* Enter, Tab and blur commit a cell; Escape drops the draft and sends nothing.
CommitEdit(r) ==
    /\ importStep = "preview" /\ preview.id # 0
    /\ \E v \in ImportValues \ {preview.rows[r].value} :
          Enqueue(PatchJob("value", r, [preview.rows[r] EXCEPT !.value = v]))
    /\ Act
    /\ UNCHANGED <<serverVars, preview, importStep, burst, decided, backgroundVars, storageVars,
                   resume, upload, cancelling, importNotes>>

ToggleSkip(r) ==
    /\ importStep = "preview" /\ preview.id # 0
    /\ Enqueue(PatchJob("skip", r, [preview.rows[r] EXCEPT !.skip = ~@]))
    /\ Act
    /\ UNCHANGED <<serverVars, preview, importStep, burst, decided, backgroundVars, storageVars,
                   resume, upload, cancelling, importNotes>>

\* The rows each bar of the table offers to skip at once.
SkipBars == preview.groups \cup ({BlockedRows} \ {{}})

\* The bars' buttons are off while an edit is in the lane; one bulk action at a time.
BulkEnabled == importStep = "preview" /\ pendingPatchCount = 0 /\ burst = <<>>

InTableOrder(bar) ==
    {rows \in [1..Cardinality(bar) -> bar] : \A i, j \in DOMAIN rows : i < j => rows[i] < rows[j]}

\* One PATCH, and the next when it is settled, whatever its outcome.
SkipAllRows ==
    /\ BulkEnabled
    /\ \E bar \in SkipBars : \E rows \in InTableOrder(bar) :
          LET jobs == [i \in DOMAIN rows |->
                          PatchJob("bulk", rows[i], [preview.rows[rows[i]] EXCEPT !.skip = TRUE])]
          IN  Enqueue(Head(jobs)) /\ burst' = Tail(jobs)
    /\ Act
    /\ UNCHANGED <<serverVars, preview, importStep, decided, backgroundVars, storageVars,
                   resume, upload, cancelling, importNotes>>

\* A change of the currency list rebuilds the preview, through the lane.
RefreshSession ==
    /\ rateSeen # rateKnown
    /\ rateSeen' = rateKnown
    /\ patchQueue' = IF preview.id = 0 THEN patchQueue
                     ELSE Append(patchQueue, [PatchJob("value", 1, preview.rows[1]) EXCEPT !.kind = "refresh"])
    /\ UNCHANGED <<serverVars, preview, importStep, pendingPatchCount, burst, decided,
                   leftLanes, leftEnds, storageVars, requestVars, importBudget, importNotes>>

\* The lane sends a job when the one before it is settled.
Sendable(i) == i = 1

ServePatch(i) ==
    LET job == patchQueue[i]
        Answer(ok, fresh) ==
            patchQueue' = [patchQueue EXCEPT ![i].served = TRUE, ![i].ok = ok, ![i].fresh = fresh]
    IN  /\ job.kind = "patch" /\ ~job.served
        /\ \/ /\ Live(job.id)
              /\ sessions' = [sessions EXCEPT ![job.id].rows = Patched(job)]
              /\ Answer(TRUE, BuildPreview(job.id, Patched(job))) /\ NoSpend
              /\ UNCHANGED importNotes
           \/ /\ Live(job.id)   \* applied, the answer lost or the rebuild failed
              /\ sessions' = [sessions EXCEPT ![job.id].rows = Patched(job)]
              /\ Answer(FALSE, NoPreview) /\ Disturbance
              /\ importNotes' = importNotes \cup {"lostAnswer"}
           \/ /\ Live(job.id)   \* refused or never received
              /\ Answer(FALSE, NoPreview) /\ Disturbance
              /\ UNCHANGED <<sessions, importNotes>>
           \/ /\ ~Live(job.id)
              /\ Answer(FALSE, NoPreview) /\ NoSpend
              /\ UNCHANGED <<sessions, importNotes>>
        /\ UNCHANGED <<recorded, rateKnown, preview, importStep, pendingPatchCount, burst,
                       decided, backgroundVars, storageVars, requestVars>>

ServeRefresh(i) ==
    LET job == patchQueue[i]
    IN  /\ job.kind = "refresh" /\ ~job.served
        /\ patchQueue' = [patchQueue EXCEPT ![i].served = TRUE, ![i].ok = Live(job.id),
              ![i].fresh = IF Live(job.id) THEN BuildPreview(job.id, sessions[job.id].rows)
                                           ELSE NoPreview]
        /\ UNCHANGED <<serverVars, preview, importStep, pendingPatchCount, burst, decided,
                       backgroundVars, storageVars, requestVars, importBudget, importNotes>>

LaneServe == \E i \in DOMAIN patchQueue : Sendable(i) /\ (ServePatch(i) \/ ServeRefresh(i))

\* Only the patched row is taken from the answer; everything else about the
\* session (groups, errors, categories) is.
ApplyResponse(job) ==
    preview' = IF preview.id = 0 THEN job.fresh
               ELSE [job.fresh EXCEPT !.rows = [preview.rows EXCEPT ![job.row] = job.fresh.rows[job.row]]]

ApplyRefresh(job) ==
    preview' = IF preview.id # job.id THEN preview ELSE job.fresh

Pop(i, queue) == SubSeq(queue, 1, i - 1) \o SubSeq(queue, i + 1, Len(queue))

LaneAnswer ==
    \E i \in DOMAIN patchQueue :
        LET job == patchQueue[i]
            rest == Pop(i, patchQueue)
            next == job.field = "bulk" /\ burst # <<>>
        IN  /\ job.served
            /\ IF ~job.ok THEN UNCHANGED preview
               ELSE IF job.kind = "patch" THEN ApplyResponse(job) ELSE ApplyRefresh(job)
            /\ patchQueue' = IF next THEN Append(rest, Head(burst)) ELSE rest
            /\ burst' = IF next THEN Tail(burst) ELSE burst
            /\ pendingPatchCount' =
                  LET n == IF next THEN pendingPatchCount + 1 ELSE pendingPatchCount
                  IN  IF job.kind = "refresh" THEN n ELSE IF n = 0 THEN 0 ELSE n - 1
            /\ confirms' = IF next THEN [k \in DOMAIN confirms |-> [confirms[k] EXCEPT !.edited = TRUE]]
                                   ELSE confirms
            /\ UNCHANGED <<serverVars, importStep, decided, backgroundVars, storageVars, resume,
                           upload, cancelling, importBudget, importNotes>>

\* Nothing of the card's present mount depends on the session: it is not shown,
\* not read, and nothing about it is under way.
Unread(id) ==
    /\ preview.id # id /\ ~(resume.phase = "answered" /\ resume.id = id)
    /\ \A i \in DOMAIN patchQueue : patchQueue[i].id # id
    /\ \A i \in DOMAIN confirms : confirms[i].phase = "sent" => confirms[i].id # id

\* The next job of a lane left behind: its edit is applied although nobody hears
\* the answer, or it was served already, is a refresh, fails or never arrives.
LeftServe ==
    \E lane \in leftLanes :
        LET job  == Head(lane.jobs)
            rest == Tail(lane.jobs)
        IN  /\ leftLanes' = (leftLanes \ {lane})
                            \cup (IF rest = <<>> THEN {} ELSE {[lane EXCEPT !.jobs = rest]})
            /\ \/ /\ job.kind = "patch" /\ ~job.served /\ Live(job.id)
                  /\ sessions' = [sessions EXCEPT ![job.id].rows = Patched(job)]
                  /\ importNotes' = IF Unread(job.id) THEN importNotes ELSE importNotes \cup {"late"}
               \/ UNCHANGED <<sessions, importNotes>>
            /\ UNCHANGED <<recorded, rateKnown, tableVars, decided, rateSeen, leftEnds, storageVars,
                           requestVars, importBudget>>

\* A session is on screen, or being resumed.
Resumable == importStep = "preview" \/ resume.phase # "none"

\* A request of an earlier mount ends with its write to localStorage, under
\* whatever the card shows by now.  (The DELETE of a cancel may fail.)
LeftEnd ==
    \E e \in leftEnds :
        /\ leftEnds' = leftEnds \ {e}
        /\ sessions' \in {sessions, Drop(e.drop)}
        /\ storedImport' = e.to
        /\ storedDecision' = IF e.to = 0 THEN NoDecision ELSE storedDecision
        /\ importNotes' = IF Resumable THEN importNotes \cup {"ended"} ELSE importNotes
        /\ UNCHANGED <<recorded, rateKnown, tableVars, decided, rateSeen, leftLanes, requestVars,
                       importBudget>>

ChooseCategory ==
    /\ importStep = "preview" /\ preview.unfiled # {} /\ ~decided
    /\ decided' = TRUE
    /\ storedDecision' = [id |-> preview.id, decided |-> TRUE]
    /\ UNCHANGED <<serverVars, tableVars, backgroundVars, storedImport, requestVars,
                   importBudget, importNotes>>

----------------------------------------------------------------------------
(* Confirm, cancel, start over.                                            *)

ConfirmImport ==
    /\ importStep = "preview" /\ CanImport
    /\ Act
    /\ confirms' = Append(confirms,
          [phase |-> "sent", id |-> preview.id, decided |-> decided, shown |-> preview.rows,
           copied |-> preview.rows, answer |-> "none", refused |-> {}, left |-> {}, mine |-> TRUE,
           heard |-> TRUE, edited |-> FALSE, overtaken |-> FALSE])
    /\ UNCHANGED <<serverVars, tableVars, decided, backgroundVars, storageVars, resume, upload,
                   cancelling, importNotes>>

\* handleImportConfirm up to the unlock: every gate is computed again from the
\* session and the ledger as they are now.
ConfirmGate(i) ==
    LET c == confirms[i]
        rows == IF c.id \in DOMAIN sessions THEN sessions[c.id].rows ELSE FreshRows
        Refuse(answer, what) ==
            confirms' = [confirms EXCEPT ![i].phase = "answered", ![i].answer = answer,
                                         ![i].refused = what]
    IN  /\ c.phase = "sent"
        /\ \/ ~Live(c.id) /\ Refuse("gone", {})
           \/ /\ Live(c.id)
              /\ \/ MoneyErrors(rows) # {} /\ Refuse("money", MoneyErrors(rows))
                 \/ /\ MoneyErrors(rows) = {} /\ UnresolvedCategories(rows, c.decided) # {}
                    /\ Refuse("categories", UnresolvedCategories(rows, c.decided))
                 \/ /\ MoneyErrors(rows) = {} /\ UnresolvedCategories(rows, c.decided) = {}
                    /\ CollisionGroups(rows, c.decided) # {}
                    /\ Refuse("collisions", CollisionGroups(rows, c.decided))
                 \/ /\ MoneyErrors(rows) = {} /\ UnresolvedCategories(rows, c.decided) = {}
                    /\ CollisionGroups(rows, c.decided) = {}
                    /\ confirms' = [confirms EXCEPT ![i].phase = "gated", ![i].copied = rows]
        /\ UNCHANGED <<serverVars, tableVars, decided, backgroundVars, storageVars, resume, upload,
                       cancelling, importBudget, importNotes>>

\* mutant: the insert loop trusts the gate's look at the ledger
InsertableUnchecked(rows) ==
    {r \in ImportRows : /\ Storable(rows, r)
                        /\ \A q \in 1..(r - 1) : Storable(rows, q) => rows[q].value # rows[r].value}

\* The copied rows whose content no live transaction has, each content once.
Insertable(rows) ==
    {r \in ImportRows : /\ Storable(rows, r) /\ recorded[rows[r].value] = 0
                        /\ \A q \in 1..(r - 1) : Storable(rows, q) => rows[q].value # rows[r].value}

\* The transaction, then the deletion of the session.
ConfirmCommit(i) ==
    LET c == confirms[i]
        inserted == Insertable(c.copied)
    IN  /\ c.phase = "gated"
        /\ recorded' = [v \in ImportValues |->
              recorded[v] + Cardinality({r \in inserted : c.copied[r].value = v})]
        /\ sessions' = Drop(c.id)
        /\ confirms' = [k \in DOMAIN confirms |->
              IF k = i THEN [c EXCEPT !.phase = "answered", !.answer = "done",
                             !.left = {r \in ImportRows : ~c.copied[r].skip} \ inserted]
              ELSE IF confirms[k].phase = "gated" THEN [confirms[k] EXCEPT !.overtaken = TRUE]
              ELSE confirms[k]]
        /\ UNCHANGED <<rateKnown, tableVars, decided, backgroundVars, storageVars, resume, upload,
                       cancelling, importBudget, importNotes>>

\* A 409 replaces one slice of the preview; success ends the session.
ConfirmAnswer(i) ==
    LET c == confirms[i]
        shown == preview.id # 0
    IN  /\ c.phase = "answered"
        /\ confirms' = Pop(i, confirms)
        /\ \/ /\ c.mine /\ c.answer = "done"
              /\ importStep' = "done" /\ storedImport' = 0 /\ storedDecision' = NoDecision
              /\ UNCHANGED <<preview, importNotes>>
           \/ /\ c.mine /\ c.answer # "done"
              /\ preview' = IF ~shown THEN preview
                            ELSE CASE c.answer = "collisions" -> [preview EXCEPT !.groups = c.refused]
                                   [] c.answer = "money"      -> [preview EXCEPT !.errors = c.refused]
                                   [] c.answer = "categories" -> [preview EXCEPT !.unfiled = c.refused]
                                   [] OTHER                   -> preview
              /\ UNCHANGED <<importStep, storageVars, importNotes>>
           \/ /\ ~c.mine /\ c.heard /\ c.answer = "done"
              /\ storedImport' = 0
              /\ importNotes' = IF Resumable THEN importNotes \cup {"ended"} ELSE importNotes
              /\ UNCHANGED <<preview, importStep, storedDecision>>
           \/ /\ ~c.mine /\ ~(c.heard /\ c.answer = "done")
              /\ UNCHANGED <<preview, importStep, storageVars, importNotes>>
        /\ UNCHANGED <<serverVars, pendingPatchCount, patchQueue, burst, decided, backgroundVars,
                       resume, upload, cancelling, importBudget>>

CancelImport ==
    /\ importStep = "preview" /\ preview.id # 0 /\ cancelling.phase = "none"
    /\ Act
    /\ cancelling' = [Idle EXCEPT !.phase = "sent", !.id = preview.id]
    /\ UNCHANGED <<serverVars, tableVars, decided, backgroundVars, storageVars, resume, upload,
                   confirms, importNotes>>

\* The DELETE; a failure is swallowed and the card goes on.
ServeCancel ==
    /\ cancelling.phase = "sent"
    /\ \/ sessions' = Drop(cancelling.id) /\ NoSpend
       \/ UNCHANGED sessions /\ Disturbance
    /\ cancelling' = [cancelling EXCEPT !.phase = "answered"]
    /\ UNCHANGED <<recorded, rateKnown, tableVars, decided, backgroundVars, storageVars, resume,
                   upload, confirms, importNotes>>

CancelAnswer ==
    /\ cancelling.phase = "answered"
    /\ Clear
    /\ storedImport' = 0
    /\ cancelling' = Idle
    /\ UNCHANGED <<serverVars, patchQueue, burst, backgroundVars, resume, upload, confirms, importBudget>>

StartOver ==
    /\ importStep = "done"
    /\ Clear
    /\ UNCHANGED <<serverVars, patchQueue, burst, backgroundVars, storedImport, requestVars, importBudget>>

----------------------------------------------------------------------------
(* The rest of the system, while a session is open.                        *)

\* Someone records a transaction with the content of a row.
RecordByHand ==
    \E v \in ImportValues :
        /\ recorded[v] = 0
        /\ recorded' = [recorded EXCEPT ![v] = 1]
        /\ Disturbance
        /\ confirms' = [i \in DOMAIN confirms |->
              IF confirms[i].phase = "gated" THEN [confirms[i] EXCEPT !.overtaken = TRUE]
                                             ELSE confirms[i]]
        /\ UNCHANGED <<sessions, rateKnown, tableVars, decided, backgroundVars, storageVars, resume,
                       upload, cancelling, importNotes>>

ConfigureCurrency ==
    /\ ~rateKnown
    /\ rateKnown' = TRUE
    /\ Disturbance
    /\ UNCHANGED <<sessions, recorded, tableVars, decided, backgroundVars, storageVars, requestVars,
                   importNotes>>

\* The store's 60 minutes, or a restart of the server.
SessionExpires ==
    \E id \in DOMAIN sessions :
        /\ sessions[id].live
        /\ sessions' = Drop(id)
        /\ Disturbance
        /\ UNCHANGED <<recorded, rateKnown, tableVars, decided, backgroundVars, storageVars,
                       requestVars, importNotes>>

ImportNext ==
    \/ UploadFile \/ ServeUpload \/ UploadAnswer
    \/ ReloadCard \/ ReturnToCard \/ ServeResume \/ ResumeAnswer \/ LeftServe \/ LeftEnd
    \/ \E r \in ImportRows : CommitEdit(r) \/ ToggleSkip(r)
    \/ SkipAllRows \/ RefreshSession \/ LaneServe \/ LaneAnswer \/ ChooseCategory
    \/ ConfirmImport
    \/ \E i \in DOMAIN confirms : ConfirmGate(i) \/ ConfirmCommit(i) \/ ConfirmAnswer(i)
    \/ CancelImport \/ ServeCancel \/ CancelAnswer \/ StartOver
    \/ RecordByHand \/ ConfigureCurrency \/ SessionExpires

ImportSpec == ImportInit /\ [][ImportNext]_importVars

----------------------------------------------------------------------------
ImportTypeOK ==
    /\ \A id \in DOMAIN sessions : sessions[id].rows \in [ImportRows -> RowState]
    /\ Len(sessions) <= MaxUploads
    /\ preview \in Preview
    /\ importStep \in {"upload", "preview", "done"}
    /\ importStep = "preview" => preview.id # 0
    /\ storedImport \in 0..MaxUploads
    /\ pendingPatchCount \in 0..Len(patchQueue)

\* No content is recorded twice, whatever is confirmed twice, recorded by hand
\* or pasted twice in the sheet: the insert loop looks each hash up inside its
\* own transaction (processImportRows).
NoDoubleImport == \A v \in ImportValues : recorded[v] <= 1

\* What the server copies to insert is what the table showed when the button
\* was pressed.  Set aside: an edit made while the confirm was under way; an edit
\* applied without the card learning of it, its answer lost or sent by an earlier
\* mount of the card and served late; a cancel that zeroed the count of a lane
\* that was not empty; and an upload that raced with another session.
ImportsWhatWasShown ==
    \A i \in DOMAIN confirms :
        LET c == confirms[i]
        IN  \/ c.copied = c.shown \/ c.edited
            \/ importNotes \cap {"lostAnswer", "late", "zeroed", "raced"} # {}

\* A confirm that succeeds has left out no row the user kept: the gate asks
\* about every collision, also one younger than the preview.  Only what is
\* recorded between the gate and the transaction can take a row away.
ConfirmRecordsAll ==
    \A i \in DOMAIN confirms :
        confirms[i].answer = "done" => confirms[i].left = {} \/ confirms[i].overtaken

\* With no edit at the server, the table shows the session as the server has
\* it: a refresh never undoes an acknowledged edit and no row of another
\* session is shown.  Set aside: a lost answer, a late edit of an earlier mount, a
\* cancel that left edits in the lane, an upload that raced with another session.
PreviewTracksServer ==
    /\ preview.id # 0 /\ Live(preview.id)
    /\ ~\E i \in DOMAIN patchQueue : patchQueue[i].kind = "patch" /\ patchQueue[i].served
    /\ importNotes \cap {"lostAnswer", "late", "zeroed", "raced"} = {}
    => preview.rows = sessions[preview.id].rows

\* While a preview is on screen a reload asks for its session, with its decisions,
\* unless the upload raced with a resume, a confirm or a cancel, or a request of an
\* earlier mount ended with a write of its own.
PreviewIsResumable ==
    importStep = "preview" /\ importNotes \cap {"raced", "ended"} = {} =>
        /\ storedImport = preview.id
        /\ storedDecision = [id |-> preview.id, decided |-> decided]
=============================================================================
