# SpenDrop in TLA+

SpenDrop is a household expense tracker: one Go server over one SQLite file, and a
React PWA that several devices of a household keep open. This directory models the
parts of it where order, concurrency and failure decide whether money is recorded
once, under the right person, and shown everywhere; checks the models with TLC; and
proves the most important of their properties with TLAPS.

Contents: 1 the system, 2 the modules and how they correspond to the code, 3 the
runs, 4 bounds, 5 fairness, 6 where the code and its comments disagree and other races
met, 7 the proofs, 8 what is only model-checked and what is not modelled, 9 the plan.

## 1. The system

| Component | State it keeps | Operations | Talks to |
|---|---|---|---|
| Transaction ledger (`internal/database/store.go`, `internal/api/transaction_handlers.go`, `trash_handlers.go`) | `transactions` (owner, content, `content_hash`, `idempotency_key`, `deleted_at`), `transaction_audit`, the AUTOINCREMENT counter | create, batch create, edit, delete, batch and filter edit/delete, restore one/many/all, purge one/all | categories and users (foreign keys, cascade), budget alerts, checkpoints and live updates after commit |
| Content identity (`content_hash.go`, migration 008) | `content_hash` of each row | compute, clear when an input moves, boot backfill | ledger, categories, import |
| Categories (`category_handlers.go`) | name, type, order, visibility | create, rename, reorder, hide, delete | ledger (a rename moves every digest filed under it) |
| Users and roles (`user_handlers.go`) | accounts, roles | create, rename, promote, delete | ledger (delete cascades), sessions |
| Offline capture queue (`web/src/lib/offline-queue.ts`, `useOfflineSync.ts`) | one IndexedDB database per user, a sign-in hold in localStorage | enqueue, replay, undo, hold, delete | quick add, client identity, the ledger through POST /transactions |
| Quick add (`QuickAdd.tsx`, `useQuickAdd.ts`) | the form, its client key | submit, retry, undo | queue, ledger |
| Client identity (`useAuth.tsx`, `last-user.ts`) | shown user, remembered user, session epoch | verify, sign in, sign up, sign out | queue, live updates |
| Live updates (`internal/sse/hub.go`, `events_handlers.go`, `useLiveUpdates.ts`) | client set, per-user counts, channels; per tab EventSource, debounce timer, sweep flag | register, broadcast, drop, unregister, publish, shut down; connect, reconnect, debounce, sweep | every writing handler; `main.go`'s shutdown |
| Startup and shutdown (`cmd/spendrop/main.go`) | -- | migrate, backfill, serve, cancel, shut down | all of the server |
| Import (`import_handlers.go`, `import_preview.go`; `useImportSession.ts`, `ImportPreviewTable.tsx`, `Settings.tsx`) | per upload a session in the server's memory; a preview, a lane of edits and localStorage in the browser | upload, edit, skip, refresh, resume, confirm, cancel, expire | ledger, categories, currencies |
| Backups (`internal/backup`) | snapshot files, checksum files, quarantined copies, published status | snapshot, verify, checksum, prune, record | database file, health check |
| Migrations (`internal/database/migrate.go`, `snapshot.go`) | applied versions, pre-migration copies | copy, apply, prune | database file |
| Rate limits (`internal/ratelimit/bucket.go`) | timestamps per key | consume, exhausted, retry-after, clean up | sign-in, tokens, push |
| Sessions and API tokens (`internal/auth`, `api_token_handlers.go`, `Settings.tsx`) | sessions, tokens; the plaintext on screen | sign in, create, reveal, list, revoke | every handler |
| Budget alerts and push (`budget_alert.go`, `internal/push`; `useWebPush.ts`, `useNotificationPrefs.ts`, `sw.ts`) | alert latches, preferences, subscriptions here and at the browser | evaluate, latch, fan out; change, enable, disable, rotate | ledger, users |
| Budgets, limits, goals (`Budgets.tsx`, `Savings.tsx` and their handlers) | a table each; a form and its baseline | load, edit, save request by request, clear, copy, switch period, guard against leaving | ledger sums, alerts |
| Transaction list (`Transactions.tsx`, `useTransactions.ts`, `Transactions.Bulk*.tsx`) | queries cached by page and filter, a selection, dialogs | search, page, select, write by id or by filter, undo | ledger, live updates |
| Entry row, edit forms, trash (`TransactionEntryRow.tsx`, `useTransactionEditForm.ts`, `Trash.tsx`) | a form, toasts with Retry and Undo; a page of the trash and its ticks | add, retry, undo; edit, save, cancel; restore, purge | ledger |
| Currencies and money (`money_convert.go`, `cents.go`, `currency_handlers.go`; `AmountCurrencyInput.tsx`, `lib/currency.ts`) | rates; an amount box and what it predicts | convert, round, freeze, restate; set rates | create, edit, import |
| Heatmap (`SpendingHeatmap.tsx`, `heatmapGrid.ts`) | year, month, focused day, open day | choose, move by keys, open, close | reports |
| Checkpoints, saved filters, other reports, export | their own tables, or none | single statements, queries | ledger |

### What is hard here

SQLite is opened with one connection, so a store call is atomic; but a handler is
several of them, and between two of them any other handler may run:

- **stale reads in handlers.** An edit, delete, restore or purge checks a row in one
  call and writes it in the next; a create reads the category name, probes for the
  digest and inserts in three; deleting an account counts its rows first;
  restore-all lists ids first.
- **two partial unique indexes that differ on purpose.** The digest index ignores
  trashed rows, the key index does not. Retrying a create can meet either, or both,
  in either order; restoring a row re-arms a digest that was dormant.
- **retries and lost answers.** A client that lost the answer to a create posts it
  again, from the form, from the queue, from another tab, or long after the row was
  edited or trashed.
- **shared browser state.** Tabs of one device share the cookie, the queue and
  localStorage, and each caches who is signed in. Requests outlive the screen that
  sent them.
- **crashes.** The boot backfill writes row by row before the server serves.
- **best-effort hints.** A hint can be dropped, arrive before anyone listens, or go
  to a connection that is already dead; slow consumers are cut off; the hub must be
  shut down before the HTTP server, whose endpoints wait for the hub.
- **forms over lists that move.** A page edits a copy of what the server had; answers
  come late, out of order or not at all; a save is several requests; other devices and
  tabs write meanwhile; a layout or a dialog is replaced while its request is under way.
- **jobs that are killed.** Backups and upgrades are sequences of file operations, each of
  which may fail or be the last before a kill, with retention in between.
- **two copies of a rule.** The client predicts duplicates, conversions and freezes that
  the server decides, from older data and in another language's arithmetic.

### What makes each modelled component correct

- Ledger: a submission is recorded once and every success names its row; live
  digests are distinct and truthful; the audit trail tells live from trashed; nothing
  is destroyed but out of the trash; an id never comes back.
- Offline capture: a capture the user was told is safe is never lost; one taken back
  never comes back; none is recorded under another account.
- Live updates: counts and channels agree whichever way a stream leaves; a tab that
  is connected and idle shows current data; shutdown waits for nobody.
- Pages: a save leaves at the server what the form showed; what was typed is kept until
  it is saved or given up; a write is one row however often it is sent; a list at rest
  is the server's; focus and unsaved edits are not lost; a secret shown once stays
  until it is noted down.
- Import: what is recorded is what the preview showed, no row twice, none left out unsaid.
- Jobs: a file that looks like a backup is one, the last good one survives, an upgrade
  can be undone; no more than the allowed failures pass the sign-in; a budget that is
  crossed is told once.

`PROJECT.json` lists the hazards at their source lines, each with the properties
that would catch it.

## 2. The modules

| Module | Role |
|---|---|
| `Submissions` | abstract: what a client that retries may rely on |
| `Ledger` | the table, the audit trail and every handler that writes them |
| `OfflineCapture` | one device: tabs, cookie, queue, sign-in, and the server as its requests see it |
| `LiveUpdates` | hub, endpoints, publishers and tabs |
| `ImportSession`, `EntryForm`, `EditForm`, `AmountBox`, `TrashPage`, `BudgetsPage`, `BudgetsGuard`, `CategoryLimits`, `SavingsPage`, `QuickAddPage`, `Heatmap` | one page or form each, with the handlers it calls |
| `WebClient` | composes those eleven: the router, one section mounted at a time |
| `TransactionsPage`, `CategoriesPage`, `CurrencyRates`, `HouseholdUsers`, `ApiTokens`, `Notifications` | the list and the settings members share |
| `Backups`, `MigrationSnapshots`, `RateLimit`, `BudgetAlerts` | what the server does beside its requests |
| `Household` | composes those ten |
| `MCLedger`, `MCOfflineCapture`, `MCLiveUpdates`, `MCWebClient` | the instances the runs check |
| `LedgerProofs`, `LedgerHandlersProofs`, `OfflineCaptureProofs`, `LiveUpdatesProofs`, `ServerJobsProofs`, `HouseholdProofs`, `WebEntryProofs`, `WebClientProofs` | the proofs |

Definitions followed by a "mutant:" comment are plausible bugs of the definition
below them, kept so that each property can be seen to fail on a broken program; no
specification uses them.

### Ledger

`rows` is the table as a function from the ids that exist; a tombstoned row exists
and has `trashed`. A row's content (date, cents, description after normalisation) is
one value, and a digest is the pair of a content and a category *name*, so that a
digest can be compared with the content it is supposed to name. `trail` keeps, per
id, the last lifecycle entry of `transaction_audit` and whether an update entry
follows it, and survives the row. `req[s]` is a handler between two database calls,
with what it captured.

| Actions | Code |
|---|---|
| `StartCreate`, `ProbeHash`, `InsertRow`, `InsertHashConflict`, `InsertKeyConflict`, `LookupKey`, `InsertOrphan` | `handleCreateTransaction`: name lookup, digest probe, `TransactionStore.Create`, its two recoveries and its failures. When an insert violates both indexes, SQLite may name either, so both recoveries are enabled |
| `BatchCreate` | `handleBatchCreateTransactions`: keyless rows in one transaction |
| `StartEdit`/`CommitEdit`, `StartDelete`/`CommitDelete` | `handleUpdateTransaction`, `handleDeleteTransaction` and the store call |
| `BatchUpdate`, `BatchDelete` | checked, written and audited per row, one transaction |
| `FilterUpdate`, `FilterDelete` | one statement; a summary audit entry under id 0 |
| `StartRestore`/`CommitRestore`, `BatchRestore`, `StartRestoreAll`/`CommitRestoreAll` | `trash_handlers.go`; `Restorable` is what the loop over ids brings back in some order, restore-all goes by ascending id |
| `StartPurge`/`CommitPurge`, `PurgeAll` | `TransactionStore.Purge`, emptying the trash |
| `RenameCategory` | `handleUpdateCategory` with `ClearContentHashForCategory` |
| `StartDeleteUser`/`CommitDeleteUser` | the row count, then `DeleteUser` and its cascade |
| `Crash`, `BackfillRow`, `BackfillDone` | a crash drops the handlers in flight; the next boot walks unhashed rows by id |

The refinement: `entry[u, k]` in `Submissions` is what the rows holding key `k` of
user `u` amount to: absent, live, trashed, or doubled, which is no state of the
abstract module.

### OfflineCapture

One device. `queue` holds a capture's attempts, `owner` who made it (the database
name in the code), `hold`, `remembered`, `cookie` and `online` are shared by the tabs;
`tab`, `conn`, `event`, `verify`, `leaving`, `form` and `drain` are one tab's. A request
is posted with the cookie of that moment (`post.as`), served later, and answered later
still; when its client gives up it becomes an orphan that may still reach the server.
`drain[t][u]` is `drainQueue`'s loop over the *copy* of the queue it loaded, one await
per action. The server is seen as a POST sees it: 401 without a session, otherwise
recorded or refused; that recording a key twice is one row is what `Ledger` shows, so
`ledger` is a set. IndexedDB's rule that a database is deleted once nobody is connected,
and cannot be opened before, is `CanOpen` and `DeleteQueue`.

`exposed`, `accepted`, `undone`, `quiet` and `discarded` are history, read by
properties only.

### LiveUpdates

`HubRegister`, `HubBroadcast`, `HubExit` and the hub's half of `Unregister` are the
cases of `Run`'s select; `Refuse`, `Greet`, `Forward`, `Leave`, `Unregister` are
`handleEvents` from its registration to its deferred unregistration; `Commit` and
`Publish` are a writing handler's last two steps; `OpenTab`, `Connect`, `DropConnection`,
`Debounced`, `BecomeVisible`, `CloseTab` are the hook and the browser under it; `Fetched` and
`FetchFails` the query client's refetch, which is tried once more and then given up;
`RefreshUser` the effect run anew because `useAuth` wrote the user again, which closes the
stream, drops the debounce and connects as if for the first time. `Cancel`, `Shutdown`,
`Restart` are `main`. A hint has no content, so a channel is a number. A tab's data is `fresh`
when it equals the ledger, and a refetch that read before a commit is `old`. `early`,
`dropped`, `failed` and `cut` record the four gaps of section 6.

### The pages (`WebClient`)

Each section has a server side (a table as the page's requests see it), the page's React
state under the code's names, the requests under way, and notes. A request is an element of
a set, or of a sequence where the code sends one after another, with a phase: asked, then
served (or failed, before or after it took effect), then answered. So requests overtake
one another wherever the code does not wait, and the state an answer finds is not the one
it was asked in.

| Module | State and actions |
|---|---|
| `ImportSession` | `sessions` is the server's memory; `preview`, `importStep`, `decided`, `patchQueue` (the promise lane of `useImportSession.ts`), `storedImport`/`storedDecision` (localStorage) are the card's. Upload, resume, edit, skip, skip all, refresh, confirm with its collision gate (`ConfirmGate`) and its transaction (`ConfirmCommit`), cancel, expiry; rows recorded by hand and currencies configured meanwhile. The card can be loaded again (`ReloadCard`) or left and come back to (`ReturnToCard`): `leftLanes` are the lanes, `leftEnds` the last writes to localStorage, of the mounts left behind, which run on (`LeftServe`, `LeftEnd`) |
| `EntryForm` | one client key per Add; `MayAdd` is the `sendingRef` latch, `KeepsForm` the rule that a retry's success spares a form that holds something else, `UndoLastSave` the undo buffer; a request may be refused before its key is looked up, also when an earlier one had landed |
| `EditForm` | the phone's sheet and the table's row as two modes; the answer closes what it finds |
| `AmountBox` | text, number, currency, direction and focus of the box; `Priced` is the server's conversion and `Kept` the store's freeze, `Frozen` and `previewValue` the client's mirror of both. Amounts typed are in half cents, so that rounding before and after the division can differ |
| `TrashPage` | restore and purge of one, of the ticked, of all; each refetches the page its handler was created on |
| `BudgetsPage`, `CategoryLimits` | form, baseline, one request per changed month or category, stop at the first failure, reload; bulk fill with undo, copy from the previous year, switching with a question; `BudgetsElsewhere` and `LimitsElsewhere` are another device's writes, which outdate the baseline |
| `BudgetsGuard` | the session history as a sequence of entries, `traversals` the `history.go` calls not carried out yet |
| `SavingsPage` | the dialog that says whether it replaces a goal, from the list it has; `GoalsElsewhere` is another device |
| `QuickAddPage` | two modes with a draft each, a kind, a category picked or parsed; complements `OfflineCapture`, which has the queue |
| `Heatmap` | calendar, colour ranks, arrow keys, tab stop and the day sheet, for a common and a leap year |

### The household (`Household`)

| Module | State and actions |
|---|---|
| `TransactionsPage` | `cache` and `fetches` by query key (page and filter), `searchInput` before and `key` after the debounce, the selection as ids or "all matching", dialogs, writes, and the notice of another device |
| `CategoriesPage`, `HouseholdUsers`, `ApiTokens` | the list and its loads; dialogs, their exit animations and where focus is; for tokens the plaintext kept above a section that a rotation mounts anew |
| `CurrencyRates` | rates typed over a list that every load replaces |
| `Notifications` | preferences as one document with optimistic updates; the endpoint of the browser, those of the server, and the service worker's rotation, which may end without a successor |
| `Backups` | `runOnce` step by step, `Prune` file by file; names are minutes and come round again when the clock is set back |
| `MigrationSnapshots` | `RunMigrations`: copy, migrations one by one, prune on both exits |
| `RateLimit` | `handleLogin`'s gate, check and record as three steps of overlapping requests; the test notification's gate and count are the same |
| `BudgetAlerts` | `evaluateBudgetAlerts` by each writer: settings, then per cell a reading and a latch, then one push |

Both compositions let a behaviour belong to one part, which an initial choice names: the
parts share no state (the router keeps one page mounted; the jobs have a directory, a
table or a limiter each), so that interleaving them would only multiply their states.
Where two components do share state they are in one module: the import and rows recorded
by hand, the list and its writers, the box and the store.

**Notes.** These modules record in `...Notes` what a behaviour ran into: answers out of
order, a request that failed, a lost answer, another member's change, a second operation
begun before the first was answered. A property names the notes under which the code does
not keep its promise, and promises everything else. Each such exemption was found by TLC
refuting the property without it; section 6 lists those that a user could notice.

## 3. The runs

| Run | Asks | Answer |
|---|---|---|
| `ledger_retry` | two handlers in flight, one key, two users, two contents: creates racing retries, edits, trashing, restores, purges and account deletion | holds: exactly once, live digests distinct, ids fresh, the ledger implements `Submissions` |
| `ledger_serial` | one request at a time, but all writers, renames and crashes at any point, also mid-backfill | holds: digests truthful, trail tells live from trashed, no edit in the trash, only trash destroyed, every live row anchored after a boot |
| `ledger_edit_race`, `ledger_account_race` | two of those that a second handler in flight breaks | violated, section 6 |
| `offline_queue` | two tabs, one or two users; lost answers, refusals, expiry, undo, sign-out, reload, offline | holds: no accepted capture lost, none taken back comes back, recorded under the other account only if someone signed in while a tab or a replay still acted for the owner |
| `offline_cross_account` | two users and sign-outs: may a queue be replayed as someone else? | violated, section 6 |
| `live_hub` | a tab with a stream of its own and up to two left behind by dropped connections, two commits, two faults, shutdown and restart | holds: counts exact, channels closed once, idle means fresh but for four named gaps, shutdown releases every endpoint, a stale tab catches up |
| `live_first_connect` | is a first connect ever stale? | violated, section 6 |
| `entry_refused` | does a refusal mean that nothing was written? | violated, section 6 |
| `migration_crash_loop` | is the copy from before an upgrade ever lost to a crash loop? | violated, section 6 |
| `web_pages` | eleven sections, each with failing, lost and late answers; a second device writing the same budgets, limits, goals, trash and rates; the import card left and come back to | holds: `ImportRecordsEachRowOnce`, `ImportShowsWhatItImports`, `TrashScreenHolds`, `SavedIsWhatWasShown` (budgets, limits, goals, edits, categories, foreign money), `TypedIsKept` (entry row, Quick add, edit forms, amount box), `OneRowPerWrite`, `EditsAreGuarded`, `HeatmapIsTrue` |
| `household` | ten parts: the shared list, the settings, the server's jobs with kills and failing file operations | holds: `FilterWriteIsWhatWasShown`, `ListCatchesUp`, `ShownIsTrue`, `FocusIsKept`, `TokenShownUntilSaved`, `PushFollowsTheSwitch`, `BackupsHold`, `UpgradeCanBeUndone`, `RateLimitHolds`, `AlertOnce` |

`ledger_serial` and `ledger_retry` split the properties on purpose: those of the first
hold only while a handler is not interrupted, and the violation runs show that this is
where they stop; `LedgerHandlersProofs` says which pair of handlers each of them must be
kept from. Each property of a passing run has a mutant in `PROJECT.json`
on which it fails. A violation run checks one statement of a comment, under the model's own
specification (`MigrationSpec`, `EntrySpec`) where one part is enough. `offline_queue` and
`web_pages` run a `BoundedSpec` of their MC module, which only bounds what may go wrong together.

Deadlock is not checked: the bounded models end when their ids, captures, changes and
faults are used up, the pages' acts are counted too, and a household may always stop. That nothing *waits* for ever is
what `ShutdownReleases` and `CatchesUp` say for the one component that blocks.

## 4. Bounds

- Ledger: `MaxRows` ids. Two are enough for a duplicate, for a restore that loses to a
  live row, for two rows restored by one call, and for a purged id to be reused.
  Two slots give every pair of handlers; each pair's hazard is between two requests.
  `Room` reserves an id for every create in flight, so that the bound never makes an
  insert fail.
- `MaxBatch` = 2 items, so that an item can collide with an earlier one.
- OfflineCapture: one capture, `MaxAttempts` = 1 (5 in the code; skipping and keeping a
  poisoned row does not depend on the number). Two tabs. One user meets three
  faults of any kind; a second user's coming counts as one of them, and once both have been at
  the device nothing is taken back, given up or refused and nobody signs out
  (`MCOfflineCapture!BoundedNext`): what is left is what a queue needs to be replayed as someone
  else. The theorems know no such bound.
  A screen holds one capture at a time; several toasts waiting for a retry are not
  modelled.
- LiveUpdates: cap 2, buffers 1, so that a cap, a full client buffer and a full broadcast
  channel all happen within two commits; three streams and two faults let a tab
  reconnect past its cap, or one of them be a failed refetch or a user read again.  `MaxChanges` also excludes a household that writes faster than
  the 200 ms debounce for ever, under which a trailing debounce never fires.

- The pages: every section counts what its user does (`Max...Acts`) and what goes wrong or
  happens elsewhere (`Max...Faults`, `MaxDisturbances`: a failed or lost request, another
  device's write, an expiry). Three to seven acts are a load, an edit, a save, and one more
  edit, save, switch or dismissal while an answer is under way; one fault is enough for
  every exemption named in section 6 to be reached, two where two answers can be lost. An import of
  four acts (two uploads, two confirms) has one disturbance, one of three has two, so that a card
  can be left with an edit in its lane and something else still go wrong
  (`MCWebClient!BoundedNext`). The
  data are the fewest that can be confused: two months, categories, years or rows; a third
  trash row so that there is a second page; amounts 2 and 3 half cents at rates 1 and 4, of
  which 2 and 3 round apart before and after the division; a file with two equal rows, one
  of them foreign and unfiled. `MaxDrafts`, `MaxTyped` and the `Max...Keys` bound what is
  typed and how many client keys are drawn.
- The heatmap has the real calendar of a common and a leap year, and three days around the
  end of February on which money moved.
- The household: two transactions on pages of one, three categories, currencies, users and
  tokens (one to act on, one that stays, one that comes and goes), endpoints as many as one
  rotation and one renewal draw.
- `Backups`: four minutes, days of two minutes, weeks of four and months of eight, so that the
  three retention classes overlap and fill; two faults, so that a kill can follow a failure.
  `MigrationSnapshots`: three migrations, so that a copy of each target can stand beside the
  next, five starts (six in `migration_crash_loop`, where pruning has to come round to the copy). `RateLimit`: a limit of two, a window of three ticks of half a second, eight
  ticks: two windows and the edge between them. `BudgetAlerts`: two cells, two writers, three
  writes, limits of none, one and three purchases, the last never exceeded, and one change or failure.

Symmetry is used over slots, tabs and users where no property is temporal.

## 5. Fairness

Ledger, OfflineCapture, WebClient and Household are checked for safety only: what a page does
next is its user's choice, and what its requests do is the network's. `LiveUpdates!Fairness` is weak
fairness on the hub's broadcast and exit, on each registration, on each endpoint, on
publishing, on `main`'s shutdown and on a tab's connecting, timers and fetches: all are
goroutines, timers or requests already under way, and Go's select chooses among ready
cases. Nothing is fair that a user, a network or an operator decides: opening, closing,
becoming visible, dropping, committing, cancelling, restarting.

## 6. Where code and comments disagree, and other races met

The first six are runs that TLC finds violated.

- **An edit can land in the trash** (`ledger_edit_race`). `handleUpdateTransaction` says a
  row deleted meanwhile makes the store's read fail, "no ghost audit row". Deletes are
  soft, `GetTransactionByID` returns the tombstone, and `Update`, unlike `UpdateTx`, does not
  look at `deleted_at`.
- **A live row can be destroyed** (`ledger_account_race`). The rows of an account are
  counted in one call and the account deleted in another; a row created in between goes
  with the cascade.
- **A queue can be replayed as someone else** (`offline_cross_account`). The queue is per
  user, the cookie is not: a replay in progress, or another tab, goes on under the next
  user's session.
- **A first connect can be stale** (`live_first_connect`). A hint broadcast between the
  page's first fetch and its stream's registration reaches nobody, and the first `onopen`
  does not sweep. (TanStack Query's own refetching on focus and staleness is a backstop
  outside this model.)
- **A refusal can follow a write** (`entry_refused`). `save-failure.ts` says an `ApiError` means
  nothing was written. The retry of a save that landed is refused, by a session that ended or a
  currency that is gone, before the key would have been replayed; the form stays filled, Retry is
  not offered, and Add sends a new key: a second row, which `OneRowPerWrite` sets aside.
- **The copy from before an upgrade can be lost** (`migration_crash_loop`). `snapshot.go:274-287`
  and `migrate.go:73-76` say it survives a crash loop absolutely. A copy cut short by a kill is
  older, and takes its exemption.

Five more comments promise what the models reach the opposite of. They have no run of their own;
each is an exemption, by name, of a property that holds without it.

- **A digest can name the old category.** A create that read the category's name before a
  rename stores the old name's digest after the rename cleared them all, so that a row claims
  "the identity of content it no longer holds" (`queries.sql:291-293`). `HashTruthful` is
  checked with one request at a time, and proved where no create is in flight under a rename
  (`NoRenameRace`).
- **A refused stream is not asked for again.** `events_handlers.go:50-51` says of the
  503 past the per-user cap that the EventSource will retry. An EventSource answered anything
  but 200 fails for good; the tab has no live updates until its effect runs again. `CatchesUp`
  promises such a tab nothing.
- **Two edits of an import session at once.** `useImportSession.ts:268-272` says that the
  backend never sees two concurrent PATCHes. Its lane is one mount's: a card that is left and
  come back to, or loaded again, starts another on the same session while the old one
  (`leftLanes`) runs on. `ImportShowsWhatItImports` sets an edit served so late aside.
- **More test notifications than the cap.** `push_handlers.go:245-250` says concurrent requests
  can no longer all pass the gate before one is counted. Gate (237) and count (250) are two
  calls, as at the sign-in, and `RateLimitHolds` allows for the requests between them.
- **A newer binary can cost the copy from before an upgrade.** `snapshot.go:186-189` and
  `migrate.go:139-142` say the floor stays resolved to it when a new migration rotates the target
  in the middle of a crash loop. Once the old target's last migration has committed and the
  process died before it was done, the newer binary's first pending migration lies above the
  version the copy is named for, and its failures prune it (`"passed"` in `PristineSurvives`).

The rest are the exemptions in the properties of `web_pages` and `household`: each one is a
behaviour TLC found when the property was stated without it, and no comment of the code denies
it, but for the ones above.

- *Import.* A row recorded by hand between the confirm's collision gate and its transaction
  takes a row of the file away without a word. An edit on its way when the card is left, or the
  page loaded again, may reach the session after the resume has read it: the preview shows the
  session without it, and the confirm imports it. An upload, a cancel or a resume of the mount
  that was left ends with a write of its own to localStorage, under what the new mount shows.
  Edits still in the lane when a preview is
  cancelled are no longer counted, so that the next confirm does not wait for them. An
  upload answered beside a resume, a confirm or a cancel leaves the browser's stored session
  or the lane of another preview behind. An edit whose answer is lost stands at the server
  and not in the table.
- *Transactions.* An invalidation that overtakes a first load leaves the list at what that
  load read, until the next one.
- *Trash.* Loads carry no sequence number: answers out of order, or an operation answered
  after its page was left, show the older list.
- *Entry row, Quick add.* Whichever of two sends under way is answered first clears the latch of
  both, so that the one still unanswered can be added again as a new entry. A success empties the
  entry row although another entry was typed while it was under way.
- *Live updates.* A hint the full broadcast channel dropped, a refetch that failed twice, and a
  user read again while a hint was under the debounce leave a connected tab outdated until the
  next hint, sweep or focus.
- *Edit forms.* Enter in a table row saves although the Save button is disabled.
- *Amount box.* The first arrival of the currency list refills an open form over what was
  typed, while the focused box keeps its text. While the list is missing the base currency is
  taken to be USD: a form filled then on a base row keeps "USD" as its currency, so that an
  untouched save after the list arrives files the amount as foreign, and a foreign USD row
  goes out as a bare base amount. The preview of an amount below a cent can differ from what
  is stored, since the server rounds first; a foreign row left untouched whose amount comes to
  zero at today's rate is refused before the freeze would have kept it.
- *Budgets, limits and goals.* A save sends what differs from the baseline the form was loaded
  with: a month, category or goal another device wrote since keeps the other's value, though the
  form showed the older one, unless the user changed it too. A failed refresh after a save leaves the limits' `loading` set. A goal is
  replaced without the question when its list had not loaded.
- *Rates.* Save is enabled again before the refresh answers; adding a currency discards rates
  typed but not saved, and adding a code that exists overwrites its rate.
- *Users.* A Manage dialog can be left for a confirmation while its rename is being saved.
- *Tokens.* Two creates begun from both sides of a rotation show only the later plaintext.
- *Notifications.* Overlapping updates of the preferences document: the last answer wins. A
  DELETE that fails leaves the switch on for an endpoint the browser no longer has. A browser
  that drops the endpoint and cannot renew it (no key, a subscribe that throws, a report that is
  lost) leaves the switch as it was, and the server with a dead endpoint, until the page is
  opened again; so may a rotation while the page's own task is under way.
- *Rate limits.* Where overlapping requests have taken the log above the limit, the time a
  refused request is told (`Retry-After`) is the oldest failure's, and at that time it is refused
  again, once for each failure above the limit. `RateLimitHolds` says how far off it is; no
  comment promises more.
- *Budget alerts.* A changed limit is not evaluated; a latch left by an earlier crossing
  silences a new one; an evaluation may act on a reading another write outdated; a push
  dropped after its latch was set is not sent again.

## 7. The proofs

All for any number of users, keys, contents, categories, handlers, streams, tabs, captures,
currencies, accounts, tokens, endpoints, migrations and requests, for import files, trash pages,
months, goals and calendar years of any size, and for any bounds.

Assumptions, each an `ASSUME` of the module it concerns and evaluated by TLC on every run:

- `Ledger`: `MaxRows` and `MaxBatch` natural, finitely many slots, admins are users, the two
  NULLs are no key and no digest.
- `OfflineCapture`: bounds natural, `None` is no user, and no user is called what
  an answer is called (`AnswersAssumption`: user ids are numbers, the answers words).
- `LiveUpdates`: capacities natural, finitely many streams, every tab has a user, `None` is
  neither tab nor stream.
- `Notifications`: a toggle is not an end of the quiet window (`TogglesAssumption`: the
  preferences' other fields).
- `Backups`, `MigrationSnapshots`, `RateLimit`, `BudgetAlerts`, `ApiTokens` and the pages: what is kept,
  shipped, limited or listed is a positive number of things; spending limits are natural, one
  of them the smallest; requests are finitely many.
- `BudgetsPage`: the years are finitely many and follow one another, since the page steps from
  one to the next. `SavingsPage`: there is a target to ask for. `AmountBox`: amounts and rates are
  positive, and the base is not among the foreign codes. `Heatmap`: some day may have spent
  something, and today is a day of its year (`TodayAssumption`).

| Theorem | Says |
|---|---|
| `LedgerProofs!TypeCorrect`, `LiveHashesUnique`, `CreatesExactlyOnce`, `FreshIds` | types; live digests are distinct; the answers to one submission name one row, which is its own; no step hands out a used id |
| `LedgerProofs!ImplementsLog` | `Spec => ImplementsSubmissions` |
| `LedgerHandlersProofs!AuditIsTrue` | `Spec => []AuditTellsState` |
| `LedgerHandlersProofs!HashesTruthful`, `BootAnchors` | `HashTruthful` and `BootAnchorsLedger`, given `NoRenameRace` |
| `LedgerHandlersProofs!NoTrashEdits` | `NoEditInTrash`, given `NoEditRace` |
| `LedgerHandlersProofs!TrashIsTheOnlyExit` | `OnlyTrashIsDestroyed`, given `NoAccountRace` |
| `OfflineCaptureProofs!TypeCorrect`, `CapturesAreKept`, `TakenBackIsGone`, `AccountsDoNotMix` | types; no capture is lost; none taken back unsent is recorded; a capture goes to another account only if its owner was exposed |
| `LiveUpdatesProofs!TypeCorrect`, `CapIsExact`, `ChannelsCloseOnce`, `NoSilentStaleness` | types; exact counts within the cap; no send on and no second close of a closed channel; an idle tab is fresh but for the gaps `FreshUnlessGap` names |
| `ServerJobsProofs!BackupsAreSafe`, `UpgradesCanBeUndone`, `CrossingsAreToldOnce`, `LimiterHolds` | the jobs' properties under each job's own specification |
| `HouseholdProofs!HouseholdIsBackedUp`, `HouseholdCanGoBack`, `HouseholdIsToldOnce`, `SignInsAreLimited` | the same under `HouseholdSpec` |
| `HouseholdProofs!HouseholdTyped`, `FilterWritesReachTheShown`, `ListsCatchUp`, `PlaintextStays`, `SectionsShowTheTruth`, `FocusIsNeverLost`, `PushFollows` | the household's types and its six other properties under `HouseholdSpec` |
| `WebEntryProofs!ImportHolds`, `EntryHolds`, `EditHolds`, `QuickHolds` | the sections that record: types and properties under each section's own specification |
| `WebClientProofs!TrashHolds`, `BudgetHolds`, `GuardHolds`, `LimitHolds`, `SavingsHolds`, `HeatHolds`, `AmountHolds` | the sections that show, plan and guard, likewise |
| `WebClientProofs!PagesTyped`, `ImportsOnce`, `ImportsTheShown`, `TrashIsShown`, `SavesTheShown`, `TypingSurvives`, `OneRowEach`, `GuardNeverSlips`, `HeatmapHolds` | the nine invariants of `web_pages` under `WebSpec` |

**Ledger.** `IInv` is `TypeOK`, `KeyUnique` (a keyed submission has one row, trashed or
not), `AnswersOwn` (the row an answer names is its own while it exists, and was handed
out before), `FreshTrail` (ids not handed out yet have no history) and `LiveHashUnique`.
`ExactlyOnce` alone is not inductive: that two answers name one row needs that there is
one row, and that needs the key index to cover trashed rows. `IdsAreFresh` needs
`FreshTrail`. Most steps are `Tame` (they keep owners and keys, and leave a trace for
rows they add) and are disposed of by two lemmas; the inserts and restores, which put a
digest into play, are proved one by one.

**Handlers.** A handler makes one database call to look and another to act.
`HandlerInv` says that a handler in flight is of a kind the configuration has and that a
booting server has none; `Born` what a request knows when it arrives: the digest under
the category's name, a row that is live, an account that owns nothing. What was known at
birth is still true at the end unless another handler undoes it, and each condition
names just the handlers that can: a rename beside a create, a delete beside an edit,
any writer beside the removal of an account. `ledger_edit_race` and `ledger_account_race`
violate the properties where two of the conditions do not hold, and
`ledger_serial` is the instance with one slot, where all of them do. The trail needs no
condition: it is written in the transaction that writes the row.

**Refinement.** Three facts about steps: what they do to the table (`TableStep`), to the
answers (`AnswerStep`), and that rows have open accounts (`OwnersExist`, without which a
cascade could be confused with a purge). `EntryMoves` then derives that each submission
makes a move of the log, and `LogStep` puts them together.

**Offline capture.** That no capture is lost rests on what an answer of success means
(`OkIsRecorded`: the row is in the ledger before the queue forgets it) and on the shapes of
forms and replays: an open form has a capture of the user on screen, a replay awaits the
head of its own copy. That one taken back stays back is `QuietIsForgotten`: no queue, orphaned
request, form or replay in any tab knows its key. That accounts do not mix is
`ActsAsSelf`: whoever still acts for a user acts under that user's cookie or none, or the
user is exposed.

**Live updates.** `IInv` adds to the two properties that the hub only knows streams past
their registration, that a stream about to register has an open channel, and that a
returned `Run` leaves nobody registered. Counting lemmas show that dropping any set of
streams subtracts exactly its members, user by user. For freshness `FInv` adds `Wired`
(which stream serves which tab, and what a closed or failed one leaves behind) and
`StaleIsComing`: for a tab that shows old data something is on its way, a refetch, its
timer, a hint between a handler and the tab's channel, or an error after which the
stream's next opening sweeps; or one of the four gaps has been recorded for it, which is what
a step that takes away the last of these does.

**Backups.** A checksum file vouches for what was verified (`InPlace`); every file without
one was counted, but for that of the tick under way (`Counted`); and while fewer were left than
retention keeps, some trusted backup is not among those to be swept (`RestorePoint`), since
the newest few of the survivors cannot all be without one. `TopFew` is the lemma on ranks.

**Upgrades.** Later copies hold no less, and none an unfinished upgrade could need holds less
than the database it began with (`InOrder`); a copy is whole unless it is being made
(`WholeUnlessKilled`); the pristine one has a target not below the run's first pending
migration, so that both prunings spare it (`PristineAhead`).

**Budget alerts.** `AlertOnce` speaks of cells nobody is looking at; to keep it one needs what
holds while somebody is. `AlertInv` says, cell by cell: while no note says a reading was
stale, at most one evaluation has the push to send and none was sent before
(`OneToSend`), and a cell over its limit without a latch has neither (`LatchComesFirst`), which is
why the insert that takes effect is the only one to add a crossing; a latch that is this
crossing's own stands for a push sent or to be sent (`LatchIsTold`); and a cell over its limit
is latched or on somebody's list (`OverIsLookedAt`). One lemma per action; a write disturbs
only the cell whose spending grows, an evaluation only the cell at the head of its list.

**Sign-ins.** The hits are in order of time, so that trimming keeps exactly those after the
window's edge (`TrimmedIs`); the failures after any time within the window are at most the
hits after it (`FailuresCounted`); the hits of the window and the requests past the gate are
together at most one below the limit and the requests (`Gated`), which is where the bound on
overlapping requests comes from; and at the time a refused request was told, fewer hits than
the limit, and those it was above the limit by, are left (`Promised`, by rounding up).

**The household's pages.** Each part has an invariant of the same build: shapes; what is
under way, one thing at a time where the page sees to that; and that a list which is not the
server's is coming, by a load under way or an answer that will ask for one
(`ListIsTold`, `CategoriesAreComing`, `RatesAreComing`, `UsersAreComing`, `EachIsListed`, `NoneIsLeft`,
`OneUpdate`). Focus needs more: the row it is on, or is going back to, is at the server and in
every list still to come (`FocusIsSafe`, `UserFocusSafe`), and for that ids must not be given out
twice (`IdsUsedOnce`, `NumbersUsedOnce`) and, where loads carry no number, lists must come in
order (`ListsInOrder`). `EachIsPart` shows that the composition's steps are each part's steps
or stutters; a part's theorem is then the household's.

`HouseholdTypeOK` has bounds that these invariants leave out, and each is an invariant beside
them. No page of the list, cached or on its way, has more rows than a page has (`PagesFit`), which
rests on a row being told apart by how many are newer (`RanksDiffer`); the row Undo restores is
one that was written (`RowsAreRows`); names in lists and forms can be given (`ListsNamed`,
`FormsNamed`) and focus stands where the page has something (`FocusPlaced`); a creation asked for
counts towards the tokens there may be, and an evaluation under way towards the pushes
(`TokenBounds`, `AlertBounds`); no endpoint is one not given out (`EndpointsGiven`); and the backup
scheduler has one snapshot of its status at most (`BackupBounds`).

**The client's pages.** What a form or list says of the server has two delays, the requests not
served yet and the answers not taken yet, and an invariant has to say what each of them will
bring.

- *Import.* Only the head of the lane has been at the server (`LaneIsSerial`), every edit in it
  is an edit of the preview on show (`LaneIsOfPreview`) and is counted (`PatchesAreCounted`). So a
  row of the table is the session's, or its answer is the one at the head (`TableTracks`); a
  confirm, which waits for the count, sends what is shown (`ConfirmsShow`); and what passed the
  gate can be inserted unless a row came in between (`ConfirmsRecord`). The lanes of earlier mounts
  have an invariant of their own (`LeftInv`): each job they still hold, and each write they still
  owe localStorage, is of a session the card has heard of, so that an upload's new session is
  none of theirs. An edit of theirs changes a session only where nothing of the card depends on
  it, or leaves the note `late` (`LeftServeKeeps`).
- *Entry row, Quick add.* Both are proved key by key: what each key has come to (`KeysInPhase`,
  `UndosApart`), that an entry is in the form, in a row or with a key that can still bring it
  (`EntriesKept`), and that no more than one of an entry's keys can have a row (`OneBusyKey`).
- *Trash, goals.* The load asked for last is for the page on show and brings the server's list,
  once each operation carried out has been answered (`TrashIsTold`, `GoalsTold`); a goal the
  dialog calls new is at most hidden by a note (`GoalsCovered`, `PutsTold`).
- *Budgets, limits, edits.* While a form is saved nothing is loaded, and the months that are not
  left to send are the server's already (`BudgetsSave`, `LimitsSave`); each edit's last save is
  the one that stands (`SaveStands`).
- *The guard.* The history has the page's entry under at most one guard (`StandsAt`), and what is
  carried out late (`history.go`) was asked for where one stands.
- *The amount box.* Text, code and form say the same money (`BoxHolds`), and a save took it as
  it stood (`SaveTakes`); the lemmas on `Rounded` and on pricing say where the client's preview
  and the server's conversion agree.
- *The heatmap.* `GridShape`: the grid is the days of the year or month, one after the other,
  behind the empty cells of the first week. Tab stop, weekdays and the arrow keys (each undoes
  the other, a column is seven days) follow from it by arithmetic; the colours from the ranks'
  quotients growing (`QuotientGrows`).

`EachIsSection` shows that the client's steps are each section's steps or stutters.

**What proving found in the models.** `OneRowPerEntry` and `OneRowPerDraft` were false: with more
keys than the run has, the answer for another entry enables Add while a first send is still under
way, and the same entry goes out under a second key. The code does that (section 6), and the
history `resent` now records it. Sorting and recursion in the pages' helpers gave way to the sets
and tables they compute (`InTableOrder`, `PatchesIn`, `NextMonth`, `DaysBefore`), which say the same
and can be reasoned about.

Earlier, in the server and the household, three definitions were wrong or too strong and were
changed. Categories and accounts took back an id that had been freed, which
`AUTOINCREMENT` rules out (`001_initial_schema.sql`), and which TLC's three ids hid: focus could
have been promised to a row that is another's. `UsersShownAreTrue` and `UserFocusKept` did not
except a list read by the server before the one asked for earlier (`overtaken`), which more
acts than the run's can produce. And `RateLimit` cut its window with a filter; the code drops a
prefix.

## 8. What is only model-checked, and what is not modelled

Only checked:

- liveness (`ShutdownReleases`, `CatchesUp`): fairness and ENABLED are out of the prover's
  reach.

Every invariant of the passing runs is also a theorem, those of the handlers under the
conditions section 7 names.

No recursive operator is used. The two inductions the proofs need, that a set of naturals
has a least element and a bounded one a greatest, come from the library's well-founded
relations, with the relation given as a set.

Left out of modelled components:

- Ledger: tags, notes, and the notifications, checkpoints and alerts after a commit. The
  import's writes and the amount's conversion are in modules of their own.
- Offline capture: that a queued capture is replayed in the end. The code promises a replay
  per "online" event and per start, no more; a capture queued just after the event has no
  trigger left (`offline-queue.ts:237`).
- Live updates: which resources a hint names, the heartbeat's timing, the push teardown and
  cache deletion of a sign-out. `queryClient` staleness settings are left out, which makes
  `CatchesUp` stronger than what a user sees.
- Import: reading CSV files, guessing columns and currencies; `ImportFile` is what was read.
- List and forms: sorting, tags, notes, column layout, keyboard shortcuts.
- Offline capture: a form open while one user is shown directly after another is emptied in the
  model; the app keeps it, since nothing mounts it anew (`App.tsx`).
- Settings: profile and password changes, the base currency, icons and the order of
  categories; leaving Settings within the app, which unmounts the provider of a token's
  plaintext; and other devices' writes to categories and rates (of users they are modelled).
- Alerts and push: digests, activity notices, delivery to the push gateways.

Not modelled: saved filters and checkpoints (single statements on tables of their own);
dashboard, exports and the reports other than the heatmap (read-only SQL and its
rendering); the write probe (I/O); rendering.

## 9. Plan

1. Done first: `Submissions`, `Ledger`, `OfflineCapture`, `LiveUpdates`, their runs, the ledger's
   and the hub's proofs.
2. Done next: the pages and the household, with the import, backups, migrations, rate limit
   and alerts; the proof of `AlertOnce`.
3. Done next: the proofs of the ledger's handlers, of the offline captures, of the tabs'
   freshness, of the server's jobs and of the household's pages.
4. Done last: the proofs of the eleven sections of `WebClient` and of `HouseholdTypeOK`.
5. Left to model: saved filters and the profile, when they grow beyond single requests; the
   import's confirm as a writer of `Ledger` itself, under its digest index.
