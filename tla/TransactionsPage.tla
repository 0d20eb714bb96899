-------------------------- MODULE TransactionsPage --------------------------
(***************************************************************************)
(* The transaction list: filters with a debounced search box, paginated    *)
(* queries cached by key (react-query, which shows the previous page's     *)
(* rows while a new key loads), a selection that is a set of ids or "all   *)
(* matching", the dialogs in front of the writes, and the writes, by ids   *)
(* or by the filter itself.                                                *)
(*                                                                         *)
(* A filter is "all" or "hits" (a search term); a transaction is a hit or  *)
(* not, and an edit renames a hit away.  Rows are listed by id: sorting is *)
(* left out, and the page size does not change.  The 30 seconds after      *)
(* which a cached page is stale never pass: only invalidations make it so. *)
(***************************************************************************)
EXTENDS Integers, FiniteSets

CONSTANTS TxnCount, PerPage,
          MaxListActs,      \* changes of key, writes and dialogs of the user,
                            \* and the faults, together
          MaxListFaults     \* failed requests and changes by others

TxnIds == 1..TxnCount
Pages == 1..((TxnCount + PerPage - 1) \div PerPage)
Filters == {"all", "hits"}

ASSUME ListAssumption == /\ TxnCount \in Nat \ {0} /\ PerPage \in Nat \ {0}
                         /\ {MaxListActs, MaxListFaults} \subseteq Nat

VARIABLES
    txns,          \* server: which transactions are live, and which are hits
    notice,        \* a live update announcing a change is on its way
    filters, searchInput, page,
    cache,         \* the query cache, by key
    fetches,       \* list requests under way, by key
    previous,      \* what was shown when the key changed
    selectedIds, selectionScope,
    dialog,        \* "none", "delete", "edit", "editConfirm" or "replace"
    write,         \* the write under way
    undoable,      \* the row the toast's Undo restores, or 0
    listBudget, listNotes

serverList == <<txns, notice>>
keyVars    == <<filters, searchInput, page>>
queryVars  == <<cache, fetches, previous>>
selectVars == <<selectedIds, selectionScope>>
listVars   == <<serverList, keyVars, queryVars, selectVars, dialog, write, undoable,
                listBudget, listNotes>>

Keys  == [filter : Filters, page : Pages]
key   == [filter |-> filters, page |-> page]
Empty == [have |-> FALSE, rows |-> {}, total |-> 0, stale |-> FALSE]
NoFetch == [phase |-> "none", answer |-> Empty]
Nothing == [have |-> FALSE, rows |-> {}, total |-> 0, filter |-> "all"]
Asked   == [phase |-> "asked", answer |-> Empty]
NoWrite == [phase |-> "none", kind |-> "delete", byFilter |-> FALSE, filter |-> "all",
            ids |-> {}, ok |-> FALSE, shown |-> "all", key |-> [filter |-> "all", page |-> 1]]

Within == listBudget.acts + listBudget.faults < MaxListActs
UserActs  == Within /\ listBudget' = [listBudget EXCEPT !.acts = @ + 1]
ListFault == /\ Within /\ listBudget.faults < MaxListFaults
             /\ listBudget' = [listBudget EXCEPT !.faults = @ + 1]

----------------------------------------------------------------------------
(* The server's list.                                                      *)

Matching(f) == {t \in TxnIds : txns[t].live /\ (f = "hits" => txns[t].hit)}

\* mutant: the server ignores the page it is asked for
QueryAnswerUnpaged(k) ==
    LET all == Matching(k.filter)
    IN  [have |-> TRUE, total |-> Cardinality(all), stale |-> FALSE, rows |-> all]

QueryAnswer(k) ==
    LET all == Matching(k.filter)
        before(t) == Cardinality({u \in all : u > t})
    IN  [have |-> TRUE, total |-> Cardinality(all), stale |-> FALSE,
         rows |-> {t \in all : before(t) \div PerPage = k.page - 1}]

----------------------------------------------------------------------------
(* The query of the current key.                                           *)

shown == IF cache[key].have
         THEN [have |-> TRUE, rows |-> cache[key].rows, total |-> cache[key].total, filter |-> filters]
         ELSE previous

showingPrevious == ~cache[key].have /\ previous.have
searchPending   == searchInput # filters

\* mutant: a search that is still being typed does not hold the scope back
filterScopeUntyped == showingPrevious

filterScopeUnsettled == showingPrevious \/ searchPending

\* The key changes: a key never loaded, or invalidated, is asked for, unless
\* it is being asked already; a change of filter or page clears the selection.
Activate(f, p) ==
    LET k == [filter |-> f, page |-> p]
    IN  /\ filters' = f /\ page' = p
        /\ previous' = IF cache[k].have THEN Nothing ELSE shown
        /\ fetches' = IF (~cache[k].have \/ cache[k].stale) /\ fetches[k].phase = "none"
                      THEN [fetches EXCEPT ![k] = Asked] ELSE fetches
        /\ IF f # filters \/ p # page
           THEN selectedIds' = {} /\ selectionScope' = "page"
           ELSE UNCHANGED selectVars
        /\ UNCHANGED cache

\* mutant: a change marks the pages stale and asks for nothing
RefetchedNothing == fetches

\* A refetch replaces a request under way only when the key has data: a first
\* load goes on with the answer it was already promised.
Refetched == IF cache[key].have \/ fetches[key].phase = "none"
             THEN [fetches EXCEPT ![key] = Asked] ELSE fetches

Overtaken == \E k \in Keys : fetches[k].phase = "served" /\ Refetched[k].phase = "served"

InvalidateAll ==
    /\ cache' = [k \in Keys |-> [cache[k] EXCEPT !.stale = cache[k].have]]
    /\ fetches' = Refetched
    /\ listNotes' = IF Overtaken THEN listNotes \cup {"overtaken"} ELSE listNotes

ListInit ==
    /\ txns = [t \in TxnIds |-> [live |-> TRUE, hit |-> TRUE]] /\ notice = FALSE
    /\ filters = "all" /\ searchInput = "all" /\ page = 1
    /\ cache = [k \in Keys |-> Empty]
    /\ fetches = [k \in Keys |-> IF k = key THEN Asked ELSE NoFetch]
    /\ previous = Nothing
    /\ selectedIds = {} /\ selectionScope = "page" /\ dialog = "none"
    /\ write = NoWrite /\ undoable = 0
    /\ listBudget = [acts |-> 0, faults |-> 0] /\ listNotes = {}

TypeSearch ==
    /\ dialog = "none" /\ UserActs
    /\ searchInput' \in Filters \ {searchInput}
    /\ UNCHANGED <<serverList, filters, page, queryVars, selectVars, dialog, write,
                   undoable, listNotes>>

\* The 250 ms timer; an open dialog does not stop it.
CommitSearch ==
    /\ searchPending
    /\ Activate(searchInput, 1)
    /\ UNCHANGED <<serverList, searchInput, dialog, write, undoable, listBudget, listNotes>>

\* Chips, the panel and saved filters set a filter at once, and drag the search
\* box along.
SetFilter ==
    /\ dialog = "none" /\ UserActs
    /\ \E f \in Filters \ {filters} : Activate(f, 1) /\ searchInput' = f
    /\ UNCHANGED <<serverList, dialog, write, undoable, listNotes>>

SetPage ==
    /\ dialog = "none" /\ UserActs
    /\ \E p \in Pages \ {page} : Activate(filters, p)
    /\ UNCHANGED <<serverList, searchInput, dialog, write, undoable, listNotes>>

ListServe ==
    \E k \in Keys :
        /\ fetches[k].phase = "asked"
        /\ fetches' = [fetches EXCEPT ![k] = [phase |-> "served", answer |-> QueryAnswer(k)]]
        /\ UNCHANGED <<serverList, keyVars, cache, previous, selectVars, dialog, write, undoable,
                       listBudget, listNotes>>

\* A bulk edit ends with the refetch it waits for: the selection becomes the one
\* it was sent with, less the rows that left the list, and after a write by
\* filter none.  A rename leaves the selection alone.
FinishEdit(k, rows) ==
    IF write.phase = "refetching" /\ write.key = k
    THEN /\ write' = NoWrite
         /\ IF write.kind = "rename"
            THEN UNCHANGED <<selectVars, dialog>>
            ELSE /\ dialog' = IF dialog \in {"edit", "editConfirm"} THEN "none" ELSE dialog
                 /\ selectedIds' = IF write.byFilter THEN {} ELSE write.ids \cap rows
                 /\ selectionScope' = IF write.byFilter THEN "page" ELSE selectionScope
    ELSE UNCHANGED <<selectVars, write, dialog>>

ListAnswer ==
    \E k \in Keys :
        /\ fetches[k].phase = "served"
        /\ cache' = [cache EXCEPT ![k] = fetches[k].answer]
        /\ fetches' = [fetches EXCEPT ![k] = NoFetch]
        /\ previous' = IF k = key THEN Nothing ELSE previous
        /\ FinishEdit(k, fetches[k].answer.rows)
        /\ UNCHANGED <<serverList, keyVars, undoable, listBudget, listNotes>>

\* The request fails after its retry: the rows stay if the key has some.  A
\* bulk edit is reported as applied but not refreshed, its dialog still open.
ListFails ==
    \E k \in Keys :
        /\ fetches[k].phase # "none" /\ ListFault
        /\ fetches' = [fetches EXCEPT ![k] = NoFetch]
        /\ cache' = [cache EXCEPT ![k].stale = cache[k].have]
        /\ previous' = IF k = key THEN Nothing ELSE previous
        /\ write' = IF write.phase = "refetching" /\ write.key = k THEN NoWrite ELSE write
        /\ listNotes' = listNotes \cup {"failed"}
        /\ UNCHANGED <<serverList, keyVars, selectVars, dialog, undoable>>

----------------------------------------------------------------------------
(* The selection and the dialogs.                                          *)

Select ==
    /\ dialog = "none" /\ shown.have
    /\ \/ \E t \in shown.rows \ selectedIds : selectedIds' = selectedIds \cup {t}
       \/ shown.rows # {} /\ selectedIds' = shown.rows
    /\ selectionScope' = "page"
    /\ UNCHANGED <<serverList, keyVars, queryVars, dialog, write, undoable, listBudget,
                   listNotes>>

SelectAllMatching ==
    /\ dialog = "none"
    /\ ~filterScopeUnsettled
    /\ selectionScope = "page" /\ shown.rows # {} /\ shown.rows \subseteq selectedIds
    /\ shown.total > Cardinality(shown.rows)
    /\ selectionScope' = "all-matching"
    /\ UNCHANGED <<serverList, keyVars, queryVars, selectedIds, dialog, write, undoable,
                   listBudget, listNotes>>

selectionCount == IF selectionScope = "all-matching" THEN shown.total ELSE Cardinality(selectedIds)

Send(kind, byFilter, ids) ==
    write' = [NoWrite EXCEPT !.phase = "sent", !.kind = kind, !.byFilter = byFilter,
              !.filter = filters, !.ids = ids, !.shown = shown.filter]

\* Delete of a page's rows is sent at once; of all matching rows, asked first.
RequestBulkDelete ==
    /\ dialog = "none" /\ write.phase = "none" /\ selectionCount > 0 /\ UserActs
    /\ IF selectionScope = "all-matching"
       THEN dialog' = "delete" /\ UNCHANGED write
       ELSE Send("delete", FALSE, selectedIds) /\ UNCHANGED dialog
    /\ UNCHANGED <<serverList, keyVars, queryVars, selectVars, undoable, listNotes>>

OpenBulkEdit ==
    /\ dialog = "none" /\ write.phase = "none" /\ selectionCount > 0 /\ UserActs
    /\ dialog' = "edit"
    /\ UNCHANGED <<serverList, keyVars, queryVars, selectVars, write, undoable, listNotes>>

HandleReplaceAll ==
    /\ dialog = "none" /\ write.phase = "none" /\ UserActs
    /\ filters = "hits" /\ shown.have /\ shown.total > 0
    /\ ~filterScopeUnsettled
    /\ dialog' = "replace"
    /\ UNCHANGED <<serverList, keyVars, queryVars, selectVars, write, undoable, listNotes>>

\* The scope is read again when the dialog is confirmed.  A delete of nothing
\* returns; an edit of all matching rows asks once more; an empty set of ids
\* is refused by the server and the dialog stays.
ConfirmDialog ==
    /\ dialog # "none" /\ write.phase = "none"
    /\ \/ /\ dialog = "delete" /\ selectionCount > 0
          /\ Send("delete", selectionScope = "all-matching", selectedIds)
          /\ UNCHANGED dialog
       \/ /\ dialog = "edit" /\ selectionScope = "all-matching"
          /\ dialog' = "editConfirm" /\ UNCHANGED write
       \/ /\ dialog = "edit" /\ selectionScope = "page" /\ selectedIds # {}
          /\ Send("edit", FALSE, selectedIds) /\ UNCHANGED dialog
       \/ /\ dialog = "editConfirm" /\ selectionCount > 0
          /\ Send("edit", selectionScope = "all-matching", selectedIds) /\ dialog' = "edit"
       \/ /\ dialog = "replace"
          /\ Send("rename", TRUE, {}) /\ dialog' = "none"
    /\ UNCHANGED <<serverList, keyVars, queryVars, selectVars, undoable, listBudget, listNotes>>

\* The bulk edit form closes even while its write is under way.
CancelDialog ==
    /\ dialog = "edit" \/ (dialog # "none" /\ write.phase = "none")
    /\ dialog' = IF dialog = "editConfirm" THEN "edit" ELSE "none"
    /\ UNCHANGED <<serverList, keyVars, queryVars, selectVars, write, undoable, listBudget, listNotes>>

DeleteRow ==
    /\ dialog = "none" /\ write.phase = "none" /\ UserActs /\ shown.have
    /\ \E t \in shown.rows : Send("deleteOne", FALSE, {t})
    /\ UNCHANGED <<serverList, keyVars, queryVars, selectVars, dialog, undoable, listNotes>>

UndoDelete ==
    /\ undoable # 0 /\ write.phase = "none"
    /\ Send("restore", FALSE, {undoable})
    /\ undoable' = 0
    /\ UNCHANGED <<serverList, keyVars, queryVars, selectVars, dialog, listBudget, listNotes>>

----------------------------------------------------------------------------
(* The writes.                                                             *)

Targets == IF write.byFilter THEN Matching(write.filter)
           ELSE {t \in write.ids : txns[t].live # (write.kind = "restore")}

Apply ==
    /\ txns' = [t \in TxnIds |->
          IF t \notin Targets THEN txns[t]
          ELSE CASE write.kind \in {"delete", "deleteOne"} -> [txns[t] EXCEPT !.live = FALSE]
                 [] write.kind = "restore"                 -> [txns[t] EXCEPT !.live = TRUE]
                 [] write.kind \in {"edit", "rename"}      -> [txns[t] EXCEPT !.hit = FALSE]]
    /\ notice' = (notice \/ txns' # txns)

WriteServe ==
    /\ write.phase = "sent"
    /\ \/ Apply /\ write' = [write EXCEPT !.phase = "answered", !.ok = TRUE] /\ UNCHANGED listBudget
       \/ Apply /\ write' = [write EXCEPT !.phase = "answered"] /\ ListFault
       \/ UNCHANGED serverList /\ write' = [write EXCEPT !.phase = "answered"] /\ ListFault
    /\ UNCHANGED <<keyVars, queryVars, selectVars, dialog, undoable, listNotes>>

\* Deletes and restores invalidate every list; a delete by ids and a bulk edit
\* refetch the list on screen, and the edit waits for it.
WriteAnswer ==
    /\ write.phase = "answered"
    /\ \/ /\ ~write.ok
          /\ write' = NoWrite
          /\ UNCHANGED <<queryVars, selectVars, dialog, undoable, listNotes>>
       \/ /\ write.ok /\ write.kind \notin {"edit", "rename"}
          /\ (write.kind = "delete" => write.byFilter)
          /\ write' = NoWrite
          /\ InvalidateAll
          /\ undoable' = IF write.kind = "deleteOne" THEN CHOOSE t \in write.ids : TRUE ELSE undoable
          /\ IF write.kind = "delete"
             THEN selectedIds' = {} /\ selectionScope' = "page" /\ dialog' = "none"
             ELSE UNCHANGED <<selectVars, dialog>>
          /\ UNCHANGED previous
       \/ /\ write.ok /\ write.kind = "delete" /\ ~write.byFilter
          /\ write' = NoWrite
          /\ fetches' = Refetched
          /\ selectedIds' = {} /\ selectionScope' = "page" /\ dialog' = "none"
          /\ UNCHANGED <<cache, previous, undoable, listNotes>>
       \/ /\ write.ok /\ write.kind \in {"edit", "rename"}
          /\ write' = [write EXCEPT !.phase = "refetching", !.key = key]
          /\ fetches' = Refetched
          /\ UNCHANGED <<cache, previous, selectVars, dialog, undoable, listNotes>>
    /\ UNCHANGED <<serverList, keyVars, listBudget>>

\* Another member, or another tab, adds or deletes a transaction.
OthersChange ==
    /\ ListFault
    /\ \E t \in TxnIds : txns' = [txns EXCEPT ![t].live = ~@]
    /\ notice' = TRUE
    /\ UNCHANGED <<keyVars, queryVars, selectVars, dialog, write, undoable, listNotes>>

DeliverNotice ==
    /\ notice
    /\ notice' = FALSE
    /\ InvalidateAll
    /\ UNCHANGED <<txns, keyVars, previous, selectVars, dialog, write, undoable, listBudget>>

ListNext ==
    \/ TypeSearch \/ CommitSearch \/ SetFilter \/ SetPage
    \/ ListServe \/ ListAnswer \/ ListFails
    \/ Select \/ SelectAllMatching \/ RequestBulkDelete \/ OpenBulkEdit \/ HandleReplaceAll
    \/ ConfirmDialog \/ CancelDialog \/ DeleteRow \/ UndoDelete
    \/ WriteServe \/ WriteAnswer \/ OthersChange \/ DeliverNotice

----------------------------------------------------------------------------
ListTypeOK ==
    /\ txns \in [TxnIds -> [live : BOOLEAN, hit : BOOLEAN]]
    /\ key \in Keys /\ searchInput \in Filters
    /\ \A k \in Keys : /\ cache[k].rows \subseteq TxnIds
                       /\ Cardinality(cache[k].rows) <= PerPage
                       /\ fetches[k].phase \in {"none", "asked", "served"}
    /\ selectedIds \subseteq TxnIds
    /\ selectionScope \in {"page", "all-matching"}
    /\ undoable \in 0..TxnCount

\* A write by filter (delete, edit or rename all matching) goes out with the
\* filter of the rows that were on screen when it was confirmed, however the
\* debounce, a slow list or a dialog left open came in between.
FilterWriteIsWhatWasShown ==
    write.phase # "none" /\ write.byFilter => write.filter = write.shown

\* When no request and no notice is under way the list is the server's,
\* whatever page and filter it was cached for; unless a list request
\* failed, or a notice overtook an answer that was already on its way for a
\* key without data or not on screen, which react-query does not ask again.
ListCatchesUp ==
    /\ ~notice /\ write.phase = "none" /\ cache[key].have /\ fetches[key].phase = "none"
    /\ listNotes = {}
    => cache[key] = QueryAnswer(key)
=============================================================================
