--------------------------- MODULE HouseholdProofs ---------------------------
(***************************************************************************)
(* Proofs about the parts of the household, one part after the other: an   *)
(* inductive invariant, a lemma per action that keeps it, and the part's   *)
(* properties from it.  What is proved of a part then holds of the         *)
(* household: a part moves only by its own steps, and stands still while   *)
(* another one is looked at.  The server's jobs are in ServerJobsProofs.   *)
(***************************************************************************)
EXTENDS Household, ServerJobsProofs, SequenceTheorems, FunctionTheorems

(***************************************************************************)
(* The list of transactions (TransactionsPage): the scope of a selection is *)
(* that of the rows on screen, and a list that is read, or marked to be read *)
(* again, is the server's.                                                 *)
(***************************************************************************)
ListSpec == ListInit /\ [][ListNext]_listVars

ListPages == [have : BOOLEAN, rows : SUBSET TxnIds, total : Nat, stale : BOOLEAN]

ListShapes ==
  /\ filters \in Filters /\ searchInput \in Filters /\ page \in Pages
  /\ cache \in [Keys -> ListPages]
  /\ fetches \in [Keys -> [phase : {"none", "asked", "served"}, answer : ListPages]]
  /\ \A k \in Keys : fetches[k].phase = "served" => fetches[k].answer.have /\ ~fetches[k].answer.stale
  /\ previous.rows # {} => previous.have
  /\ notice \in BOOLEAN /\ DOMAIN write = DOMAIN NoWrite

\* What is asked for by filter is on screen: the scope is "all matching", and the rename open,
\* only while the key has data, and the rename while no search is waiting either.
ScopeIsShown ==
  /\ selectionScope = "all-matching" => cache[key].have
  /\ dialog = "replace" => cache[key].have /\ searchInput = filters
  /\ FilterWriteIsWhatWasShown

\* Unless a change is still to be announced, what is cached and not stale, and what is on its
\* way, is the server's; and what is on screen is asked for again if it is stale.
ListIsTold ==
  listNotes = {} =>
    /\ cache[key].have /\ cache[key].stale => fetches[key].phase # "none"
    /\ ~notice => \A k \in Keys :
         /\ cache[k].have /\ ~cache[k].stale => cache[k] = QueryAnswer(k)
         /\ fetches[k].phase = "served" => fetches[k].answer = QueryAnswer(k)

ListInv == ListShapes /\ ScopeIsShown /\ ListIsTold

\* There is a first page.
LEMMA FirstPage == 1 \in Pages
<1>1. PICK n \in Nat, p \in Nat : n = TxnCount /\ p = PerPage /\ n # 0 /\ p # 0
  BY ListAssumption
<1>2. (n + p - 1) \div p \in Int /\ (n + p - 1) \div p >= 1
  BY <1>1
<1>3. QED
  BY <1>1, <1>2 DEF Pages

\* The server's answer to a request for a page.
LEMMA AnswerShape ==
  ASSUME NEW k \in Keys
  PROVE  QueryAnswer(k) \in ListPages /\ QueryAnswer(k).have /\ ~QueryAnswer(k).stale
<1>1. Matching(k.filter) \subseteq TxnIds
  BY DEF Matching
<1>2. IsFiniteSet(TxnIds)
  BY FS_Interval, ListAssumption DEF TxnIds
<1>3. Cardinality(Matching(k.filter)) \in Nat
  BY <1>1, <1>2, FS_Subset, FS_CardinalityType
<1> DEFINE rs == {t \in Matching(k.filter) :
                    Cardinality({u \in Matching(k.filter) : u > t}) \div PerPage = k.page - 1}
<1>4. rs \in SUBSET TxnIds
  BY <1>1
<1>5. QueryAnswer(k) = [have |-> TRUE, total |-> Cardinality(Matching(k.filter)), stale |-> FALSE, rows |-> rs]
  BY DEF QueryAnswer
<1> HIDE DEF rs
<1>6. QED
  BY <1>3, <1>4, <1>5 DEF ListPages

\* A page marked stale, or fresh.
LEMMA MarkedShape ==
  \A p \in ListPages, b \in BOOLEAN :
    LET q == [p EXCEPT !.stale = b] IN q \in ListPages /\ q.have = p.have /\ q.stale = b
BY DEF ListPages

LEMMA KeyIsKey == ListShapes => key \in Keys
BY DEF ListShapes, key, Keys

\* A request not yet made, made, and the empty page.
LEMMA RequestShapes ==
  /\ Empty \in ListPages /\ ~Empty.have
  /\ Asked \in [phase : {"none", "asked", "served"}, answer : ListPages] /\ Asked.phase = "asked"
  /\ NoFetch \in [phase : {"none", "asked", "served"}, answer : ListPages] /\ NoFetch.phase = "none"
BY DEF Empty, Asked, NoFetch, ListPages

\* The same transactions, the same answer.
LEMMA SameAnswer == ASSUME UNCHANGED txns, NEW k \in Keys PROVE QueryAnswer(k)' = QueryAnswer(k)
BY DEF QueryAnswer, Matching

\* A step about selections, dialogs and writes leaves the cache as it is.
LEMMA ListUntouched ==
  ASSUME ListInv, UNCHANGED <<txns, notice, filters, page, cache, fetches, previous, listNotes>>,
         searchInput' \in Filters, DOMAIN write' = DOMAIN NoWrite
  PROVE  ListShapes' /\ ListIsTold' /\ key' = key
<1>1. ListShapes'
  BY DEF ListInv, ListShapes
<1>2. key' = key
  BY DEF key
<1>3. ListIsTold'
  BY <1>2, SameAnswer DEF ListInv, ListIsTold
<1>4. QED
  BY <1>1, <1>2, <1>3

\* A write is sent with the filter of the moment, and says what was on screen.
LEMMA SendSays ==
  ASSUME NEW kind, NEW byFilter, NEW ids, Send(kind, byFilter, ids)
  PROVE  /\ DOMAIN write' = DOMAIN NoWrite /\ write'.phase = "sent" /\ write'.byFilter = byFilter
         /\ write'.filter = filters /\ write'.shown = shown.filter
BY DEF Send, NoWrite

LEMMA ShownIsFiltered == cache[key].have => shown.filter = filters
BY DEF shown

LEMMA NoWriteSays == ~NoWrite.byFilter /\ NoWrite.phase = "none"
BY DEF NoWrite
LEMMA TypeSearchKeeps == ASSUME ListInv, TypeSearch PROVE ListInv'
<1>1. /\ UNCHANGED <<txns, notice, filters, page, cache, fetches, previous, listNotes>> /\ searchInput' \in Filters
      /\ UNCHANGED <<selectionScope, dialog, write>> /\ dialog = "none"
  BY DEF TypeSearch, serverList, queryVars, selectVars
<1>2. ListShapes' /\ ListIsTold' /\ key' = key
  BY <1>1, ListUntouched DEF ListInv, ListShapes
<1>3. QED
  BY <1>1, <1>2 DEF ListInv, ScopeIsShown, FilterWriteIsWhatWasShown

LEMMA SelectKeeps == ASSUME ListInv, Select PROVE ListInv'
<1>1. /\ UNCHANGED <<txns, notice, filters, page, searchInput, cache, fetches, previous, listNotes>>
      /\ UNCHANGED <<dialog, write>> /\ selectionScope' = "page"
  BY DEF Select, serverList, queryVars, keyVars
<1>2. ListShapes' /\ ListIsTold' /\ key' = key
  BY <1>1, ListUntouched DEF ListInv, ListShapes
<1>3. QED
  BY <1>1, <1>2 DEF ListInv, ScopeIsShown, FilterWriteIsWhatWasShown

\* The scope is widened to the rows on screen only.
LEMMA SelectAllMatchingKeeps == ASSUME ListInv, SelectAllMatching PROVE ListInv'
<1>1. /\ UNCHANGED <<txns, notice, filters, page, searchInput, cache, fetches, previous, listNotes>>
      /\ UNCHANGED <<dialog, write>> /\ ~showingPrevious /\ shown.rows # {}
  BY DEF SelectAllMatching, serverList, queryVars, keyVars, filterScopeUnsettled
<1>2. cache[key].have \/ previous.have
  BY <1>1 DEF SelectAllMatching, shown, ListInv, ListShapes
<1>3. ListShapes' /\ ListIsTold' /\ key' = key
  BY <1>1, ListUntouched DEF ListInv, ListShapes
<1>4. QED
  BY <1>1, <1>2, <1>3 DEF ListInv, ScopeIsShown, FilterWriteIsWhatWasShown, showingPrevious

LEMMA RequestBulkDeleteKeeps == ASSUME ListInv, RequestBulkDelete PROVE ListInv'
<1>1. /\ UNCHANGED <<txns, notice, filters, page, searchInput, cache, fetches, previous, listNotes, selectionScope>>
      /\ dialog' # "replace"
      /\ write' = write \/ Send("delete", FALSE, selectedIds)
  BY DEF RequestBulkDelete, serverList, queryVars, keyVars, selectVars
<1>5. DOMAIN write' = DOMAIN NoWrite
  BY <1>1, SendSays DEF ListInv, ListShapes
<1>2. ListShapes' /\ ListIsTold' /\ key' = key
  BY <1>1, <1>5, ListUntouched DEF ListInv, ListShapes
<1>3. FilterWriteIsWhatWasShown'
  BY <1>1, SendSays DEF ListInv, ScopeIsShown, FilterWriteIsWhatWasShown
<1>4. QED
  BY <1>1, <1>2, <1>3 DEF ListInv, ScopeIsShown

LEMMA OpenBulkEditKeeps == ASSUME ListInv, OpenBulkEdit PROVE ListInv'
<1>1. /\ UNCHANGED <<txns, notice, filters, page, searchInput, cache, fetches, previous, listNotes, selectionScope, write>>
      /\ dialog' = "edit"
  BY DEF OpenBulkEdit, serverList, queryVars, keyVars, selectVars
<1>2. ListShapes' /\ ListIsTold' /\ key' = key
  BY <1>1, ListUntouched DEF ListInv, ListShapes
<1>3. QED
  BY <1>1, <1>2 DEF ListInv, ScopeIsShown, FilterWriteIsWhatWasShown

\* The rename is opened over rows that are on screen, with no search waiting.
LEMMA HandleReplaceAllKeeps == ASSUME ListInv, HandleReplaceAll PROVE ListInv'
<1>1. /\ UNCHANGED <<txns, notice, filters, page, searchInput, cache, fetches, previous, listNotes, selectionScope, write>>
      /\ dialog' = "replace" /\ shown.have /\ ~showingPrevious /\ searchInput = filters
  BY DEF HandleReplaceAll, serverList, queryVars, keyVars, selectVars, filterScopeUnsettled, searchPending
<1>2. cache[key].have
  BY <1>1 DEF shown, showingPrevious
<1>3. ListShapes' /\ ListIsTold' /\ key' = key
  BY <1>1, ListUntouched DEF ListInv, ListShapes
<1>4. QED
  BY <1>1, <1>2, <1>3 DEF ListInv, ScopeIsShown, FilterWriteIsWhatWasShown

\* The scope is read when the dialog is confirmed, and is of what is on screen then.
LEMMA ConfirmDialogKeeps == ASSUME ListInv, ConfirmDialog PROVE ListInv'
<1>1. UNCHANGED <<txns, notice, filters, page, searchInput, cache, fetches, previous, listNotes, selectionScope>>
  BY DEF ConfirmDialog, serverList, queryVars, keyVars, selectVars
<1>2. dialog' # "replace"
  BY DEF ConfirmDialog
<1>4. \/ write' = write
      \/ \E kind \in {"delete", "edit", "rename"}, byFilter \in BOOLEAN, ids \in {selectedIds, {}} :
           Send(kind, byFilter, ids) /\ (byFilter => selectionScope = "all-matching" \/ dialog = "replace")
  BY DEF ConfirmDialog
<1>3. ListShapes' /\ ListIsTold' /\ key' = key
  <2>1. DOMAIN write' = DOMAIN NoWrite
    BY <1>4, SendSays DEF ListInv, ListShapes
  <2>2. QED
    BY <1>1, <2>1, ListUntouched DEF ListInv, ListShapes
<1>5. FilterWriteIsWhatWasShown'
  <2>1. CASE write' = write
    BY <2>1 DEF ListInv, ScopeIsShown, FilterWriteIsWhatWasShown
  <2>2. ASSUME NEW kind \in {"delete", "edit", "rename"}, NEW byFilter \in BOOLEAN,
               NEW ids \in {selectedIds, {}}, Send(kind, byFilter, ids),
               byFilter => selectionScope = "all-matching" \/ dialog = "replace"
        PROVE  FilterWriteIsWhatWasShown'
    <3>1. byFilter => shown.filter = filters
      BY <2>2, ShownIsFiltered DEF ListInv, ScopeIsShown
    <3>2. QED
      BY <2>2, <3>1, SendSays DEF FilterWriteIsWhatWasShown
  <2>3. QED
    BY <1>4, <2>1, <2>2
<1>6. QED
  BY <1>1, <1>2, <1>3, <1>5 DEF ListInv, ScopeIsShown

LEMMA CancelDialogKeeps == ASSUME ListInv, CancelDialog PROVE ListInv'
<1>1. /\ UNCHANGED <<txns, notice, filters, page, searchInput, cache, fetches, previous, listNotes, selectionScope, write>>
      /\ dialog' # "replace"
  BY DEF CancelDialog, serverList, queryVars, keyVars, selectVars
<1>2. ListShapes' /\ ListIsTold' /\ key' = key
  BY <1>1, ListUntouched DEF ListInv, ListShapes
<1>3. QED
  BY <1>1, <1>2 DEF ListInv, ScopeIsShown, FilterWriteIsWhatWasShown

LEMMA RowWritesKeep == ASSUME ListInv, DeleteRow \/ UndoDelete PROVE ListInv'
<1>1. UNCHANGED <<txns, notice, filters, page, searchInput, cache, fetches, previous, listNotes, selectionScope, dialog>>
  BY DEF DeleteRow, UndoDelete, serverList, queryVars, keyVars, selectVars
<1>3. \E kind, ids : Send(kind, FALSE, ids)
  BY DEF DeleteRow, UndoDelete
<1>2. ListShapes' /\ ListIsTold' /\ key' = key
  <2>1. DOMAIN write' = DOMAIN NoWrite
    BY <1>3, SendSays
  <2>2. QED
    BY <1>1, <2>1, ListUntouched DEF ListInv, ListShapes
<1>4. FilterWriteIsWhatWasShown'
  BY <1>3, SendSays DEF FilterWriteIsWhatWasShown
<1>5. QED
  BY <1>1, <1>2, <1>4 DEF ListInv, ScopeIsShown
\* A change of filter or page: the scope is narrowed, and a key that is stale or has nothing is
\* asked for, unless it is being asked for.
LEMMA ActivateKeeps ==
  ASSUME ListInv, NEW f \in Filters, NEW p \in Pages, f # filters \/ p # page, Activate(f, p),
         searchInput' \in Filters, UNCHANGED <<txns, notice, dialog, write, listNotes>>,
         dialog # "replace"
  PROVE  ListInv'
<1> DEFINE k0 == [filter |-> f, page |-> p]
<1>1. k0 \in Keys /\ key' = k0
  BY DEF Activate, Keys, key
<1>2. /\ filters' = f /\ page' = p /\ UNCHANGED cache /\ selectionScope' = "page"
      /\ previous' \in {Nothing, shown}
      /\ \/ fetches' = [fetches EXCEPT ![k0] = Asked]
         \/ fetches' = fetches /\ ((cache[k0].have /\ ~cache[k0].stale) \/ fetches[k0].phase # "none")
  BY DEF Activate
<1> HIDE DEF k0
<1>3. \A k \in Keys : fetches'[k] = fetches[k] \/ fetches'[k] = Asked
  BY <1>1, <1>2 DEF ListInv, ListShapes
<1>4. previous'.rows # {} => previous'.have
  BY <1>2 DEF Nothing, shown, ListInv, ListShapes
<1>5. ListShapes'
  BY <1>1, <1>2, <1>3, <1>4, RequestShapes DEF ListInv, ListShapes
<1>6. ScopeIsShown'
  BY <1>2 DEF ListInv, ScopeIsShown, FilterWriteIsWhatWasShown
<1>7. ListIsTold'
  <2> SUFFICES ASSUME listNotes' = {} PROVE ListIsTold'
    BY DEF ListIsTold
  <2>1. cache'[k0].have /\ cache'[k0].stale => fetches'[k0].phase # "none"
    BY <1>1, <1>2, RequestShapes DEF ListInv, ListShapes
  <2>2. ASSUME ~notice', NEW k \in Keys
        PROVE  /\ cache'[k].have /\ ~cache'[k].stale => cache'[k] = QueryAnswer(k)'
               /\ fetches'[k].phase = "served" => fetches'[k].answer = QueryAnswer(k)'
    BY <1>2, <1>3, <2>2, SameAnswer, RequestShapes DEF ListInv, ListIsTold
  <2>3. QED
    BY <1>1, <2>1, <2>2 DEF ListIsTold
<1>8. QED
  BY <1>5, <1>6, <1>7 DEF ListInv

LEMMA KeyChangesKeep == ASSUME ListInv, CommitSearch \/ SetFilter \/ SetPage PROVE ListInv'
<1>1. filters \in Filters /\ searchInput \in Filters /\ page \in Pages /\ 1 \in Pages
  BY FirstPage DEF ListInv, ListShapes
<1>2. UNCHANGED <<txns, notice, dialog, write, listNotes>>
  BY DEF CommitSearch, SetFilter, SetPage, serverList
<1>3. CASE CommitSearch
  <2>1. searchInput # filters /\ Activate(searchInput, 1) /\ searchInput' = searchInput
    BY <1>3 DEF CommitSearch, searchPending
  <2>2. dialog # "replace"
    BY <2>1 DEF ListInv, ScopeIsShown
  <2>3. QED
    BY <1>1, <1>2, <2>1, <2>2, ActivateKeeps
<1>4. CASE SetFilter
  BY <1>1, <1>2, <1>4, ActivateKeeps DEF SetFilter
<1>5. CASE SetPage
  BY <1>1, <1>2, <1>5, ActivateKeeps DEF SetPage
<1>6. QED
  BY <1>3, <1>4, <1>5

LEMMA ListServeKeeps == ASSUME ListInv, ListServe PROVE ListInv'
<1>1. PICK k0 \in Keys : /\ fetches[k0].phase = "asked"
                         /\ fetches' = [fetches EXCEPT ![k0] = [phase |-> "served", answer |-> QueryAnswer(k0)]]
  BY DEF ListServe
<1>2. UNCHANGED <<txns, notice, filters, page, searchInput, cache, previous, selectionScope, dialog, write, listNotes>>
  BY DEF ListServe, serverList, keyVars, selectVars
<1> DEFINE r == [phase |-> "served", answer |-> QueryAnswer(k0)]
<1>3. /\ r \in [phase : {"none", "asked", "served"}, answer : ListPages]
      /\ r.phase = "served" /\ r.answer = QueryAnswer(k0) /\ r.answer.have /\ ~r.answer.stale
  BY AnswerShape
<1>4. \A k \in Keys : fetches'[k] = IF k = k0 THEN r ELSE fetches[k]
  BY <1>1 DEF ListInv, ListShapes
<1>5. fetches' = [fetches EXCEPT ![k0] = r]
  BY <1>1
<1> HIDE DEF r
<1>6. ListShapes'
  BY <1>2, <1>3, <1>4, <1>5 DEF ListInv, ListShapes
<1>7. key' = key /\ ScopeIsShown'
  BY <1>2 DEF key, ListInv, ScopeIsShown, FilterWriteIsWhatWasShown
<1>8. ListIsTold'
  <2> SUFFICES ASSUME listNotes' = {} PROVE ListIsTold'
    BY DEF ListIsTold
  <2>1. cache'[key].have /\ cache'[key].stale => fetches'[key].phase # "none"
    BY <1>2, <1>3, <1>4, KeyIsKey DEF ListInv, ListIsTold
  <2>2. ASSUME ~notice', NEW k \in Keys
        PROVE  /\ cache'[k].have /\ ~cache'[k].stale => cache'[k] = QueryAnswer(k)'
               /\ fetches'[k].phase = "served" => fetches'[k].answer = QueryAnswer(k)'
    BY <1>2, <1>3, <1>4, <2>2, SameAnswer DEF ListInv, ListIsTold
  <2>3. QED
    BY <1>7, <2>1, <2>2 DEF ListIsTold
<1>9. QED
  BY <1>6, <1>7, <1>8 DEF ListInv

\* An answer replaces what is cached, and may end a bulk edit.
LEMMA ListAnswerKeeps == ASSUME ListInv, ListAnswer PROVE ListInv'
<1>1. PICK k0 \in Keys : /\ fetches[k0].phase = "served"
                         /\ cache' = [cache EXCEPT ![k0] = fetches[k0].answer]
                         /\ fetches' = [fetches EXCEPT ![k0] = NoFetch]
                         /\ previous' \in {Nothing, previous}
                         /\ FinishEdit(k0, fetches[k0].answer.rows)
  BY DEF ListAnswer
<1>2. UNCHANGED <<txns, notice, filters, page, searchInput, listNotes>>
  BY DEF ListAnswer, serverList, keyVars
<1>3. /\ selectionScope' \in {selectionScope, "page"} /\ write' \in {write, NoWrite}
      /\ dialog' = dialog \/ dialog' = "none"
  BY <1>1 DEF FinishEdit, selectVars
<1>4. /\ \A k \in Keys : fetches'[k] = IF k = k0 THEN NoFetch ELSE fetches[k]
      /\ \A k \in Keys : cache'[k] = IF k = k0 THEN fetches[k0].answer ELSE cache[k]
      /\ fetches[k0].answer \in ListPages /\ fetches[k0].answer.have
  BY <1>1 DEF ListInv, ListShapes
<1>5. ListShapes'
  <2>1. previous'.rows # {} => previous'.have
    BY <1>1 DEF Nothing, ListInv, ListShapes
  <2>2. DOMAIN write' = DOMAIN NoWrite
    BY <1>3 DEF ListInv, ListShapes
  <2>3. QED
    BY <1>1, <1>2, <1>4, <2>1, <2>2, RequestShapes DEF ListInv, ListShapes
<1>6. key' = key
  BY <1>2 DEF key
<1>7. ScopeIsShown'
  BY <1>2, <1>3, <1>4, <1>6, KeyIsKey, NoWriteSays DEF ListInv, ScopeIsShown, FilterWriteIsWhatWasShown
<1>8. ListIsTold'
  <2> SUFFICES ASSUME listNotes' = {} PROVE ListIsTold'
    BY DEF ListIsTold
  <2>1. cache'[key].have /\ cache'[key].stale => fetches'[key].phase # "none"
    <3>1. CASE key = k0
      BY <1>1, <1>4, <3>1 DEF ListInv, ListShapes
    <3>2. CASE key # k0
      BY <1>2, <1>4, <3>2, KeyIsKey DEF ListInv, ListIsTold
    <3>3. QED
      BY <3>1, <3>2
  <2>2. ASSUME ~notice', NEW k \in Keys
        PROVE  /\ cache'[k].have /\ ~cache'[k].stale => cache'[k] = QueryAnswer(k)'
               /\ fetches'[k].phase = "served" => fetches'[k].answer = QueryAnswer(k)'
    BY <1>1, <1>2, <1>4, <2>2, SameAnswer, RequestShapes DEF ListInv, ListIsTold
  <2>3. QED
    BY <1>6, <2>1, <2>2 DEF ListIsTold
<1>9. QED
  BY <1>5, <1>7, <1>8 DEF ListInv
LEMMA ListFailsKeeps == ASSUME ListInv, ListFails PROVE ListInv'
<1>1. PICK k0 \in Keys : /\ fetches' = [fetches EXCEPT ![k0] = NoFetch]
                         /\ cache' = [cache EXCEPT ![k0].stale = cache[k0].have]
                         /\ previous' \in {Nothing, previous}
  BY DEF ListFails
<1>2. /\ UNCHANGED <<txns, notice, filters, page, searchInput, selectionScope, dialog>>
      /\ write' \in {write, NoWrite} /\ listNotes' # {}
  BY DEF ListFails, serverList, keyVars, selectVars
<1>3. /\ \A k \in Keys : fetches'[k] = IF k = k0 THEN NoFetch ELSE fetches[k]
      /\ \A k \in Keys : cache'[k].have = cache[k].have
      /\ cache' \in [Keys -> ListPages]
  <2>1. cache \in [Keys -> ListPages] /\ cache[k0] \in ListPages /\ cache[k0].have \in BOOLEAN
    BY DEF ListInv, ListShapes, ListPages
  <2>2. PICK q \in ListPages : q = [cache[k0] EXCEPT !.stale = cache[k0].have] /\ q.have = cache[k0].have
    BY <2>1, MarkedShape
  <2>3. cache' = [cache EXCEPT ![k0] = q]
    BY <1>1, <2>2
  <2>4. QED
    BY <1>1, <2>1, <2>2, <2>3 DEF ListInv, ListShapes
<1>4. ListShapes'
  <2>1. previous'.rows # {} => previous'.have
    BY <1>1 DEF Nothing, ListInv, ListShapes
  <2>2. QED
    BY <1>1, <1>2, <1>3, <2>1, RequestShapes DEF ListInv, ListShapes
<1>5. key' = key
  BY <1>2 DEF key
<1>6. ScopeIsShown'
  BY <1>2, <1>3, <1>5, KeyIsKey, NoWriteSays DEF ListInv, ScopeIsShown, FilterWriteIsWhatWasShown
<1>7. ListIsTold'
  BY <1>2 DEF ListIsTold
<1>8. QED
  BY <1>4, <1>6, <1>7 DEF ListInv

\* A refetch asks for the key on screen, or leaves a first request to its answer.
LEMMA RefetchedShape ==
  ASSUME ListShapes
  PROVE  /\ Refetched[key].phase # "none" 
         /\ \A k \in Keys : Refetched[k] = fetches[k] \/ Refetched[k] = Asked
         /\ Refetched \in [Keys -> [phase : {"none", "asked", "served"}, answer : ListPages]]
<1>1. key \in Keys
  BY KeyIsKey
<1>2. QED
  BY <1>1, RequestShapes DEF Refetched, ListShapes

\* Everything cached is stale, and no answer is left on its way that was formed before.
LEMMA InvalidateAllKeeps ==
  ASSUME ListInv, InvalidateAll, UNCHANGED <<filters, page, searchInput, previous>>,
         notice' \in BOOLEAN, DOMAIN write' = DOMAIN NoWrite
  PROVE  ListShapes' /\ ListIsTold' /\ key' = key /\ \A k \in Keys : cache'[k].have = cache[k].have
<1>1. /\ cache' = [k \in Keys |-> [cache[k] EXCEPT !.stale = cache[k].have]]
      /\ fetches' = Refetched
      /\ listNotes' = IF Overtaken THEN listNotes \cup {"overtaken"} ELSE listNotes
  BY DEF InvalidateAll
<1>2. /\ cache' \in [Keys -> ListPages]
      /\ \A k \in Keys : cache'[k].have = cache[k].have /\ cache'[k].stale = cache[k].have
  <2>1. \A k \in Keys : cache[k] \in ListPages /\ cache[k].have \in BOOLEAN
    BY DEF ListInv, ListShapes, ListPages
  <2>2. \A k \in Keys : LET q == [cache[k] EXCEPT !.stale = cache[k].have]
                       IN  q \in ListPages /\ q.have = cache[k].have /\ q.stale = cache[k].have
    BY <2>1, MarkedShape
  <2>3. QED
    BY <1>1, <2>2
<1>3. key' = key
  BY DEF key
<1>4. ListShapes'
  BY <1>1, <1>2, RefetchedShape, RequestShapes DEF ListInv, ListShapes
<1>5. ListIsTold'
  <2> SUFFICES ASSUME listNotes' = {} PROVE ListIsTold'
    BY DEF ListIsTold
  <2>1. fetches'[key].phase # "none"
    BY <1>1, RefetchedShape DEF ListInv
  <2>2. ~Overtaken
    BY <1>1
  <2>3. \A k \in Keys : fetches'[k].phase # "served"
    BY <1>1, <2>2, RefetchedShape, RequestShapes DEF Overtaken, ListInv
  <2>4. QED
    BY <1>2, <1>3, <2>1, <2>3 DEF ListIsTold
<1>6. QED
  BY <1>2, <1>3, <1>4, <1>5

LEMMA DeliverNoticeKeeps == ASSUME ListInv, DeliverNotice PROVE ListInv'
<1>1. /\ InvalidateAll /\ UNCHANGED <<filters, page, searchInput, previous>>
      /\ UNCHANGED <<selectionScope, dialog, write>> /\ notice' \in BOOLEAN
  BY DEF DeliverNotice, keyVars, selectVars
<1>2. ListShapes' /\ ListIsTold' /\ key' = key /\ \A k \in Keys : cache'[k].have = cache[k].have
  BY <1>1, InvalidateAllKeeps DEF ListInv, ListShapes
<1>3. QED
  BY <1>1, <1>2, KeyIsKey DEF ListInv, ScopeIsShown, FilterWriteIsWhatWasShown

\* What changes the transactions is announced, so nothing is promised of the cache until then.
LEMMA ServerChangeKeeps ==
  ASSUME ListInv, UNCHANGED <<filters, page, searchInput, cache, fetches, previous, listNotes, selectionScope, dialog>>,
         notice' \in BOOLEAN, (txns' = txns /\ notice' = notice) \/ notice' = TRUE,
         DOMAIN write' = DOMAIN NoWrite,
         write'.filter = write.filter /\ write'.shown = write.shown /\ write'.byFilter = write.byFilter,
         write'.phase # "none" => write.phase # "none"
  PROVE  ListInv'
<1>1. ListShapes'
  BY DEF ListInv, ListShapes
<1>2. key' = key
  BY DEF key
<1>3. ScopeIsShown'
  BY <1>2 DEF ListInv, ScopeIsShown, FilterWriteIsWhatWasShown
<1>4. ListIsTold'
  BY <1>2, SameAnswer DEF ListInv, ListIsTold
<1>5. QED
  BY <1>1, <1>3, <1>4 DEF ListInv

LEMMA OthersChangeKeeps == ASSUME ListInv, OthersChange PROVE ListInv'
<1>1. /\ UNCHANGED <<filters, page, searchInput, cache, fetches, previous, listNotes, selectionScope, dialog, write>>
      /\ notice' = TRUE
  BY DEF OthersChange, keyVars, queryVars, selectVars
<1>2. QED
  BY <1>1, ServerChangeKeeps DEF ListInv, ListShapes

LEMMA WriteServeKeeps == ASSUME ListInv, WriteServe PROVE ListInv'
<1>1. /\ UNCHANGED <<filters, page, searchInput, cache, fetches, previous, listNotes, selectionScope, dialog>>
      /\ write.phase = "sent"
  BY DEF WriteServe, keyVars, queryVars, selectVars
<1>2. \/ write' = [write EXCEPT !.phase = "answered", !.ok = TRUE]
      \/ write' = [write EXCEPT !.phase = "answered"]
  BY DEF WriteServe
<1>3. /\ write'.filter = write.filter /\ write'.shown = write.shown /\ write'.byFilter = write.byFilter
      /\ DOMAIN write' = DOMAIN NoWrite
  <2>1. DOMAIN write = DOMAIN NoWrite
    BY DEF ListInv, ListShapes
  <2>2. {"phase", "ok", "filter", "shown", "byFilter"} \subseteq DOMAIN NoWrite
    BY DEF NoWrite
  <2>3. QED
    BY <1>2, <2>1, <2>2
<1>4. notice' \in BOOLEAN /\ ((txns' = txns /\ notice' = notice) \/ notice' = TRUE)
  <2>1. notice \in BOOLEAN
    BY DEF ListInv, ListShapes
  <2>2. CASE UNCHANGED serverList
    BY <2>1, <2>2 DEF serverList
  <2>3. CASE notice' = (notice \/ txns' # txns)
    BY <2>1, <2>3
  <2>4. QED
    BY <2>2, <2>3 DEF WriteServe, Apply
<1>5. QED
  BY <1>1, <1>3, <1>4, ServerChangeKeeps
\* A refetch of what is on screen leaves the rest as it was.
LEMMA RefetchKeeps ==
  ASSUME ListInv, fetches' = Refetched, DOMAIN write' = DOMAIN NoWrite,
         UNCHANGED <<txns, notice, filters, page, searchInput, cache, previous, listNotes>>
  PROVE  ListShapes' /\ ListIsTold' /\ key' = key
<1>1. ListShapes'
  BY RefetchedShape, RequestShapes DEF ListInv, ListShapes
<1>2. key' = key
  BY DEF key
<1>3. ListIsTold'
  <2> SUFFICES ASSUME listNotes' = {} PROVE ListIsTold'
    BY DEF ListIsTold
  <2>1. fetches'[key].phase # "none"
    BY RefetchedShape DEF ListInv
  <2>2. ASSUME ~notice', NEW k \in Keys
        PROVE  /\ cache'[k].have /\ ~cache'[k].stale => cache'[k] = QueryAnswer(k)'
               /\ fetches'[k].phase = "served" => fetches'[k].answer = QueryAnswer(k)'
    BY <2>2, RefetchedShape, RequestShapes, SameAnswer DEF ListInv, ListIsTold
  <2>3. QED
    BY <1>2, <2>1, <2>2 DEF ListIsTold
<1>4. QED
  BY <1>1, <1>2, <1>3

LEMMA WriteAnswerKeeps == ASSUME ListInv, WriteAnswer PROVE ListInv'
<1>1. write.phase = "answered" /\ UNCHANGED <<txns, notice, filters, page, searchInput>>
  BY DEF WriteAnswer, serverList, keyVars
<1>2. notice \in BOOLEAN /\ DOMAIN write = DOMAIN NoWrite /\ searchInput \in Filters
  BY DEF ListInv, ListShapes
<1>3. CASE write' = NoWrite /\ UNCHANGED <<cache, fetches, previous, selectionScope, dialog, listNotes>>
  <2>1. ListShapes' /\ ListIsTold' /\ key' = key
    BY <1>1, <1>2, <1>3, ListUntouched
  <2>2. QED
    BY <1>1, <1>3, <2>1, NoWriteSays DEF ListInv, ScopeIsShown, FilterWriteIsWhatWasShown
<1>4. CASE /\ write' = NoWrite /\ InvalidateAll /\ UNCHANGED previous
           /\ selectionScope' \in {selectionScope, "page"} /\ dialog' \in {dialog, "none"}
  <2>1. ListShapes' /\ ListIsTold' /\ key' = key /\ \A k \in Keys : cache'[k].have = cache[k].have
    BY <1>1, <1>2, <1>4, InvalidateAllKeeps
  <2>2. QED
    BY <1>1, <1>4, <2>1, KeyIsKey, NoWriteSays DEF ListInv, ScopeIsShown, FilterWriteIsWhatWasShown
<1>5. CASE /\ write' = NoWrite /\ fetches' = Refetched /\ UNCHANGED <<cache, previous, listNotes>>
           /\ selectionScope' = "page" /\ dialog' = "none"
  <2>1. ListShapes' /\ ListIsTold' /\ key' = key
    BY <1>1, <1>2, <1>5, RefetchKeeps
  <2>2. QED
    BY <1>1, <1>5, <2>1, NoWriteSays DEF ListInv, ScopeIsShown, FilterWriteIsWhatWasShown
<1>6. CASE /\ write' = [write EXCEPT !.phase = "refetching", !.key = key] /\ fetches' = Refetched
           /\ UNCHANGED <<cache, previous, listNotes, selectionScope, dialog>>
  <2>1. {"phase", "key", "filter", "shown", "byFilter"} \subseteq DOMAIN NoWrite
    BY DEF NoWrite
  <2>2. /\ write'.filter = write.filter /\ write'.shown = write.shown /\ write'.byFilter = write.byFilter
        /\ DOMAIN write' = DOMAIN NoWrite
    BY <1>2, <1>6, <2>1
  <2>3. ListShapes' /\ ListIsTold' /\ key' = key
    BY <1>1, <1>2, <1>6, <2>2, RefetchKeeps
  <2>4. QED
    BY <1>1, <1>6, <2>2, <2>3 DEF ListInv, ScopeIsShown, FilterWriteIsWhatWasShown
<1>7. QED
  BY <1>3, <1>4, <1>5, <1>6 DEF WriteAnswer, queryVars, selectVars

LEMMA ListStarts == ASSUME ListInit PROVE ListInv
<1>1. /\ txns = [t \in TxnIds |-> [live |-> TRUE, hit |-> TRUE]] /\ notice = FALSE
      /\ filters = "all" /\ searchInput = "all" /\ page = 1 /\ cache = [k \in Keys |-> Empty]
      /\ fetches = [k \in Keys |-> IF k = key THEN Asked ELSE NoFetch] /\ previous = Nothing
      /\ selectionScope = "page" /\ dialog = "none" /\ write = NoWrite /\ listNotes = {}
  BY DEF ListInit
<1>2. "all" \in Filters /\ "all" # "hits" /\ Nothing.rows = {}
  BY DEF Filters, Nothing
<1>3. ListShapes
  BY <1>1, <1>2, FirstPage, RequestShapes DEF ListShapes
<1>4. key \in Keys
  BY <1>3, KeyIsKey
<1>5. ScopeIsShown
  BY <1>1, NoWriteSays DEF ScopeIsShown, FilterWriteIsWhatWasShown
<1>6. ListIsTold
  BY <1>1, <1>4, RequestShapes DEF ListIsTold
<1>7. QED
  BY <1>3, <1>5, <1>6 DEF ListInv

LEMMA ListStep == ASSUME ListInv, [ListNext]_listVars PROVE ListInv'
<1>1. CASE ListNext
  BY <1>1, TypeSearchKeeps, KeyChangesKeep, ListServeKeeps, ListAnswerKeeps, ListFailsKeeps, SelectKeeps,
     SelectAllMatchingKeeps, RequestBulkDeleteKeeps, OpenBulkEditKeeps, HandleReplaceAllKeeps,
     ConfirmDialogKeeps, CancelDialogKeeps, RowWritesKeep, WriteServeKeeps, WriteAnswerKeeps,
     OthersChangeKeeps, DeliverNoticeKeeps DEF ListNext
<1>2. CASE UNCHANGED listVars
  <2>1. UNCHANGED <<txns, notice, filters, page, searchInput, cache, fetches, previous, listNotes,
                    selectionScope, dialog, write>>
    BY <1>2 DEF listVars, serverList, keyVars, queryVars, selectVars
  <2>2. notice' \in BOOLEAN /\ DOMAIN write' = DOMAIN NoWrite
    BY <2>1 DEF ListInv, ListShapes
  <2>3. QED
    BY <2>1, <2>2, ServerChangeKeeps
<1>3. QED
  BY <1>1, <1>2

LEMMA ListInvHolds == ListInv => FilterWriteIsWhatWasShown /\ ListCatchesUp
<1> SUFFICES ASSUME ListInv PROVE FilterWriteIsWhatWasShown /\ ListCatchesUp
  OBVIOUS
<1>1. FilterWriteIsWhatWasShown
  BY DEF ListInv, ScopeIsShown
<1>2. ListCatchesUp
  BY KeyIsKey DEF ListInv, ListIsTold, ListCatchesUp
<1>3. QED
  BY <1>1, <1>2

\* However late a list, a keystroke or a notice comes, a write by filter has the filter of
\* the rows that were on screen, and the list catches up with the server unless a load failed or
\* was overtaken (filterScopeUnsettled and the query cache of Transactions.tsx).
THEOREM ListsHold == ListSpec => [](FilterWriteIsWhatWasShown /\ ListCatchesUp)
<1>1. ListInit => ListInv
  BY ListStarts
<1>2. ListInv /\ [ListNext]_listVars => ListInv'
  BY ListStep
<1>3. ListInv => FilterWriteIsWhatWasShown /\ ListCatchesUp
  BY ListInvHolds
<1>4. QED
  BY <1>1, <1>2, <1>3, PTL DEF ListSpec

\* The number of rows of a set that are newer than a row tells it apart.
LEMMA RanksDiffer ==
  ASSUME NEW T, IsFiniteSet(T), T \subseteq Int, NEW t \in T, NEW u \in T, t < u
  PROVE  Cardinality({v \in T : v > u}) < Cardinality({v \in T : v > t})
<1> DEFINE A == {v \in T : v > u}
           B == {v \in T : v > t}
<1>1. IsFiniteSet(B) /\ IsFiniteSet(A)
  BY FS_Subset
<1>2. A \subseteq B /\ u \in B /\ u \notin A
  <2>1. \A v \in T : v \in Int /\ t \in Int /\ u \in Int
    OBVIOUS
  <2>2. ASSUME NEW v \in A PROVE v \in B
    <3>1. v \in T /\ v > u
      OBVIOUS
    <3>2. v > t
      BY <2>1, <3>1
    <3>3. QED
      BY <3>1, <3>2
  <2>3. u \in B /\ u \notin A
    BY <2>1
  <2>4. QED
    BY <2>2, <2>3
<1>3. Cardinality(A) <= Cardinality(B) /\ Cardinality(A) # Cardinality(B)
  BY <1>1, <1>2, FS_Subset
<1>4. Cardinality(A) \in Nat /\ Cardinality(B) \in Nat
  BY <1>1, FS_CardinalityType
<1>5. QED
  BY <1>3, <1>4

\* A page of a list holds no more rows than a page has.
LEMMA PageFits ==
  ASSUME NEW T, IsFiniteSet(T), T \subseteq Int, NEW n \in Nat \ {0}, NEW p \in Int,
         NEW P, P = {t \in T : Cardinality({u \in T : u > t}) \div n = p}
  PROVE  IsFiniteSet(P) /\ Cardinality(P) <= n
<1> DEFINE rank(t) == Cardinality({u \in T : u > t})
           f == [t \in P |-> rank(t)]
           R == (p * n)..(p * n + n - 1)
<1>1. \A t \in T : rank(t) \in Nat
  BY FS_Subset, FS_CardinalityType
<1>2. p * n \in Int
  OBVIOUS
<1>3. \A t \in P : rank(t) \in R
  <2>1. TAKE t \in P
  <2>2. rank(t) \in Nat /\ rank(t) \div n = p
    BY <1>1
  <2>3. \A r \in Nat : r \div n = p => p * n <= r /\ r <= p * n + n - 1
    OBVIOUS
  <2>4. QED
    BY <1>2, <2>2, <2>3
<1>4. \A t, u \in P : t # u => f[t] # f[u]
  <2>1. TAKE t, u \in P
  <2>2. CASE t < u
    <3>1. rank(u) < rank(t)
      BY <2>2, RanksDiffer
    <3>2. QED
      BY <1>1, <3>1
  <2>3. CASE u < t
    <3>1. rank(t) < rank(u)
      BY <2>3, RanksDiffer
    <3>2. QED
      BY <1>1, <3>1
  <2>4. QED
    BY <2>2, <2>3
<1>5. f \in Injection(P, R)
  BY <1>3, <1>4, Fun_IsInj
<1>6. IsFiniteSet(R) /\ Cardinality(R) = n
  BY <1>2, FS_Interval
<1>7. QED
  BY <1>5, <1>6, FS_Injection

\* The list is of its type: no page holds more rows than a page has, and what is selected, written
\* or to be restored are rows.
ListFetches == [phase : {"none", "asked", "served"}, answer : ListPages]
ListShows == [have : BOOLEAN, rows : SUBSET TxnIds, total : Nat, filter : Filters]
ListWrites ==
  [phase : {"none", "sent", "answered", "refetching"}, kind : {"delete", "deleteOne", "restore", "edit", "rename"},
   byFilter : BOOLEAN, filter : Filters, ids : SUBSET TxnIds, ok : BOOLEAN, shown : Filters, key : Keys]

PagesFit ==
  \A k \in Keys : Cardinality(cache[k].rows) <= PerPage /\ Cardinality(fetches[k].answer.rows) <= PerPage

RowsAreRows ==
  /\ txns \in [TxnIds -> [live : BOOLEAN, hit : BOOLEAN]]
  /\ previous \in ListShows /\ selectedIds \subseteq TxnIds /\ selectionScope \in {"page", "all-matching"}
  /\ write \in ListWrites /\ (write.kind = "deleteOne" => write.ids # {}) /\ undoable \in 0..TxnCount

LEMMA AnswerFits == ASSUME NEW k \in Keys PROVE Cardinality(QueryAnswer(k).rows) <= PerPage
<1> DEFINE T == Matching(k.filter)
           P == {t \in T : Cardinality({u \in T : u > t}) \div PerPage = k.page - 1}
<1>1. T \subseteq TxnIds /\ TxnIds \subseteq Int
  BY DEF Matching, TxnIds
<1>2. IsFiniteSet(T)
  <2>1. IsFiniteSet(TxnIds)
    BY FS_Interval, ListAssumption DEF TxnIds
  <2>2. QED
    BY <1>1, <2>1, FS_Subset
<1>3. PerPage \in Nat \ {0} /\ k.page - 1 \in Int
  BY ListAssumption DEF Keys, Pages
<1> HIDE DEF T
<1>4. Cardinality(P) <= PerPage
  BY <1>1, <1>2, <1>3, PageFits
<1>5. QueryAnswer(k).rows = P
  BY DEF QueryAnswer, T
<1>6. QED
  BY <1>4, <1>5

LEMMA PagesFitKept == ASSUME ListInv, PagesFit, [ListNext]_listVars PROVE PagesFit'
<1>1. /\ cache \in [Keys -> ListPages] /\ fetches \in [Keys -> ListFetches] /\ key \in Keys
      /\ NoFetch.answer.rows = {} /\ Asked.answer.rows = {}
      /\ PerPage \in Nat /\ Cardinality({}) = 0
  BY KeyIsKey, ListAssumption, FS_EmptySet DEF ListInv, ListShapes, ListFetches, NoFetch, Asked, Empty
<1>2. ASSUME \A k \in Keys : cache'[k].rows \in {cache[k].rows, fetches[k].answer.rows},
             \A k \in Keys : fetches'[k].answer.rows \in {{}, fetches[k].answer.rows, QueryAnswer(k).rows}
      PROVE  PagesFit'
  <2>1. ASSUME NEW k \in Keys
        PROVE  Cardinality(cache'[k].rows) <= PerPage /\ Cardinality(fetches'[k].answer.rows) <= PerPage
    <3>1. /\ Cardinality(cache[k].rows) <= PerPage /\ Cardinality(fetches[k].answer.rows) <= PerPage
          /\ Cardinality(QueryAnswer(k).rows) <= PerPage /\ Cardinality({}) <= PerPage
      BY <1>1, AnswerFits DEF PagesFit
    <3>2. QED
      BY <1>2, <3>1
  <2>2. QED
    BY <2>1 DEF PagesFit
<1>3. ASSUME cache' = cache \/ InvalidateAll \/ (\E k \in Keys : cache' = [cache EXCEPT ![k].stale = cache[k].have])
      PROVE  \A k \in Keys : cache'[k].rows = cache[k].rows
  <2>1. \A k \in Keys : \A b : [cache[k] EXCEPT !.stale = b].rows = cache[k].rows
    BY <1>1 DEF ListPages
  <2>2. CASE cache' = cache
    BY <2>2
  <2>3. CASE InvalidateAll
    BY <2>1, <2>3 DEF InvalidateAll
  <2>4. CASE \E k \in Keys : cache' = [cache EXCEPT ![k].stale = cache[k].have]
    <3>1. PICK k \in Keys : cache' = [cache EXCEPT ![k] = [cache[k] EXCEPT !.stale = cache[k].have]]
      BY <2>4
    <3>2. QED
      BY <1>1, <2>1, <3>1
  <2>5. QED
    BY <1>3, <2>2, <2>3, <2>4
<1>4. ASSUME NEW k \in Keys, fetches' \in {fetches, [fetches EXCEPT ![k] = Asked], [fetches EXCEPT ![k] = NoFetch]}
      PROVE  \A j \in Keys : fetches'[j].answer.rows \in {{}, fetches[j].answer.rows}
  BY <1>1, <1>4
<1>5. Refetched \in {fetches, [fetches EXCEPT ![key] = Asked]}
  BY DEF Refetched
<1>6. CASE TypeSearch \/ Select \/ SelectAllMatching \/ RequestBulkDelete \/ OpenBulkEdit \/ HandleReplaceAll
  BY <1>2, <1>6 DEF TypeSearch, Select, SelectAllMatching, RequestBulkDelete, OpenBulkEdit, HandleReplaceAll,
                    queryVars
<1>7. CASE ConfirmDialog \/ CancelDialog \/ DeleteRow \/ UndoDelete \/ WriteServe \/ OthersChange \/ UNCHANGED listVars
  BY <1>2, <1>7 DEF ConfirmDialog, CancelDialog, DeleteRow, UndoDelete, WriteServe, OthersChange, listVars, queryVars
<1>8. ASSUME NEW f \in Filters, NEW p \in Pages, Activate(f, p) PROVE PagesFit'
  <2> DEFINE k == [filter |-> f, page |-> p]
  <2>1. k \in Keys /\ cache' = cache /\ fetches' \in {fetches, [fetches EXCEPT ![k] = Asked]}
    BY <1>8 DEF Activate, Keys
  <2> HIDE DEF k
  <2>2. QED
    BY <1>2, <1>4, <2>1
<1>9. CASE CommitSearch \/ SetFilter \/ SetPage
  <2>1. searchInput \in Filters /\ filters \in Filters /\ 1 \in Pages
    BY FirstPage DEF ListInv, ListShapes
  <2>2. \E f \in Filters, p \in Pages : Activate(f, p)
    BY <1>9, <2>1 DEF CommitSearch, SetFilter, SetPage
  <2>3. QED
    BY <1>8, <2>2
<1>10. CASE ListServe
  <2>1. PICK k \in Keys : fetches' = [fetches EXCEPT ![k] = [phase |-> "served", answer |-> QueryAnswer(k)]]
                          /\ cache' = cache
    BY <1>10 DEF ListServe
  <2>2. \A j \in Keys : fetches'[j].answer.rows \in {fetches[j].answer.rows, QueryAnswer(j).rows}
    BY <1>1, <2>1
  <2>3. QED
    BY <1>2, <2>1, <2>2
<1>11. CASE ListAnswer
  <2>1. PICK k \in Keys : cache' = [cache EXCEPT ![k] = fetches[k].answer] /\ fetches' = [fetches EXCEPT ![k] = NoFetch]
    BY <1>11 DEF ListAnswer
  <2>2. \A j \in Keys : cache'[j].rows \in {cache[j].rows, fetches[j].answer.rows}
    BY <1>1, <2>1
  <2>3. QED
    BY <1>2, <1>4, <2>1, <2>2
<1>12. CASE ListFails
  <2>1. PICK k \in Keys : /\ fetches' = [fetches EXCEPT ![k] = NoFetch]
                          /\ cache' = [cache EXCEPT ![k].stale = cache[k].have]
    BY <1>12 DEF ListFails
  <2>2. QED
    BY <1>2, <1>3, <1>4, <2>1
<1>13. CASE WriteAnswer \/ DeliverNotice
  <2>1. (cache' = cache \/ InvalidateAll) /\ fetches' \in {fetches, Refetched}
    BY <1>13 DEF WriteAnswer, DeliverNotice, InvalidateAll, queryVars
  <2>2. QED
    BY <1>1, <1>2, <1>3, <1>4, <1>5, <2>1
<1>14. QED
  BY <1>6, <1>7, <1>9, <1>10, <1>11, <1>12, <1>13 DEF ListNext

LEMMA WriteFields ==
  /\ NoWrite \in ListWrites /\ NoWrite.kind # "deleteOne"
  /\ \A w \in ListWrites :
       /\ LET v == [w EXCEPT !.phase = "answered"] IN v \in ListWrites /\ v.kind = w.kind /\ v.ids = w.ids
       /\ LET v == [w EXCEPT !.phase = "answered", !.ok = TRUE]
          IN  v \in ListWrites /\ v.kind = w.kind /\ v.ids = w.ids
       /\ \A k \in Keys :
            LET v == [w EXCEPT !.phase = "refetching", !.key = k]
            IN  v \in ListWrites /\ v.kind = w.kind /\ v.ids = w.ids
<1>1. [filter |-> "all", page |-> 1] \in Keys
  BY FirstPage DEF Keys, Filters
<1>2. NoWrite \in ListWrites /\ NoWrite.kind # "deleteOne"
  BY <1>1 DEF NoWrite, ListWrites, Filters
<1>3. ASSUME NEW w \in ListWrites
      PROVE  /\ LET v == [w EXCEPT !.phase = "answered"] IN v \in ListWrites /\ v.kind = w.kind /\ v.ids = w.ids
             /\ LET v == [w EXCEPT !.phase = "answered", !.ok = TRUE]
                IN  v \in ListWrites /\ v.kind = w.kind /\ v.ids = w.ids
  BY DEF ListWrites
<1>4. ASSUME NEW w \in ListWrites, NEW k \in Keys
      PROVE  LET v == [w EXCEPT !.phase = "refetching", !.key = k]
             IN  v \in ListWrites /\ v.kind = w.kind /\ v.ids = w.ids
  BY DEF ListWrites
<1>5. QED
  BY <1>2, <1>3, <1>4

\* What goes out is a write, of the rows it was asked for.
LEMMA SentFields ==
  ASSUME ListInv, previous \in ListShows,
         NEW kind \in {"delete", "deleteOne", "restore", "edit", "rename"}, NEW byFilter \in BOOLEAN,
         NEW ids \in SUBSET TxnIds, Send(kind, byFilter, ids)
  PROVE  write' \in ListWrites /\ write'.kind = kind /\ write'.ids = ids
<1>1. filters \in Filters /\ shown.filter \in Filters
  BY KeyIsKey DEF shown, ListInv, ListShapes, ListShows
<1>2. [filter |-> "all", page |-> 1] \in Keys
  BY FirstPage DEF Keys, Filters
<1>3. write' = [phase |-> "sent", kind |-> kind, byFilter |-> byFilter, filter |-> filters, ids |-> ids,
                ok |-> FALSE, shown |-> shown.filter, key |-> [filter |-> "all", page |-> 1]]
  BY DEF Send, NoWrite
<1>4. QED
  BY <1>1, <1>2, <1>3 DEF ListWrites

LEMMA ShownIsShow == ASSUME ListInv, previous \in ListShows PROVE shown \in ListShows
BY KeyIsKey DEF shown, ListInv, ListShapes, ListShows, ListPages

\* A write leaves every transaction a transaction.
LEMMA ApplyTyped ==
  ASSUME txns \in [TxnIds -> [live : BOOLEAN, hit : BOOLEAN]], write \in ListWrites, Apply
  PROVE  txns' \in [TxnIds -> [live : BOOLEAN, hit : BOOLEAN]]
<1> DEFINE R == [live : BOOLEAN, hit : BOOLEAN]
           next(t) == IF t \notin Targets THEN txns[t]
                      ELSE CASE write.kind \in {"delete", "deleteOne"} -> [txns[t] EXCEPT !.live = FALSE]
                             [] write.kind = "restore"                 -> [txns[t] EXCEPT !.live = TRUE]
                             [] write.kind \in {"edit", "rename"}      -> [txns[t] EXCEPT !.hit = FALSE]
<1>1. ASSUME NEW t \in TxnIds PROVE next(t) \in R
  <2>1. /\ txns[t] \in R /\ [txns[t] EXCEPT !.live = FALSE] \in R
        /\ [txns[t] EXCEPT !.live = TRUE] \in R /\ [txns[t] EXCEPT !.hit = FALSE] \in R
    OBVIOUS
  <2>2. write.kind \in {"delete", "deleteOne", "restore", "edit", "rename"}
    BY DEF ListWrites
  <2>3. QED
    BY <2>1, <2>2
<1>2. txns' = [t \in TxnIds |-> next(t)]
  BY DEF Apply
<1> HIDE DEF next
<1>3. QED
  BY <1>1, <1>2

LEMMA RowsAreRowsKept == ASSUME ListInv, RowsAreRows, [ListNext]_listVars PROVE RowsAreRows'
<1>1. /\ shown \in ListShows /\ Nothing \in ListShows /\ previous \in ListShows
      /\ shown.rows \subseteq TxnIds
  BY ShownIsShow DEF RowsAreRows, ListShows, Nothing, Filters
<1>2. CASE TypeSearch \/ OpenBulkEdit \/ HandleReplaceAll \/ CancelDialog \/ ListServe \/ DeliverNotice
           \/ UNCHANGED listVars
  BY <1>2 DEF TypeSearch, OpenBulkEdit, HandleReplaceAll, CancelDialog, ListServe, DeliverNotice, RowsAreRows,
              listVars, serverList, keyVars, queryVars, selectVars
<1>3. CASE Select \/ SelectAllMatching
  BY <1>1, <1>3 DEF Select, SelectAllMatching, RowsAreRows, serverList, keyVars, queryVars, selectVars
<1>4. ASSUME NEW f \in Filters, NEW p \in Pages, Activate(f, p), UNCHANGED <<txns, write, undoable>>
      PROVE  RowsAreRows'
  BY <1>1, <1>4 DEF Activate, RowsAreRows, selectVars
<1>5. CASE CommitSearch \/ SetFilter \/ SetPage
  <2>1. searchInput \in Filters /\ filters \in Filters /\ 1 \in Pages
    BY FirstPage DEF ListInv, ListShapes
  <2>2. \E f \in Filters, p \in Pages : Activate(f, p)
    BY <1>5, <2>1 DEF CommitSearch, SetFilter, SetPage
  <2>3. UNCHANGED <<txns, write, undoable>>
    BY <1>5 DEF CommitSearch, SetFilter, SetPage, serverList
  <2>4. QED
    BY <1>4, <2>2, <2>3
<1>6. CASE ListAnswer
  <2>1. PICK k \in Keys : previous' \in {Nothing, previous} /\ FinishEdit(k, fetches[k].answer.rows)
                          /\ UNCHANGED <<txns, undoable>>
    BY <1>6 DEF ListAnswer, serverList
  <2>2. write' \in {write, NoWrite} /\ selectionScope' \in {"page", selectionScope}
        /\ (selectedIds' \in {{}, selectedIds} \/ selectedIds' = write.ids \cap fetches[k].answer.rows)
    BY <2>1 DEF FinishEdit, selectVars
  <2>3. write.ids \subseteq TxnIds
    BY DEF RowsAreRows, ListWrites
  <2>4. QED
    BY <1>1, <2>1, <2>2, <2>3, WriteFields DEF RowsAreRows
<1>7. CASE ListFails
  <2>1. /\ previous' \in {Nothing, previous} /\ write' \in {write, NoWrite}
        /\ UNCHANGED <<txns, undoable, selectedIds, selectionScope>>
    BY <1>7 DEF ListFails, serverList, selectVars
  <2>2. QED
    BY <1>1, <2>1, WriteFields DEF RowsAreRows
<1>8. ASSUME NEW kind \in {"delete", "deleteOne", "restore", "edit", "rename"}, NEW byFilter \in BOOLEAN,
             NEW ids \in SUBSET TxnIds, Send(kind, byFilter, ids), kind = "deleteOne" => ids # {},
             UNCHANGED <<txns, previous, selectedIds, selectionScope>>, undoable' \in {0, undoable}
      PROVE  RowsAreRows'
  <2>1. write' \in ListWrites /\ write'.kind = kind /\ write'.ids = ids
    BY <1>1, <1>8, SentFields
  <2>2. QED
    BY <1>8, <2>1, ListAssumption DEF RowsAreRows
<1>9. CASE UNCHANGED write /\ UNCHANGED <<txns, previous, selectedIds, selectionScope, undoable>>
  BY <1>9 DEF RowsAreRows
<1>10. CASE RequestBulkDelete \/ ConfirmDialog
  <2>1. UNCHANGED <<txns, previous, selectedIds, selectionScope, undoable>>
    BY <1>10 DEF RequestBulkDelete, ConfirmDialog, serverList, queryVars, selectVars
  <2>2. selectedIds \in SUBSET TxnIds /\ {} \in SUBSET TxnIds
    BY DEF RowsAreRows
  <2>3. \/ UNCHANGED write
        \/ \E kind \in {"delete", "edit", "rename"}, byFilter \in BOOLEAN, ids \in SUBSET TxnIds :
             Send(kind, byFilter, ids)
    BY <1>10, <2>2 DEF RequestBulkDelete, ConfirmDialog
  <2>4. QED
    BY <1>8, <1>9, <2>1, <2>3
<1>11. CASE DeleteRow
  <2>1. PICK t \in shown.rows : Send("deleteOne", FALSE, {t})
    BY <1>11 DEF DeleteRow
  <2>2. UNCHANGED <<txns, previous, selectedIds, selectionScope, undoable>>
    BY <1>11 DEF DeleteRow, serverList, queryVars, selectVars
  <2>3. {t} \in SUBSET TxnIds /\ {t} # {}
    BY <1>1
  <2>4. QED
    BY <1>8, <2>1, <2>2, <2>3
<1>12. CASE UndoDelete
  <2>1. /\ Send("restore", FALSE, {undoable}) /\ undoable' = 0 /\ undoable # 0
        /\ UNCHANGED <<txns, previous, selectedIds, selectionScope>>
    BY <1>12 DEF UndoDelete, serverList, queryVars, selectVars
  <2>2. {undoable} \in SUBSET TxnIds
    BY <2>1, ListAssumption DEF RowsAreRows, TxnIds
  <2>3. QED
    BY <1>8, <2>1, <2>2
<1>13. CASE WriteServe
  <2>1. UNCHANGED <<previous, selectedIds, selectionScope, undoable>>
    BY <1>13 DEF WriteServe, queryVars, selectVars
  <2>2. txns' \in [TxnIds -> [live : BOOLEAN, hit : BOOLEAN]]
    BY <1>13, ApplyTyped DEF WriteServe, RowsAreRows, serverList
  <2>3. write' \in ListWrites /\ write'.kind = write.kind /\ write'.ids = write.ids
    BY <1>13, WriteFields DEF WriteServe, RowsAreRows
  <2>4. QED
    BY <2>1, <2>2, <2>3 DEF RowsAreRows
<1>14. CASE WriteAnswer
  <2>1. UNCHANGED <<txns, previous>>
    BY <1>14 DEF WriteAnswer, serverList, queryVars
  <2>2. selectedIds' \in {{}, selectedIds} /\ selectionScope' \in {"page", selectionScope}
    BY <1>14 DEF WriteAnswer, selectVars
  <2>3. write' \in ListWrites /\ (write'.kind = "deleteOne" => write'.ids # {})
    <3>1. write' = NoWrite \/ write' = [write EXCEPT !.phase = "refetching", !.key = key]
      BY <1>14 DEF WriteAnswer
    <3>2. key \in Keys /\ write \in ListWrites /\ (write.kind = "deleteOne" => write.ids # {})
      BY KeyIsKey DEF ListInv, RowsAreRows
    <3>3. QED
      BY ZenonT(30), <3>1, <3>2, WriteFields
  <2>4. undoable' \in 0..TxnCount
    <3>1. undoable' = undoable \/ (write.kind = "deleteOne" /\ undoable' = CHOOSE t \in write.ids : TRUE)
      BY <1>14 DEF WriteAnswer
    <3>2. ASSUME write.kind = "deleteOne" PROVE (CHOOSE t \in write.ids : TRUE) \in write.ids
      BY <3>2 DEF RowsAreRows
    <3>3. write.ids \subseteq 1..TxnCount /\ undoable \in 0..TxnCount
      BY DEF RowsAreRows, ListWrites, TxnIds
    <3>4. QED
      BY <3>1, <3>2, <3>3, ListAssumption
  <2>5. QED
    BY <2>1, <2>2, <2>3, <2>4 DEF RowsAreRows
<1>15. CASE OthersChange
  <2>1. UNCHANGED <<previous, selectedIds, selectionScope, undoable, write>>
    BY <1>15 DEF OthersChange, queryVars, selectVars
  <2>2. PICK t \in TxnIds : txns' = [txns EXCEPT ![t] = [txns[t] EXCEPT !.live = ~txns[t].live]]
    BY <1>15 DEF OthersChange
  <2>3. txns[t] \in [live : BOOLEAN, hit : BOOLEAN]
    BY DEF RowsAreRows
  <2>4. [txns[t] EXCEPT !.live = ~txns[t].live] \in [live : BOOLEAN, hit : BOOLEAN]
    BY <2>3
  <2>5. QED
    BY <2>1, <2>2, <2>4 DEF RowsAreRows
<1>16. QED
  BY <1>2, <1>3, <1>5, <1>6, <1>7, <1>10, <1>11, <1>12, <1>13, <1>14, <1>15 DEF ListNext

\* The list is of its type, with no more rows to a page than a page has (ListTypeOK).
LEMMA ListTyped == ListSpec => []ListTypeOK
<1>1. ListInit => ListInv /\ PagesFit /\ RowsAreRows
  <2> SUFFICES ASSUME ListInit PROVE ListInv /\ PagesFit /\ RowsAreRows
    OBVIOUS
  <2>1. PagesFit
    <3>1. Empty.rows = {} /\ Asked.answer.rows = {} /\ NoFetch.answer.rows = {}
      BY DEF Empty, Asked, NoFetch
    <3>2. \A k \in Keys : cache[k].rows = {} /\ fetches[k].answer.rows = {}
      BY <3>1 DEF ListInit
    <3>3. Cardinality({}) <= PerPage
      BY FS_EmptySet, ListAssumption
    <3>4. QED
      BY <3>2, <3>3 DEF PagesFit
  <2>2. RowsAreRows
    <3>1. txns \in [TxnIds -> [live : BOOLEAN, hit : BOOLEAN]] /\ previous \in ListShows
      BY DEF ListInit, Nothing, ListShows, Filters
    <3>2. write \in ListWrites /\ (write.kind = "deleteOne" => write.ids # {})
      BY WriteFields DEF ListInit
    <3>3. selectedIds = {} /\ selectionScope = "page" /\ undoable \in 0..TxnCount
      BY ListAssumption DEF ListInit
    <3>4. QED
      BY <3>1, <3>2, <3>3 DEF RowsAreRows
  <2>3. QED
    BY <2>1, <2>2, ListStarts
<1>2. ListInv /\ PagesFit /\ RowsAreRows /\ [ListNext]_listVars => (ListInv /\ PagesFit /\ RowsAreRows)'
  BY ListStep, PagesFitKept, RowsAreRowsKept
<1>3. ListInv /\ PagesFit /\ RowsAreRows => ListTypeOK
  BY KeyIsKey DEF ListInv, ListShapes, ListPages, PagesFit, RowsAreRows, ListTypeOK
<1>4. QED
  BY <1>1, <1>2, <1>3, PTL DEF ListSpec

(***************************************************************************)
(* The categories page (CategoriesPage): the latest load brings the list, and *)
(* no row the focus is on, or is going back to, leaves it.  Ids are given out *)
(* once, so a row that is gone stays gone.                                 *)
(***************************************************************************)
CategorySpec == CategoriesInit /\ [][CategoriesNext]_categoryVars

CategoryRows == [CategoryIDs -> Int]
LoadsOfCategories == [seq : Nat, phase : {"asked", "ok", "failed"}, data : CategoryRows]
\* "CategoriesTold": the latest load, once it has been answered
CategoriesTold(l) == l.phase = "ok" /\ Current(l)

CategoryShapes ==
  /\ serverCategories \in CategoryRows /\ shownCategories \in CategoryRows
  /\ fetchSeq \in Nat /\ lastCategoryId \in Nat /\ categoryLoads \subseteq LoadsOfCategories
  /\ \A l \in categoryLoads : l.seq <= fetchSeq
  /\ \A k, l \in categoryLoads : k.seq = l.seq => k = l
  /\ patches \subseteq [id : CategoryIDs, active : BOOLEAN, phase : {"asked", "ok", "failed"}]
  /\ editorSave \in [phase : {"none", "asked", "ok", "failed"}, mode : {"none", "create", "edit"},
                     id : {0} \cup CategoryIDs, name : Int]
  /\ editorSave.phase = "none" <=> editorSave = NoEditorSave
  /\ editorSave.phase # "none" => editorSave.name # 0
  /\ editor \in [mode : {"none", "create", "edit"}, id : {0} \cup CategoryIDs, name : Int]
  /\ deletion \in {"none", "asked", "ok", "failed"}

\* One overlay at a time, the dialog holding the focus.
OneCategoryOverlay ==
  /\ editor # NoEditor \/ "editor" \in categoryExiting => editorAnchor \in {OnAdd} \cup CategoryIDs
  /\ editor # NoEditor => deleteTarget = 0 /\ categoryExiting = {}
  /\ "editor" \in categoryExiting => deleteTarget = 0
  /\ deleteTarget # 0 => categoryExiting = {} /\ categoryFocus = OnOverlay
  /\ deleteTarget # 0 => lastDeleteId = deleteTarget
  /\ deleteTarget # 0 \/ "delete" \in categoryExiting => lastDeleteId \in CategoryIDs
  /\ deletion # "none" => deleteTarget # 0
  /\ deletedRef => "delete" \in categoryExiting

\* A category does not come back: its id is given out once.
IdsUsedOnce ==
  /\ \A c \in CategoryIDs : serverCategories[c] # 0 \/ shownCategories[c] # 0 => c <= lastCategoryId
  /\ \A l \in categoryLoads, c \in CategoryIDs : l.data[c] # 0 => c <= lastCategoryId
  /\ \A l \in categoryLoads, c \in CategoryIDs :
       CategoriesTold(l) /\ serverCategories[c] # 0 /\ shownCategories[c] # 0 => l.data[c] # 0

\* The row focus is on, or is going back to.
FocusRow(c) ==
  \/ categoryFocus = c
  \/ editorAnchor = c /\ (editor # NoEditor \/ "editor" \in categoryExiting)
  \/ lastDeleteId = c /\ (deleteTarget # 0 \/ "delete" \in categoryExiting)
     /\ ~deletedRef /\ deletion # "ok"

FocusIsSafe ==
  categoryNotes \cap {"emptied", "unanswered", "stale"} = {} =>
    /\ categoryFocus \in CategoryIDs \cup {OnAdd, OnHeading, OnOverlay}
    /\ \A c \in CategoryIDs : FocusRow(c) =>
         /\ serverCategories[c] # 0
         /\ \A l \in categoryLoads : CategoriesTold(l) => l.data[c] # 0

\* With no answer pending that will ask again, the latest load is the server's, or else the list is.
CategoriesAreComing ==
  "unanswered" \notin categoryNotes /\ editorSave.phase # "ok" /\ deletion # "ok"
  /\ (\A p \in patches : p.phase # "ok") =>
    /\ \A l \in categoryLoads : CategoriesTold(l) => l.data = serverCategories
    /\ "failed" \notin categoryNotes /\ (\A l \in categoryLoads : ~Current(l)) =>
         shownCategories = serverCategories

CategoryInv == CategoryShapes /\ OneCategoryOverlay /\ IdsUsedOnce /\ FocusIsSafe /\ CategoriesAreComing

LEMMA CategoryForms ==
  /\ OnAdd \notin CategoryIDs /\ OnHeading \notin CategoryIDs /\ OnOverlay \notin CategoryIDs
  /\ FocusLost \notin CategoryIDs /\ 0 \notin CategoryIDs
  /\ OnAdd # FocusLost /\ OnHeading # FocusLost /\ OnOverlay # FocusLost
  /\ NoEditor \in [mode : {"none", "create", "edit"}, id : {0} \cup CategoryIDs, name : Int]
  /\ NoEditorSave \in [phase : {"none", "asked", "ok", "failed"}, mode : {"none", "create", "edit"},
                       id : {0} \cup CategoryIDs, name : Int]
  /\ NoEditorSave.phase = "none" /\ NoCategories \in CategoryRows
BY DEF OnAdd, OnHeading, OnOverlay, FocusLost, CategoryIDs, NoEditor, NoEditorSave, NoCategories, CategoryRows

\* A load more: it is the latest, and has only been asked for.
LEMMA CategoriesRefetched ==
  ASSUME CategoryShapes, Refetch(categoryLoads)
  PROVE  /\ fetchSeq' \in Nat /\ categoryLoads' \subseteq LoadsOfCategories
         /\ \A l \in categoryLoads' : l.seq <= fetchSeq'
         /\ \A k, l \in categoryLoads' : k.seq = l.seq => k = l
         /\ \A l \in categoryLoads' : ~(l.phase = "ok" /\ l.seq = fetchSeq')
         /\ \E l \in categoryLoads' : l.seq = fetchSeq'
         /\ \A l \in categoryLoads' : l \in categoryLoads \/ l.data = NoCategories
<1> DEFINE r == [seq |-> fetchSeq + 1, phase |-> "asked", data |-> NoCategories]
<1>1. /\ r \in LoadsOfCategories /\ r.seq = fetchSeq + 1 /\ r.phase = "asked" /\ r.data = NoCategories
      /\ fetchSeq \in Nat
  BY CategoryForms DEF LoadsOfCategories, CategoryShapes
<1>2. fetchSeq' = fetchSeq + 1 /\ categoryLoads' = categoryLoads \cup {r}
  BY DEF Refetch
<1> HIDE DEF r
<1>3. \A l \in categoryLoads : l.seq \in Nat /\ l.seq < fetchSeq + 1
  BY <1>1 DEF CategoryShapes, LoadsOfCategories
<1>4. QED
  BY <1>1, <1>2, <1>3 DEF CategoryShapes

LEMMA ServeCategoryLoadKeeps == ASSUME CategoryInv, ServeCategoryLoad PROVE CategoryInv'
<1> USE CategoryForms
<1>7. PICK l0 \in categoryLoads :
        /\ l0.phase = "asked"
        /\ \/ categoryLoads' = (categoryLoads \ {l0}) \cup {[l0 EXCEPT !.phase = "ok", !.data = serverCategories]}
           \/ categoryLoads' = (categoryLoads \ {l0}) \cup {[l0 EXCEPT !.phase = "failed"]}
  BY DEF ServeCategoryLoad
<1>8. UNCHANGED <<serverCategories, lastCategoryId, shownCategories, fetchSeq, patches, categoryFocus, categoryNotes,
                  editor, editorSave, deleteTarget, deletion, deletedRef, lastDeleteId, editorAnchor, categoryExiting>>
  BY DEF ServeCategoryLoad, categoryTable, overlayVars
<1>9. l0 \in LoadsOfCategories /\ serverCategories \in CategoryRows
  BY DEF CategoryInv, CategoryShapes
<1>10. PICK r \in LoadsOfCategories :
         /\ categoryLoads' = (categoryLoads \ {l0}) \cup {r} /\ r.seq = l0.seq
         /\ (r.phase = "ok" /\ r.data = serverCategories) \/ (r.phase = "failed" /\ r.data = l0.data)
  <2> DEFINE r1 == [l0 EXCEPT !.phase = "ok", !.data = serverCategories]
             r2 == [l0 EXCEPT !.phase = "failed"]
  <2>1. r1 \in LoadsOfCategories /\ r1.seq = l0.seq /\ r1.phase = "ok" /\ r1.data = serverCategories
    BY <1>9 DEF LoadsOfCategories
  <2>2. r2 \in LoadsOfCategories /\ r2.seq = l0.seq /\ r2.phase = "failed" /\ r2.data = l0.data
    BY <1>9 DEF LoadsOfCategories
  <2>3. CASE categoryLoads' = (categoryLoads \ {l0}) \cup {r1}
    <3> HIDE DEF r1, r2
    <3>1. QED
      BY <2>1, <2>3
  <2>4. CASE categoryLoads' = (categoryLoads \ {l0}) \cup {r2}
    <3> HIDE DEF r1, r2
    <3>1. QED
      BY <2>2, <2>4
  <2>5. QED
    BY <1>7, <2>3, <2>4
<1>1. CategoryShapes'
  BY <1>8, <1>10 DEF CategoryInv, CategoryShapes
<1>2. OneCategoryOverlay'
  BY DEF CategoryInv, CategoryShapes, OneCategoryOverlay, ServeCategoryLoad, categoryTable, overlayVars
<1>3. IdsUsedOnce'
  BY <1>8, <1>10 DEF CategoryInv, CategoryShapes, IdsUsedOnce, CategoriesTold, Current
<1>4. FocusIsSafe'
  BY <1>8, <1>10 DEF CategoryInv, FocusIsSafe, FocusRow, CategoriesTold, Current
<1>5. CategoriesAreComing'
  BY <1>8, <1>10 DEF CategoryInv, CategoriesAreComing, CategoriesTold, Current
<1>6. QED
  BY <1>1, <1>2, <1>3, <1>4, <1>5 DEF CategoryInv

LEMMA CategoriesLoadedKeeps == ASSUME CategoryInv, CategoriesLoaded PROVE CategoryInv'
<1> USE CategoryForms
<1>1. CategoryShapes'
  BY DEF CategoryInv, CategoryShapes, CategoriesLoaded, categoryTable, overlayVars, LoadsOfCategories
<1>2. OneCategoryOverlay'
  BY DEF CategoryInv, CategoryShapes, OneCategoryOverlay, CategoriesLoaded, categoryTable, overlayVars
<1>3. IdsUsedOnce'
  <2>1. PICK l0 \in categoryLoads :
          /\ l0.phase # "asked" /\ categoryLoads' = categoryLoads \ {l0}
          /\ IF ~Current(l0) THEN UNCHANGED shownCategories
             ELSE shownCategories' = IF l0.phase = "ok" THEN l0.data ELSE NoCategories
    BY DEF CategoriesLoaded
  <2>2. UNCHANGED <<serverCategories, lastCategoryId, fetchSeq>>
    BY DEF CategoriesLoaded, categoryTable
  <2>3. \A c \in CategoryIDs : NoCategories[c] = 0
    BY DEF NoCategories
  <2>4. \A l \in categoryLoads' : l \in categoryLoads /\ (CategoriesTold(l)' => CategoriesTold(l) /\ ~Current(l0))
    BY <2>1, <2>2 DEF CategoryInv, CategoryShapes, CategoriesTold, Current
  <2>5. \A c \in CategoryIDs : serverCategories[c] # 0 \/ shownCategories'[c] # 0 => c <= lastCategoryId
    BY <2>1, <2>3 DEF CategoryInv, IdsUsedOnce
  <2>6. QED
    BY <2>1, <2>2, <2>4, <2>5 DEF CategoryInv, IdsUsedOnce
<1>4. FocusIsSafe'
  BY DEF CategoryInv, CategoryShapes, OneCategoryOverlay, IdsUsedOnce, FocusIsSafe, FocusRow, CategoriesLoaded, categoryTable, overlayVars, CategoriesTold, Current, LoadsOfCategories
<1>5. CategoriesAreComing'
  BY DEF CategoryInv, CategoryShapes, OneCategoryOverlay, CategoriesAreComing, CategoriesLoaded, categoryTable, overlayVars, CategoriesTold, Current, LoadsOfCategories
<1>6. QED
  BY <1>1, <1>2, <1>3, <1>4, <1>5 DEF CategoryInv

LEMMA OpenEditorKeeps == ASSUME CategoryInv, OpenEditor PROVE CategoryInv'
<1> USE CategoryForms
<1>1. CategoryShapes'
  <2>1. \A c \in InList : /\ c \in CategoryIDs /\ shownCategories[c] \in Int
                          /\ LET n == IF shownCategories[c] > 0 THEN shownCategories[c] ELSE -shownCategories[c]
                             IN  [mode |-> "edit", id |-> c, name |-> n] \in
                                   [mode : {"none", "create", "edit"}, id : {0} \cup CategoryIDs, name : Int]
    BY DEF InList, CategoryInv, CategoryShapes, CategoryRows
  <2>2. editor' \in [mode : {"none", "create", "edit"}, id : {0} \cup CategoryIDs, name : Int]
    BY <2>1 DEF OpenEditor
  <2>3. UNCHANGED <<serverCategories, lastCategoryId, shownCategories, fetchSeq, categoryLoads, patches, editorSave, deletion>>
    BY DEF OpenEditor, categoryTable
  <2>4. QED
    BY <2>2, <2>3 DEF CategoryInv, CategoryShapes
<1>2. OneCategoryOverlay'
  BY DEF CategoryInv, CategoryShapes, OneCategoryOverlay, OpenEditor, categoryTable, overlayVars, NoteStale, OverlayOpen, InList
<1>3. IdsUsedOnce'
  BY DEF CategoryInv, CategoryShapes, IdsUsedOnce, OpenEditor, categoryTable, overlayVars, CategoriesTold, Current, LoadsOfCategories, NoteStale, OverlayOpen, InList
<1>4. FocusIsSafe'
  BY DEF CategoryInv, CategoryShapes, OneCategoryOverlay, IdsUsedOnce, FocusIsSafe, FocusRow, OpenEditor, categoryTable, overlayVars, CategoriesTold, Current, LoadsOfCategories, NoteStale, OverlayOpen, InList
<1>5. CategoriesAreComing'
  BY DEF CategoryInv, CategoryShapes, OneCategoryOverlay, CategoriesAreComing, OpenEditor, categoryTable, overlayVars, CategoriesTold, Current, LoadsOfCategories, NoteStale, OverlayOpen, InList
<1>6. QED
  BY <1>1, <1>2, <1>3, <1>4, <1>5 DEF CategoryInv

LEMMA TypeCategoryNameKeeps == ASSUME CategoryInv, TypeCategoryName PROVE CategoryInv'
<1> USE CategoryForms
<1>1. CategoryShapes'
  <2>1. editor' \in [mode : {"none", "create", "edit"}, id : {0} \cup CategoryIDs, name : Int]
    BY CategoryAssumption DEF TypeCategoryName, CategoryInv, CategoryShapes
  <2>2. UNCHANGED <<serverCategories, lastCategoryId, shownCategories, fetchSeq, categoryLoads, patches, editorSave, deletion>>
    BY DEF TypeCategoryName, categoryTable
  <2>3. QED
    BY <2>1, <2>2 DEF CategoryInv, CategoryShapes
<1>2. OneCategoryOverlay'
  BY DEF CategoryInv, CategoryShapes, OneCategoryOverlay, TypeCategoryName, categoryTable, overlayVars
<1>3. IdsUsedOnce'
  BY DEF CategoryInv, CategoryShapes, IdsUsedOnce, TypeCategoryName, categoryTable, overlayVars, CategoriesTold, Current, LoadsOfCategories
<1>4. FocusIsSafe'
  BY DEF CategoryInv, CategoryShapes, OneCategoryOverlay, IdsUsedOnce, FocusIsSafe, FocusRow, TypeCategoryName, categoryTable, overlayVars, CategoriesTold, Current, LoadsOfCategories
<1>5. CategoriesAreComing'
  BY DEF CategoryInv, CategoryShapes, OneCategoryOverlay, CategoriesAreComing, TypeCategoryName, categoryTable, overlayVars, CategoriesTold, Current, LoadsOfCategories
<1>6. QED
  BY <1>1, <1>2, <1>3, <1>4, <1>5 DEF CategoryInv

LEMMA CloseEditorKeeps == ASSUME CategoryInv, CloseEditor PROVE CategoryInv'
<1> USE CategoryForms
<1>1. CategoryShapes'
  BY DEF CategoryInv, CategoryShapes, CloseEditor, categoryTable, overlayVars, LoadsOfCategories
<1>2. OneCategoryOverlay'
  BY DEF CategoryInv, CategoryShapes, OneCategoryOverlay, CloseEditor, categoryTable, overlayVars
<1>3. IdsUsedOnce'
  BY DEF CategoryInv, CategoryShapes, IdsUsedOnce, CloseEditor, categoryTable, overlayVars, CategoriesTold, Current, LoadsOfCategories
<1>4. FocusIsSafe'
  BY DEF CategoryInv, CategoryShapes, OneCategoryOverlay, IdsUsedOnce, FocusIsSafe, FocusRow, CloseEditor, categoryTable, overlayVars, CategoriesTold, Current, LoadsOfCategories
<1>5. CategoriesAreComing'
  BY DEF CategoryInv, CategoryShapes, OneCategoryOverlay, CategoriesAreComing, CloseEditor, categoryTable, overlayVars, CategoriesTold, Current, LoadsOfCategories
<1>6. QED
  BY <1>1, <1>2, <1>3, <1>4, <1>5 DEF CategoryInv

LEMMA HandleCategorySaveKeeps == ASSUME CategoryInv, HandleCategorySave PROVE CategoryInv'
<1> USE CategoryForms
<1>1. CategoryShapes'
  BY DEF CategoryInv, CategoryShapes, HandleCategorySave, categoryTable, overlayVars, LoadsOfCategories
<1>2. OneCategoryOverlay'
  BY DEF CategoryInv, CategoryShapes, OneCategoryOverlay, HandleCategorySave, categoryTable, overlayVars
<1>3. IdsUsedOnce'
  BY DEF CategoryInv, CategoryShapes, IdsUsedOnce, HandleCategorySave, categoryTable, overlayVars, CategoriesTold, Current, LoadsOfCategories
<1>4. FocusIsSafe'
  BY DEF CategoryInv, CategoryShapes, OneCategoryOverlay, IdsUsedOnce, FocusIsSafe, FocusRow, HandleCategorySave, categoryTable, overlayVars, CategoriesTold, Current, LoadsOfCategories
<1>5. CategoriesAreComing'
  BY DEF CategoryInv, CategoryShapes, OneCategoryOverlay, CategoriesAreComing, HandleCategorySave, categoryTable, overlayVars, CategoriesTold, Current, LoadsOfCategories
<1>6. QED
  BY <1>1, <1>2, <1>3, <1>4, <1>5 DEF CategoryInv

LEMMA ServeCategorySaveKeeps == ASSUME CategoryInv, ServeCategorySave PROVE CategoryInv'
<1> USE CategoryForms
<1>7. UNCHANGED <<shownCategories, fetchSeq, categoryLoads, editor, patches, deleteTarget, deletion,
                  deletedRef, lastDeleteId, editorAnchor, categoryExiting, categoryFocus>>
  BY DEF ServeCategorySave
<1>8. /\ serverCategories \in CategoryRows /\ lastCategoryId \in Nat /\ editorSave.name \in Int
      /\ editorSave.name # 0 /\ editorSave.phase = "asked"
  BY DEF CategoryInv, CategoryShapes, ServeCategorySave
<1>9. /\ \A ph \in {"ok", "failed"} :
           LET e == [editorSave EXCEPT !.phase = ph]
           IN  /\ e \in [phase : {"none", "asked", "ok", "failed"}, mode : {"none", "create", "edit"},
                         id : {0} \cup CategoryIDs, name : Int]
               /\ e.phase = ph /\ e.name = editorSave.name
  BY DEF CategoryInv, CategoryShapes
<1>10. /\ editorSave' \in [phase : {"none", "asked", "ok", "failed"}, mode : {"none", "create", "edit"},
                          id : {0} \cup CategoryIDs, name : Int]
       /\ editorSave'.phase \in {"ok", "failed"} /\ editorSave'.name = editorSave.name
  BY <1>9 DEF ServeCategorySave
<1> DEFINE n0 == lastCategoryId + 1
<1>11. \/ /\ UNCHANGED <<serverCategories, lastCategoryId, categoryNotes>> /\ editorSave'.phase = "failed"
       \/ \E c \in CategoryIDs :
            /\ \/ c = n0 /\ lastCategoryId' = n0
               \/ serverCategories[c] # 0 /\ lastCategoryId' = lastCategoryId
            /\ serverCategories' = [serverCategories EXCEPT ![c] =
                                      IF serverCategories[c] < 0 THEN -editorSave.name ELSE editorSave.name]
            /\ \/ editorSave'.phase = "ok" /\ categoryNotes' = categoryNotes
               \/ editorSave'.phase = "failed" /\ categoryNotes' = categoryNotes \cup {"unanswered"}
  BY <1>9 DEF ServeCategorySave, categoryTable
<1>12. \/ /\ UNCHANGED <<serverCategories, lastCategoryId, categoryNotes>> /\ editorSave'.phase = "failed"
       \/ \E c \in CategoryIDs :
            /\ \/ c = n0 /\ lastCategoryId' = n0
               \/ serverCategories[c] # 0 /\ lastCategoryId' = lastCategoryId
            /\ serverCategories' \in CategoryRows /\ serverCategories'[c] # 0
            /\ \A d \in CategoryIDs : d # c => serverCategories'[d] = serverCategories[d]
            /\ \/ editorSave'.phase = "ok" /\ categoryNotes' = categoryNotes
               \/ editorSave'.phase = "failed" /\ categoryNotes' = categoryNotes \cup {"unanswered"}
  BY <1>8, <1>11 DEF CategoryRows
<1>13. n0 = lastCategoryId + 1
  OBVIOUS
<1> HIDE DEF n0
<1>14. \A d \in CategoryIDs : d \in Int /\ (d <= lastCategoryId => d # n0)
  BY <1>8, <1>13 DEF CategoryIDs
<1>1. CategoryShapes'
  <2>1. serverCategories' \in CategoryRows /\ lastCategoryId' \in Nat
    BY <1>8, <1>12, <1>13
  <2>2. QED
    BY <1>7, <1>8, <1>10, <2>1 DEF CategoryInv, CategoryShapes
<1>2. OneCategoryOverlay'
  BY DEF CategoryInv, CategoryShapes, OneCategoryOverlay, ServeCategorySave, categoryTable, overlayVars
<1>3. IdsUsedOnce'
  <2>1. CASE UNCHANGED <<serverCategories, lastCategoryId>>
    BY <1>7, <2>1 DEF CategoryInv, IdsUsedOnce, CategoriesTold, Current
  <2>2. ASSUME NEW c \in CategoryIDs,
               \/ c = n0 /\ lastCategoryId' = n0
               \/ serverCategories[c] # 0 /\ lastCategoryId' = lastCategoryId,
               \A d \in CategoryIDs : d # c => serverCategories'[d] = serverCategories[d]
        PROVE  IdsUsedOnce'
    <3>1. \A d \in CategoryIDs : d <= lastCategoryId => d <= lastCategoryId'
      BY <1>8, <1>13, <1>14, <2>2
    <3>2. \A d \in CategoryIDs : serverCategories'[d] # 0 \/ shownCategories'[d] # 0 => d <= lastCategoryId'
      BY <1>7, <1>8, <1>13, <1>14, <2>2, <3>1 DEF CategoryInv, IdsUsedOnce
    <3>3. \A l \in categoryLoads', d \in CategoryIDs :
            CategoriesTold(l)' /\ serverCategories'[d] # 0 /\ shownCategories'[d] # 0 => l.data[d] # 0
      BY <1>7, <1>14, <2>2 DEF CategoryInv, IdsUsedOnce, CategoriesTold, Current
    <3>4. QED
      BY <1>7, <3>1, <3>2, <3>3 DEF CategoryInv, IdsUsedOnce
  <2>3. QED
    BY <1>12, <2>1, <2>2
<1>4. FocusIsSafe'
  <2> SUFFICES ASSUME categoryNotes' \cap {"emptied", "unanswered", "stale"} = {} PROVE FocusIsSafe'
    BY DEF FocusIsSafe
  <2>1. categoryNotes \cap {"emptied", "unanswered", "stale"} = {}
    BY <1>12
  <2>2. \A c \in CategoryIDs : serverCategories[c] # 0 => serverCategories'[c] # 0
    BY <1>12
  <2>3. \A c \in CategoryIDs : FocusRow(c)' => FocusRow(c)
    BY <1>7 DEF FocusRow
  <2>4. QED
    BY <1>7, <2>1, <2>2, <2>3 DEF CategoryInv, FocusIsSafe, CategoriesTold, Current
<1>5. CategoriesAreComing'
  BY DEF CategoryInv, CategoryShapes, OneCategoryOverlay, CategoriesAreComing, ServeCategorySave, categoryTable, overlayVars, CategoriesTold, Current, LoadsOfCategories
<1>6. QED
  BY <1>1, <1>2, <1>3, <1>4, <1>5 DEF CategoryInv

LEMMA CategorySaveAnsweredKeeps == ASSUME CategoryInv, CategorySaveAnswered PROVE CategoryInv'
<1> USE CategoryForms
<1>1. CategoryShapes'
  BY DEF CategoryInv, CategoryShapes, CategorySaveAnswered, categoryTable, overlayVars, LoadsOfCategories, Refetch
<1>2. OneCategoryOverlay'
  BY DEF CategoryInv, CategoryShapes, OneCategoryOverlay, CategorySaveAnswered, categoryTable, overlayVars, Refetch
<1>3. IdsUsedOnce'
  <2>1. UNCHANGED <<serverCategories, lastCategoryId, shownCategories>>
    BY DEF CategorySaveAnswered, categoryTable
  <2>2. CASE UNCHANGED <<fetchSeq, categoryLoads>>
    BY <2>1, <2>2 DEF CategoryInv, IdsUsedOnce, CategoriesTold, Current
  <2>3. CASE Refetch(categoryLoads)
    <3>1. /\ \A l \in categoryLoads' : ~(l.phase = "ok" /\ l.seq = fetchSeq')
          /\ \A l \in categoryLoads' : l \in categoryLoads \/ l.data = NoCategories
      BY <2>3, CategoriesRefetched DEF CategoryInv
    <3>2. \A c \in CategoryIDs : NoCategories[c] = 0
      BY DEF NoCategories
    <3>3. QED
      BY <2>1, <3>1, <3>2 DEF CategoryInv, IdsUsedOnce, CategoriesTold, Current
  <2>4. QED
    BY <2>2, <2>3 DEF CategorySaveAnswered
<1>4. FocusIsSafe'
  BY DEF CategoryInv, CategoryShapes, OneCategoryOverlay, IdsUsedOnce, FocusIsSafe, FocusRow, CategorySaveAnswered, categoryTable, overlayVars, CategoriesTold, Current, LoadsOfCategories, Refetch
<1>5. CategoriesAreComing'
  <2>1. UNCHANGED <<serverCategories, shownCategories, categoryNotes>>
    BY DEF CategorySaveAnswered, categoryTable
  <2>2. CASE Refetch(categoryLoads)
    <3>1. /\ \A l \in categoryLoads' : ~(l.phase = "ok" /\ l.seq = fetchSeq')
          /\ \E l \in categoryLoads' : l.seq = fetchSeq'
      BY <2>2, CategoriesRefetched DEF CategoryInv
    <3>2. QED
      BY <3>1 DEF CategoriesAreComing, CategoriesTold, Current
  <2>3. CASE UNCHANGED <<fetchSeq, categoryLoads>> /\ editorSave.phase = "failed" /\ editorSave' = NoEditorSave /\ UNCHANGED <<patches, deletion>>
    BY <2>1, <2>3 DEF CategoryInv, CategoriesAreComing, CategoriesTold, Current
  <2>4. QED
    BY <2>2, <2>3 DEF CategorySaveAnswered
<1>6. QED
  BY <1>1, <1>2, <1>3, <1>4, <1>5 DEF CategoryInv

LEMMA EditorExitedKeeps == ASSUME CategoryInv, EditorExited PROVE CategoryInv'
<1> USE CategoryForms
<1>1. CategoryShapes'
  BY DEF CategoryInv, CategoryShapes, EditorExited, categoryTable, overlayVars, LoadsOfCategories, OverlayOpen, RowTrigger, InList
<1>2. OneCategoryOverlay'
  BY DEF CategoryInv, CategoryShapes, OneCategoryOverlay, EditorExited, categoryTable, overlayVars, OverlayOpen, RowTrigger, InList
<1>3. IdsUsedOnce'
  BY DEF CategoryInv, CategoryShapes, IdsUsedOnce, EditorExited, categoryTable, overlayVars, CategoriesTold, Current, LoadsOfCategories, OverlayOpen, RowTrigger, InList
<1>4. FocusIsSafe'
  BY DEF CategoryInv, CategoryShapes, OneCategoryOverlay, IdsUsedOnce, FocusIsSafe, FocusRow, EditorExited, categoryTable, overlayVars, CategoriesTold, Current, LoadsOfCategories, OverlayOpen, RowTrigger, InList
<1>5. CategoriesAreComing'
  BY DEF CategoryInv, CategoryShapes, OneCategoryOverlay, CategoriesAreComing, EditorExited, categoryTable, overlayVars, CategoriesTold, Current, LoadsOfCategories, OverlayOpen, RowTrigger, InList
<1>6. QED
  BY <1>1, <1>2, <1>3, <1>4, <1>5 DEF CategoryInv

LEMMA HandleToggleActiveKeeps == ASSUME CategoryInv, HandleToggleActive PROVE CategoryInv'
<1> USE CategoryForms
<1>1. CategoryShapes'
  <2>1. UNCHANGED <<serverCategories, lastCategoryId, shownCategories, fetchSeq, categoryLoads, editor, editorSave, deletion>>
    BY DEF HandleToggleActive, categoryTable, overlayVars
  <2>2. PICK c \in CategoryIDs : patches' = patches \cup {[id |-> c, active |-> shownCategories[c] < 0, phase |-> "asked"]}
    BY DEF HandleToggleActive, InList
  <2>3. shownCategories[c] \in Int
    BY DEF CategoryInv, CategoryShapes, CategoryRows
  <2>4. [id |-> c, active |-> shownCategories[c] < 0, phase |-> "asked"] \in
          [id : CategoryIDs, active : BOOLEAN, phase : {"asked", "ok", "failed"}]
    BY <2>2, <2>3
  <2>5. QED
    BY <2>1, <2>2, <2>4 DEF CategoryInv, CategoryShapes
<1>2. OneCategoryOverlay'
  BY DEF CategoryInv, CategoryShapes, OneCategoryOverlay, HandleToggleActive, categoryTable, overlayVars, NoteStale, OverlayOpen, InList
<1>3. IdsUsedOnce'
  BY DEF CategoryInv, CategoryShapes, IdsUsedOnce, HandleToggleActive, categoryTable, overlayVars, CategoriesTold, Current, LoadsOfCategories, NoteStale, OverlayOpen, InList
<1>4. FocusIsSafe'
  BY DEF CategoryInv, CategoryShapes, OneCategoryOverlay, IdsUsedOnce, FocusIsSafe, FocusRow, HandleToggleActive, categoryTable, overlayVars, CategoriesTold, Current, LoadsOfCategories, NoteStale, OverlayOpen, InList
<1>5. CategoriesAreComing'
  BY DEF CategoryInv, CategoryShapes, OneCategoryOverlay, CategoriesAreComing, HandleToggleActive, categoryTable, overlayVars, CategoriesTold, Current, LoadsOfCategories, NoteStale, OverlayOpen, InList
<1>6. QED
  BY <1>1, <1>2, <1>3, <1>4, <1>5 DEF CategoryInv

LEMMA ServeToggleKeeps == ASSUME CategoryInv, ServeToggle PROVE CategoryInv'
<1> USE CategoryForms
<1>7. PICK p \in patches :
        /\ p.phase = "asked"
        /\ LET name == IF serverCategories[p.id] < 0 THEN -serverCategories[p.id] ELSE serverCategories[p.id]
               set == [serverCategories EXCEPT ![p.id] = IF p.active THEN name ELSE -name]
               Answered(ph) == patches' = (patches \ {p}) \cup {[p EXCEPT !.phase = ph]}
           IN  \/ name # 0 /\ serverCategories' = set /\ Answered("ok") /\ UNCHANGED categoryNotes
               \/ name = 0 /\ Answered("failed") /\ UNCHANGED <<serverCategories, categoryNotes>>
               \/ /\ Answered("failed") /\ serverCategories' \in {serverCategories, set}
                  /\ categoryNotes' = categoryNotes \cup {"unanswered"}
  BY DEF ServeToggle
<1>8. UNCHANGED <<lastCategoryId, shownCategories, fetchSeq, categoryLoads, editor, editorSave, deleteTarget,
                  deletion, deletedRef, lastDeleteId, editorAnchor, categoryExiting, categoryFocus>>
  BY DEF ServeToggle, overlayVars
<1>9. /\ p \in [id : CategoryIDs, active : BOOLEAN, phase : {"asked", "ok", "failed"}]
      /\ serverCategories \in CategoryRows
  BY DEF CategoryInv, CategoryShapes
<1>10. \A ph \in {"ok", "failed"} :
         LET q == [p EXCEPT !.phase = ph]
         IN  q \in [id : CategoryIDs, active : BOOLEAN, phase : {"asked", "ok", "failed"}] /\ q.phase = ph
  BY <1>9
<1>11. /\ \/ \E q \in patches' : q.phase = "ok"
          \/ UNCHANGED <<serverCategories, categoryNotes>> /\ \A q \in patches : q.phase = "ok" => q \in patches'
          \/ "unanswered" \in categoryNotes'
       /\ patches' \subseteq [id : CategoryIDs, active : BOOLEAN, phase : {"asked", "ok", "failed"}]
       /\ categoryNotes' \in {categoryNotes, categoryNotes \cup {"unanswered"}}
  BY <1>7, <1>10 DEF CategoryInv, CategoryShapes
<1>12. /\ serverCategories' \in CategoryRows
       /\ \A c \in CategoryIDs : serverCategories'[c] # 0 <=> serverCategories[c] # 0
  <2>1. serverCategories[p.id] \in Int /\ p.id \in CategoryIDs /\ p.active \in BOOLEAN
    BY <1>9 DEF CategoryRows
  <2>2. PICK n \in Int : /\ n # 0 <=> serverCategories[p.id] # 0
                         /\ serverCategories' \in {serverCategories, [serverCategories EXCEPT ![p.id] = n]}
    BY <1>7, <2>1
  <2>3. QED
    BY <1>9, <2>1, <2>2 DEF CategoryRows
<1>1. CategoryShapes'
  BY <1>8, <1>11, <1>12 DEF CategoryInv, CategoryShapes
<1>2. OneCategoryOverlay'
  BY DEF CategoryInv, CategoryShapes, OneCategoryOverlay, ServeToggle, categoryTable, overlayVars
<1>3. IdsUsedOnce'
  BY <1>8, <1>12 DEF CategoryInv, IdsUsedOnce, CategoriesTold, Current
<1>4. FocusIsSafe'
  BY <1>8, <1>11, <1>12 DEF CategoryInv, FocusIsSafe, FocusRow, CategoriesTold, Current
<1>5. CategoriesAreComing'
  BY <1>8, <1>11 DEF CategoryInv, CategoriesAreComing, CategoriesTold, Current
<1>6. QED
  BY <1>1, <1>2, <1>3, <1>4, <1>5 DEF CategoryInv

LEMMA ToggleAnsweredKeeps == ASSUME CategoryInv, ToggleAnswered PROVE CategoryInv'
<1> USE CategoryForms
<1>1. CategoryShapes'
  BY DEF CategoryInv, CategoryShapes, ToggleAnswered, categoryTable, overlayVars, LoadsOfCategories, Refetch
<1>2. OneCategoryOverlay'
  BY DEF CategoryInv, CategoryShapes, OneCategoryOverlay, ToggleAnswered, categoryTable, overlayVars, Refetch
<1>3. IdsUsedOnce'
  <2>1. UNCHANGED <<serverCategories, lastCategoryId, shownCategories>>
    BY DEF ToggleAnswered, categoryTable
  <2>2. CASE UNCHANGED <<fetchSeq, categoryLoads>>
    BY <2>1, <2>2 DEF CategoryInv, IdsUsedOnce, CategoriesTold, Current
  <2>3. CASE Refetch(categoryLoads)
    <3>1. /\ \A l \in categoryLoads' : ~(l.phase = "ok" /\ l.seq = fetchSeq')
          /\ \A l \in categoryLoads' : l \in categoryLoads \/ l.data = NoCategories
      BY <2>3, CategoriesRefetched DEF CategoryInv
    <3>2. \A c \in CategoryIDs : NoCategories[c] = 0
      BY DEF NoCategories
    <3>3. QED
      BY <2>1, <3>1, <3>2 DEF CategoryInv, IdsUsedOnce, CategoriesTold, Current
  <2>4. QED
    BY <2>2, <2>3 DEF ToggleAnswered
<1>4. FocusIsSafe'
  BY DEF CategoryInv, CategoryShapes, OneCategoryOverlay, IdsUsedOnce, FocusIsSafe, FocusRow, ToggleAnswered, categoryTable, overlayVars, CategoriesTold, Current, LoadsOfCategories, Refetch
<1>5. CategoriesAreComing'
  <2>1. UNCHANGED <<serverCategories, shownCategories, categoryNotes>>
    BY DEF ToggleAnswered, categoryTable
  <2>2. CASE Refetch(categoryLoads)
    <3>1. /\ \A l \in categoryLoads' : ~(l.phase = "ok" /\ l.seq = fetchSeq')
          /\ \E l \in categoryLoads' : l.seq = fetchSeq'
      BY <2>2, CategoriesRefetched DEF CategoryInv
    <3>2. QED
      BY <3>1 DEF CategoriesAreComing, CategoriesTold, Current
  <2>3. CASE UNCHANGED <<fetchSeq, categoryLoads>> /\ (\A p \in patches : p.phase = "ok" => p \in patches') /\ UNCHANGED <<editorSave, deletion>>
    BY <2>1, <2>3 DEF CategoryInv, CategoriesAreComing, CategoriesTold, Current
  <2>4. PICK p \in patches : /\ patches' = patches \ {p}
                             /\ IF p.phase = "ok" THEN Refetch(categoryLoads) ELSE UNCHANGED <<fetchSeq, categoryLoads>>
    BY DEF ToggleAnswered
  <2>5. UNCHANGED <<editorSave, deletion>>
    BY DEF ToggleAnswered, overlayVars
  <2>6. p.phase # "ok" => \A q \in patches : q.phase = "ok" => q \in patches'
    BY <2>4
  <2>7. QED
    BY <2>2, <2>3, <2>4, <2>5, <2>6
<1>6. QED
  BY <1>1, <1>2, <1>3, <1>4, <1>5 DEF CategoryInv

LEMMA OpenDeleteKeeps == ASSUME CategoryInv, OpenDelete PROVE CategoryInv'
<1> USE CategoryForms
<1>1. CategoryShapes'
  BY DEF CategoryInv, CategoryShapes, OpenDelete, categoryTable, overlayVars, LoadsOfCategories, NoteStale, OverlayOpen, InList
<1>2. OneCategoryOverlay'
  BY DEF CategoryInv, CategoryShapes, OneCategoryOverlay, OpenDelete, categoryTable, overlayVars, NoteStale, OverlayOpen, InList
<1>3. IdsUsedOnce'
  BY DEF CategoryInv, CategoryShapes, IdsUsedOnce, OpenDelete, categoryTable, overlayVars, CategoriesTold, Current, LoadsOfCategories, NoteStale, OverlayOpen, InList
<1>4. FocusIsSafe'
  BY DEF CategoryInv, CategoryShapes, OneCategoryOverlay, IdsUsedOnce, FocusIsSafe, FocusRow, OpenDelete, categoryTable, overlayVars, CategoriesTold, Current, LoadsOfCategories, NoteStale, OverlayOpen, InList
<1>5. CategoriesAreComing'
  BY DEF CategoryInv, CategoryShapes, OneCategoryOverlay, CategoriesAreComing, OpenDelete, categoryTable, overlayVars, CategoriesTold, Current, LoadsOfCategories, NoteStale, OverlayOpen, InList
<1>6. QED
  BY <1>1, <1>2, <1>3, <1>4, <1>5 DEF CategoryInv

LEMMA CancelDeleteKeeps == ASSUME CategoryInv, CancelDelete PROVE CategoryInv'
<1> USE CategoryForms
<1>1. CategoryShapes'
  BY DEF CategoryInv, CategoryShapes, CancelDelete, categoryTable, overlayVars, LoadsOfCategories
<1>2. OneCategoryOverlay'
  BY DEF CategoryInv, CategoryShapes, OneCategoryOverlay, CancelDelete, categoryTable, overlayVars
<1>3. IdsUsedOnce'
  BY DEF CategoryInv, CategoryShapes, IdsUsedOnce, CancelDelete, categoryTable, overlayVars, CategoriesTold, Current, LoadsOfCategories
<1>4. FocusIsSafe'
  BY DEF CategoryInv, CategoryShapes, OneCategoryOverlay, IdsUsedOnce, FocusIsSafe, FocusRow, CancelDelete, categoryTable, overlayVars, CategoriesTold, Current, LoadsOfCategories
<1>5. CategoriesAreComing'
  BY DEF CategoryInv, CategoryShapes, OneCategoryOverlay, CategoriesAreComing, CancelDelete, categoryTable, overlayVars, CategoriesTold, Current, LoadsOfCategories
<1>6. QED
  BY <1>1, <1>2, <1>3, <1>4, <1>5 DEF CategoryInv

LEMMA OnConfirmDeleteKeeps == ASSUME CategoryInv, OnConfirmDelete PROVE CategoryInv'
<1> USE CategoryForms
<1>1. CategoryShapes'
  BY DEF CategoryInv, CategoryShapes, OnConfirmDelete, categoryTable, overlayVars, LoadsOfCategories
<1>2. OneCategoryOverlay'
  BY DEF CategoryInv, CategoryShapes, OneCategoryOverlay, OnConfirmDelete, categoryTable, overlayVars
<1>3. IdsUsedOnce'
  BY DEF CategoryInv, CategoryShapes, IdsUsedOnce, OnConfirmDelete, categoryTable, overlayVars, CategoriesTold, Current, LoadsOfCategories
<1>4. FocusIsSafe'
  BY DEF CategoryInv, CategoryShapes, OneCategoryOverlay, IdsUsedOnce, FocusIsSafe, FocusRow, OnConfirmDelete, categoryTable, overlayVars, CategoriesTold, Current, LoadsOfCategories
<1>5. CategoriesAreComing'
  BY DEF CategoryInv, CategoryShapes, OneCategoryOverlay, CategoriesAreComing, OnConfirmDelete, categoryTable, overlayVars, CategoriesTold, Current, LoadsOfCategories
<1>6. QED
  BY <1>1, <1>2, <1>3, <1>4, <1>5 DEF CategoryInv

LEMMA ServeDeleteKeeps == ASSUME CategoryInv, ServeDelete PROVE CategoryInv'
<1> USE CategoryForms
<1>1. CategoryShapes'
  <2>1. deleteTarget \in CategoryIDs
    BY DEF ServeDelete, CategoryInv, OneCategoryOverlay
  <2>2. UNCHANGED <<lastCategoryId, shownCategories, fetchSeq, categoryLoads, editor, editorSave, patches>>
    BY DEF ServeDelete
  <2>3. serverCategories' \in CategoryRows /\ deletion' \in {"ok", "failed"}
    BY <2>1 DEF ServeDelete, CategoryInv, CategoryShapes, CategoryRows
  <2>4. QED
    BY <2>2, <2>3 DEF CategoryInv, CategoryShapes
<1>2. OneCategoryOverlay'
  BY DEF CategoryInv, CategoryShapes, OneCategoryOverlay, ServeDelete, categoryTable, overlayVars
<1>3. IdsUsedOnce'
  <2>1. UNCHANGED <<lastCategoryId, shownCategories, fetchSeq, categoryLoads>>
    BY DEF ServeDelete
  <2>2. \A c \in CategoryIDs : serverCategories'[c] # 0 => serverCategories[c] # 0
    BY DEF ServeDelete, CategoryInv, CategoryShapes, CategoryRows
  <2>3. QED
    BY <2>1, <2>2 DEF CategoryInv, IdsUsedOnce, CategoriesTold, Current
<1>4. FocusIsSafe'
  BY DEF CategoryInv, CategoryShapes, OneCategoryOverlay, IdsUsedOnce, FocusIsSafe, FocusRow, ServeDelete, categoryTable, overlayVars, CategoriesTold, Current, LoadsOfCategories
<1>5. CategoriesAreComing'
  BY DEF CategoryInv, CategoryShapes, OneCategoryOverlay, CategoriesAreComing, ServeDelete, categoryTable, overlayVars, CategoriesTold, Current, LoadsOfCategories
<1>6. QED
  BY <1>1, <1>2, <1>3, <1>4, <1>5 DEF CategoryInv

LEMMA DeleteAnsweredKeeps == ASSUME CategoryInv, DeleteAnswered PROVE CategoryInv'
<1> USE CategoryForms
<1>1. CategoryShapes'
  BY DEF CategoryInv, CategoryShapes, DeleteAnswered, categoryTable, overlayVars, LoadsOfCategories, Refetch
<1>2. OneCategoryOverlay'
  BY DEF CategoryInv, CategoryShapes, OneCategoryOverlay, DeleteAnswered, categoryTable, overlayVars, Refetch
<1>3. IdsUsedOnce'
  <2>1. UNCHANGED <<serverCategories, lastCategoryId, shownCategories>>
    BY DEF DeleteAnswered, categoryTable
  <2>2. CASE UNCHANGED <<fetchSeq, categoryLoads>>
    BY <2>1, <2>2 DEF CategoryInv, IdsUsedOnce, CategoriesTold, Current
  <2>3. CASE Refetch(categoryLoads)
    <3>1. /\ \A l \in categoryLoads' : ~(l.phase = "ok" /\ l.seq = fetchSeq')
          /\ \A l \in categoryLoads' : l \in categoryLoads \/ l.data = NoCategories
      BY <2>3, CategoriesRefetched DEF CategoryInv
    <3>2. \A c \in CategoryIDs : NoCategories[c] = 0
      BY DEF NoCategories
    <3>3. QED
      BY <2>1, <3>1, <3>2 DEF CategoryInv, IdsUsedOnce, CategoriesTold, Current
  <2>4. QED
    BY <2>2, <2>3 DEF DeleteAnswered
<1>4. FocusIsSafe'
  BY DEF CategoryInv, CategoryShapes, OneCategoryOverlay, IdsUsedOnce, FocusIsSafe, FocusRow, DeleteAnswered, categoryTable, overlayVars, CategoriesTold, Current, LoadsOfCategories, Refetch
<1>5. CategoriesAreComing'
  <2>1. UNCHANGED <<serverCategories, shownCategories, categoryNotes>>
    BY DEF DeleteAnswered, categoryTable
  <2>2. CASE Refetch(categoryLoads)
    <3>1. /\ \A l \in categoryLoads' : ~(l.phase = "ok" /\ l.seq = fetchSeq')
          /\ \E l \in categoryLoads' : l.seq = fetchSeq'
      BY <2>2, CategoriesRefetched DEF CategoryInv
    <3>2. QED
      BY <3>1 DEF CategoriesAreComing, CategoriesTold, Current
  <2>3. CASE UNCHANGED <<fetchSeq, categoryLoads>> /\ deletion = "failed" /\ UNCHANGED <<patches, editorSave>>
    BY <2>1, <2>3 DEF CategoryInv, CategoriesAreComing, CategoriesTold, Current
  <2>4. QED
    BY <2>2, <2>3 DEF DeleteAnswered
<1>6. QED
  BY <1>1, <1>2, <1>3, <1>4, <1>5 DEF CategoryInv

LEMMA DeleteDialogExitedKeeps == ASSUME CategoryInv, DeleteDialogExited PROVE CategoryInv'
<1> USE CategoryForms
<1>1. CategoryShapes'
  BY DEF CategoryInv, CategoryShapes, DeleteDialogExited, categoryTable, overlayVars, LoadsOfCategories, OverlayOpen, AfterDelete, RowTrigger, InList
<1>2. OneCategoryOverlay'
  BY DEF CategoryInv, CategoryShapes, OneCategoryOverlay, DeleteDialogExited, categoryTable, overlayVars, OverlayOpen, AfterDelete, RowTrigger, InList
<1>3. IdsUsedOnce'
  BY DEF CategoryInv, CategoryShapes, IdsUsedOnce, DeleteDialogExited, categoryTable, overlayVars, CategoriesTold, Current, LoadsOfCategories, OverlayOpen, AfterDelete, RowTrigger, InList
<1>4. FocusIsSafe'
  BY DEF CategoryInv, CategoryShapes, OneCategoryOverlay, IdsUsedOnce, FocusIsSafe, FocusRow, DeleteDialogExited, categoryTable, overlayVars, CategoriesTold, Current, LoadsOfCategories, OverlayOpen, AfterDelete, RowTrigger, InList
<1>5. CategoriesAreComing'
  BY DEF CategoryInv, CategoryShapes, OneCategoryOverlay, CategoriesAreComing, DeleteDialogExited, categoryTable, overlayVars, CategoriesTold, Current, LoadsOfCategories, OverlayOpen, AfterDelete, RowTrigger, InList
<1>6. QED
  BY <1>1, <1>2, <1>3, <1>4, <1>5 DEF CategoryInv
LEMMA CategoriesStart == ASSUME CategoriesInit PROVE CategoryInv
<1> USE CategoryForms
<1>1. FirstName \in CategoryNames
  <2>1. \E n \in CategoryNames : \A m \in CategoryNames : n <= m
    BY LeastNatural, CategoryAssumption
  <2>2. QED
    BY <2>1 DEF FirstName
<1>2. /\ serverCategories \in CategoryRows /\ lastCategoryId = CategoryCount - 1 /\ lastCategoryId \in Nat
      /\ \A c \in CategoryIDs : serverCategories[c] # 0 => c <= lastCategoryId
  BY <1>1, CategoryAssumption DEF CategoriesInit, CategoryRows, CategoryIDs
<1> DEFINE r == [seq |-> 1, phase |-> "asked", data |-> NoCategories]
<1>3. r \in LoadsOfCategories /\ r.seq = 1 /\ r.phase = "asked" /\ r.data = NoCategories
  BY DEF LoadsOfCategories
<1>4. categoryLoads = {r}
  BY DEF CategoriesInit
<1> HIDE DEF r
<1>5. \A c \in CategoryIDs : NoCategories[c] = 0
  BY DEF NoCategories
<1>6. CategoryShapes
  BY <1>2, <1>3, <1>4 DEF CategoriesInit, CategoryShapes
<1>7. OneCategoryOverlay
  BY DEF CategoriesInit, OneCategoryOverlay
<1>8. IdsUsedOnce
  BY <1>2, <1>3, <1>4, <1>5 DEF CategoriesInit, IdsUsedOnce, CategoriesTold
<1>9. FocusIsSafe
  BY DEF CategoriesInit, FocusIsSafe, FocusRow
<1>10. CategoriesAreComing
  BY <1>3, <1>4 DEF CategoriesInit, CategoriesAreComing, CategoriesTold, Current
<1>11. QED
  BY <1>6, <1>7, <1>8, <1>9, <1>10 DEF CategoryInv

LEMMA CategoryStep == ASSUME CategoryInv, [CategoriesNext]_categoryVars PROVE CategoryInv'
<1>1. CASE UNCHANGED categoryVars
  BY <1>1 DEF categoryVars, categoryTable, CategoryInv, CategoryShapes, OneCategoryOverlay, IdsUsedOnce, FocusIsSafe, FocusRow,
              CategoriesAreComing, CategoriesTold, Current
<1>2. CASE CategoriesNext
  BY <1>2, ServeCategoryLoadKeeps, CategoriesLoadedKeeps, OpenEditorKeeps, TypeCategoryNameKeeps, CloseEditorKeeps,
     HandleCategorySaveKeeps, ServeCategorySaveKeeps, CategorySaveAnsweredKeeps, EditorExitedKeeps,
     HandleToggleActiveKeeps, ServeToggleKeeps, ToggleAnsweredKeeps, OpenDeleteKeeps, CancelDeleteKeeps,
     OnConfirmDeleteKeeps, ServeDeleteKeeps, DeleteAnsweredKeeps, DeleteDialogExitedKeeps DEF CategoriesNext
<1>3. QED
  BY <1>1, <1>2

LEMMA CategoryInvHolds == CategoryInv => CategoriesShownAreTrue /\ CategoryFocusKept
<1> SUFFICES ASSUME CategoryInv PROVE CategoriesShownAreTrue /\ CategoryFocusKept
  OBVIOUS
<1>1. CategoriesShownAreTrue
  BY CategoryForms DEF CategoryInv, CategoriesAreComing, CategoriesShownAreTrue
<1>2. CategoryFocusKept
  BY CategoryForms DEF CategoryInv, FocusIsSafe, CategoryFocusKept
<1>3. QED
  BY <1>1, <1>2

\* With nothing under way the categories shown are the server's, and the focus is not lost,
\* with the exceptions the two properties name (fetchCategories, focusRowTrigger and the dialogs' exits in Categories.tsx).
THEOREM CategoriesHold == CategorySpec => [](CategoriesShownAreTrue /\ CategoryFocusKept)
<1>1. CategoriesInit => CategoryInv
  BY CategoriesStart
<1>2. CategoryInv /\ [CategoriesNext]_categoryVars => CategoryInv'
  BY CategoryStep
<1>3. CategoryInv => CategoriesShownAreTrue /\ CategoryFocusKept
  BY CategoryInvHolds
<1>4. QED
  BY <1>1, <1>2, <1>3, PTL DEF CategorySpec

\* The categories page is of its type: whatever it lists, loads or edits has a name that can be
\* given, negative while the category is inactive.
NamedValue(v) == v = 0 \/ v \in CategoryNames \/ -v \in CategoryNames

ListsNamed ==
  /\ lastCategoryId <= CategoryCount
  /\ \A c \in CategoryIDs : NamedValue(serverCategories[c]) /\ NamedValue(shownCategories[c])
  /\ \A l \in categoryLoads : l.seq >= 1 /\ \A c \in CategoryIDs : NamedValue(l.data[c])

FormsNamed == editor.name \in CategoryNames \cup {0} /\ editorSave.name \in CategoryNames \cup {0}

FocusPlaced ==
  /\ categoryExiting \subseteq {"editor", "delete"}
  /\ categoryFocus \in CategoryIDs \cup {OnAdd, OnHeading, OnOverlay, FocusLost}

CategoryForm == [mode : {"none", "create", "edit"}, id : {0} \cup CategoryIDs, name : Int]
CategorySaves == [phase : {"none", "asked", "ok", "failed"}, mode : {"none", "create", "edit"},
                  id : {0} \cup CategoryIDs, name : Int]

LEMMA FormsNamedKeep ==
  ASSUME CategoryInv, ListsNamed, FormsNamed, [CategoriesNext]_categoryVars
  PROVE  FormsNamed'
<1>1. /\ editor \in CategoryForm /\ editorSave \in CategorySaves /\ CategoryNames \subseteq Nat \ {0}
      /\ shownCategories \in CategoryRows
  BY CategoryAssumption DEF CategoryInv, CategoryShapes, CategoryForm, CategorySaves
<1>2. ASSUME editor' \in {editor, NoEditor}, editorSave' \in {editorSave, NoEditorSave} PROVE FormsNamed'
  BY <1>2 DEF FormsNamed, NoEditor, NoEditorSave
<1>3. CASE ServeCategoryLoad \/ CategoriesLoaded \/ CloseEditor \/ CategorySaveAnswered \/ EditorExited
  BY <1>2, <1>3 DEF ServeCategoryLoad, CategoriesLoaded, CloseEditor, CategorySaveAnswered, EditorExited,
                    overlayVars
<1>4. CASE HandleToggleActive \/ ServeToggle \/ ToggleAnswered \/ OpenDelete \/ CancelDelete
  BY <1>2, <1>4 DEF HandleToggleActive, ServeToggle, ToggleAnswered, OpenDelete, CancelDelete, overlayVars
<1>5. CASE OnConfirmDelete \/ ServeDelete \/ DeleteAnswered \/ DeleteDialogExited
  BY <1>2, <1>5 DEF OnConfirmDelete, ServeDelete, DeleteAnswered, DeleteDialogExited
<1>6. CASE OpenEditor
  <2>1. editorSave' = editorSave
    BY <1>6 DEF OpenEditor
  <2>2. CASE editor' = [mode |-> "create", id |-> 0, name |-> 0]
    BY <2>1, <2>2 DEF FormsNamed
  <2>3. CASE \E c \in InList : editor' = [mode |-> "edit", id |-> c,
                                          name |-> IF shownCategories[c] > 0 THEN shownCategories[c]
                                                   ELSE -shownCategories[c]]
    <3>1. PICK c \in InList : editor'.name = IF shownCategories[c] > 0 THEN shownCategories[c]
                                             ELSE -shownCategories[c]
      BY <2>3
    <3>2. NamedValue(shownCategories[c]) /\ shownCategories[c] \in Int
      BY <1>1, <3>1 DEF InList, ListsNamed, CategoryRows
    <3>3. editor'.name \in CategoryNames \cup {0}
      BY <1>1, <3>1, <3>2 DEF NamedValue
    <3>4. QED
      BY <2>1, <3>3 DEF FormsNamed
  <2>4. QED
    BY <1>6, <2>2, <2>3 DEF OpenEditor
<1>7. CASE TypeCategoryName
  <2>1. editorSave' = editorSave /\ \E n \in CategoryNames : editor' = [editor EXCEPT !.name = n]
    BY <1>7 DEF TypeCategoryName
  <2>2. editor'.name \in CategoryNames
    BY <1>1, <2>1 DEF CategoryForm
  <2>3. QED
    BY <2>1, <2>2 DEF FormsNamed
<1>8. CASE HandleCategorySave
  <2>1. editor' = editor /\ editorSave'.name = editor.name
    BY <1>8 DEF HandleCategorySave
  <2>2. QED
    BY <2>1 DEF FormsNamed
<1>9. CASE ServeCategorySave
  <2>1. editor' = editor /\ \E ph \in {"ok", "failed"} : editorSave' = [editorSave EXCEPT !.phase = ph]
    BY <1>9 DEF ServeCategorySave
  <2>2. editorSave'.name = editorSave.name
    BY <1>1, <2>1 DEF CategorySaves
  <2>3. QED
    BY <2>1, <2>2 DEF FormsNamed
<1>10. CASE UNCHANGED categoryVars
  BY <1>2, <1>10 DEF categoryVars
<1>11. QED
  BY <1>3, <1>4, <1>5, <1>6, <1>7, <1>8, <1>9, <1>10 DEF CategoriesNext

LEMMA FocusPlacedKept ==
  ASSUME CategoryInv, FocusPlaced, [CategoriesNext]_categoryVars
  PROVE  FocusPlaced'
<1>1. deleteTarget # 0 \/ "delete" \in categoryExiting => lastDeleteId \in CategoryIDs
  BY DEF CategoryInv, OneCategoryOverlay
<1>2. \A c : RowTrigger(c) \in CategoryIDs \cup {OnHeading}
  BY DEF RowTrigger, InList
<1>3. ASSUME categoryExiting' \subseteq categoryExiting \cup {"editor", "delete"},
             categoryFocus' \in CategoryIDs \cup {categoryFocus, OnAdd, OnHeading, OnOverlay, FocusLost}
      PROVE  FocusPlaced'
  BY <1>3 DEF FocusPlaced
<1>4. CASE ServeCategoryLoad \/ TypeCategoryName \/ CloseEditor \/ HandleCategorySave \/ ServeCategorySave
  BY <1>3, <1>4 DEF ServeCategoryLoad, TypeCategoryName, CloseEditor, HandleCategorySave, ServeCategorySave,
                    overlayVars
<1>5. CASE CategoriesLoaded
  BY <1>3, <1>5 DEF CategoriesLoaded, overlayVars
<1>6. CASE OpenEditor \/ CategorySaveAnswered \/ OpenDelete \/ CancelDelete \/ OnConfirmDelete \/ ServeDelete
  BY <1>3, <1>6 DEF OpenEditor, CategorySaveAnswered, OpenDelete, CancelDelete, OnConfirmDelete, ServeDelete
<1>7. CASE EditorExited
  BY <1>2, <1>3, <1>7 DEF EditorExited
<1>8. CASE HandleToggleActive
  BY <1>3, <1>8 DEF HandleToggleActive, InList, overlayVars
<1>9. CASE ServeToggle \/ ToggleAnswered \/ DeleteAnswered
  BY <1>3, <1>9 DEF ServeToggle, ToggleAnswered, DeleteAnswered, overlayVars
<1>10. CASE DeleteDialogExited
  BY <1>2, <1>3, <1>10 DEF DeleteDialogExited, AfterDelete
<1>11. CASE UNCHANGED categoryVars
  BY <1>3, <1>11 DEF categoryVars
<1>12. QED
  BY <1>4, <1>5, <1>6, <1>7, <1>8, <1>9, <1>10, <1>11 DEF CategoriesNext

LEMMA ListsNamedKeep ==
  ASSUME CategoryInv, ListsNamed, FormsNamed, [CategoriesNext]_categoryVars
  PROVE  ListsNamed'
<1>1. /\ serverCategories \in CategoryRows /\ shownCategories \in CategoryRows /\ CategoryNames \subseteq Nat \ {0}
      /\ categoryLoads \subseteq LoadsOfCategories /\ fetchSeq \in Nat /\ lastCategoryId \in Nat /\ CategoryCount \in Nat
      /\ \A l \in categoryLoads : l.seq <= fetchSeq
      /\ patches \subseteq [id : CategoryIDs, active : BOOLEAN, phase : {"asked", "ok", "failed"}]
      /\ editorSave \in CategorySaves
  BY CategoryAssumption DEF CategoryInv, CategoryShapes, CategorySaves
<1>2. \A c \in CategoryIDs : NamedValue(NoCategories[c]) /\ NoCategories \in CategoryRows
  BY DEF NoCategories, NamedValue, CategoryRows
<1>3. ASSUME \A c \in CategoryIDs : NamedValue(serverCategories'[c]) /\ NamedValue(shownCategories'[c]),
             lastCategoryId' <= CategoryCount,
             \A l \in categoryLoads' : \/ l \in categoryLoads
                                       \/ l.seq >= 1 /\ \A c \in CategoryIDs : NamedValue(l.data[c])
      PROVE  ListsNamed'
  BY <1>3 DEF ListsNamed, NamedValue
<1>4. ASSUME UNCHANGED <<serverCategories, shownCategories, lastCategoryId>>,
             \A l \in categoryLoads' : \/ l \in categoryLoads
                                       \/ l.seq >= 1 /\ \A c \in CategoryIDs : NamedValue(l.data[c])
      PROVE  ListsNamed'
  BY <1>3, <1>4 DEF ListsNamed
<1>5. ASSUME Refetch(categoryLoads), UNCHANGED <<serverCategories, shownCategories, lastCategoryId>>
      PROVE  ListsNamed'
  <2>1. categoryLoads' = categoryLoads \cup {[seq |-> fetchSeq + 1, phase |-> "asked", data |-> NoCategories]}
    BY <1>5 DEF Refetch
  <2>2. QED
    BY <1>1, <1>2, <1>4, <1>5, <2>1
<1>6. ASSUME NEW c \in CategoryIDs, NEW v \in Int, NamedValue(v),
             serverCategories' \in {serverCategories, [serverCategories EXCEPT ![c] = v]},
             lastCategoryId' <= CategoryCount,
             UNCHANGED <<shownCategories, categoryLoads>>
      PROVE  ListsNamed'
  <2>1. \A d \in CategoryIDs : serverCategories'[d] \in {serverCategories[d], v}
    BY <1>1, <1>6 DEF CategoryRows
  <2>2. \A d \in CategoryIDs : NamedValue(serverCategories'[d])
    BY <1>6, <2>1 DEF ListsNamed
  <2>3. QED
    BY <1>3, <1>6, <2>2 DEF ListsNamed
<1>7. CASE OpenEditor \/ TypeCategoryName \/ CloseEditor \/ HandleCategorySave \/ EditorExited \/ UNCHANGED categoryVars
  BY <1>4, <1>7 DEF OpenEditor, TypeCategoryName, CloseEditor, HandleCategorySave, EditorExited, categoryTable,
                    categoryVars
<1>8. CASE HandleToggleActive \/ OpenDelete \/ CancelDelete \/ OnConfirmDelete \/ DeleteDialogExited
  BY <1>4, <1>8 DEF HandleToggleActive, OpenDelete, CancelDelete, OnConfirmDelete, DeleteDialogExited, categoryTable
<1>9. CASE CategorySaveAnswered
  <2>1. UNCHANGED <<serverCategories, shownCategories, lastCategoryId>>
        /\ (Refetch(categoryLoads) \/ categoryLoads' = categoryLoads)
    BY <1>9 DEF CategorySaveAnswered, categoryTable
  <2>2. QED
    BY <1>4, <1>5, <2>1
<1>10. CASE ToggleAnswered
  <2>1. UNCHANGED <<serverCategories, shownCategories, lastCategoryId>>
        /\ (Refetch(categoryLoads) \/ categoryLoads' = categoryLoads)
    BY <1>10 DEF ToggleAnswered, categoryTable
  <2>2. QED
    BY <1>4, <1>5, <2>1
<1>11. CASE DeleteAnswered
  <2>1. UNCHANGED <<serverCategories, shownCategories, lastCategoryId>>
        /\ (Refetch(categoryLoads) \/ categoryLoads' = categoryLoads)
    BY <1>11 DEF DeleteAnswered, categoryTable
  <2>2. QED
    BY <1>4, <1>5, <2>1
<1>12. CASE ServeCategoryLoad
  <2>1. UNCHANGED <<serverCategories, shownCategories, lastCategoryId>>
    BY <1>12 DEF ServeCategoryLoad, categoryTable
  <2>2. PICK l \in categoryLoads :
          \/ categoryLoads' = (categoryLoads \ {l}) \cup {[l EXCEPT !.phase = "ok", !.data = serverCategories]}
          \/ categoryLoads' = (categoryLoads \ {l}) \cup {[l EXCEPT !.phase = "failed"]}
    BY <1>12 DEF ServeCategoryLoad
  <2>3. /\ [l EXCEPT !.phase = "ok", !.data = serverCategories].seq = l.seq
        /\ [l EXCEPT !.phase = "ok", !.data = serverCategories].data = serverCategories
        /\ [l EXCEPT !.phase = "failed"].seq = l.seq /\ [l EXCEPT !.phase = "failed"].data = l.data
    BY <1>1 DEF LoadsOfCategories
  <2>4. \A k \in categoryLoads' :
          k \in categoryLoads \/ (k.seq = l.seq /\ k.data \in {serverCategories, l.data})
    BY <2>2, <2>3
  <2>5. l.seq >= 1 /\ \A c \in CategoryIDs : NamedValue(l.data[c]) /\ NamedValue(serverCategories[c])
    BY DEF ListsNamed
  <2>6. QED
    BY <1>4, <2>1, <2>4, <2>5
<1>13. CASE CategoriesLoaded
  <2>1. PICK l \in categoryLoads : shownCategories' \in {shownCategories, l.data, NoCategories}
    BY <1>13 DEF CategoriesLoaded
  <2>2. UNCHANGED <<serverCategories, lastCategoryId>> /\ categoryLoads' \subseteq categoryLoads
    BY <1>13 DEF CategoriesLoaded, categoryTable
  <2>3. \A c \in CategoryIDs : NamedValue(shownCategories'[c])
    BY <1>2, <2>1 DEF ListsNamed
  <2>4. QED
    BY <1>3, <2>2, <2>3 DEF ListsNamed
<1>14. CASE ServeCategorySave
  <2>1. UNCHANGED <<shownCategories, categoryLoads>>
    BY <1>14 DEF ServeCategorySave
  <2>2. CASE UNCHANGED categoryTable
    BY <1>4, <2>1, <2>2 DEF categoryTable
  <2>3. CASE \E c \in CategoryIDs :
               /\ editorSave.mode = "create" => c = lastCategoryId + 1
               /\ serverCategories' = [serverCategories EXCEPT ![c] = IF @ < 0 THEN -editorSave.name ELSE editorSave.name]
               /\ lastCategoryId' = IF editorSave.mode = "create" THEN lastCategoryId + 1 ELSE lastCategoryId
    <3>1. PICK c \in CategoryIDs :
               /\ editorSave.mode = "create" => c = lastCategoryId + 1
               /\ serverCategories' = [serverCategories EXCEPT ![c] = IF @ < 0 THEN -editorSave.name ELSE editorSave.name]
               /\ lastCategoryId' = IF editorSave.mode = "create" THEN lastCategoryId + 1 ELSE lastCategoryId
      BY <2>3
    <3> DEFINE v == IF serverCategories[c] < 0 THEN -editorSave.name ELSE editorSave.name
    <3>2. editorSave.name \in CategoryNames \cup {0} /\ editorSave.name \in Int
      BY <1>1 DEF FormsNamed, CategorySaves
    <3>3. v \in Int /\ NamedValue(v)
      BY <3>2 DEF NamedValue
    <3>4. serverCategories' = [serverCategories EXCEPT ![c] = v]
      BY <3>1
    <3> HIDE DEF v
    <3>5. lastCategoryId' <= CategoryCount
      BY <1>1, <3>1 DEF ListsNamed, CategoryIDs
    <3>6. QED
      BY <1>6, <2>1, <3>3, <3>4, <3>5
  <2>4. QED
    BY <1>14, <2>2, <2>3 DEF ServeCategorySave
<1>15. CASE ServeToggle
  <2>1. UNCHANGED <<shownCategories, categoryLoads, lastCategoryId>>
    BY <1>15 DEF ServeToggle
  <2>2. PICK p \in patches :
          LET name == IF serverCategories[p.id] < 0 THEN -serverCategories[p.id] ELSE serverCategories[p.id]
          IN  serverCategories' \in {serverCategories,
                                     [serverCategories EXCEPT ![p.id] = IF p.active THEN name ELSE -name]}
    BY <1>15 DEF ServeToggle
  <2> DEFINE name == IF serverCategories[p.id] < 0 THEN -serverCategories[p.id] ELSE serverCategories[p.id]
             v == IF p.active THEN name ELSE -name
  <2>3. p.id \in CategoryIDs /\ serverCategories[p.id] \in Int /\ NamedValue(serverCategories[p.id])
    BY <1>1 DEF ListsNamed, CategoryRows
  <2>4. v \in Int /\ NamedValue(v)
    BY <2>3 DEF NamedValue
  <2>5. serverCategories' \in {serverCategories, [serverCategories EXCEPT ![p.id] = v]}
    BY <2>2
  <2> HIDE DEF v
  <2>6. lastCategoryId' <= CategoryCount
    BY <2>1 DEF ListsNamed
  <2>7. QED
    BY <1>6, <2>1, <2>3, <2>4, <2>5, <2>6
<1>16. CASE ServeDelete
  <2>1. UNCHANGED <<shownCategories, categoryLoads, lastCategoryId>>
        /\ serverCategories' \in {serverCategories, [serverCategories EXCEPT ![deleteTarget] = 0]}
    BY <1>16 DEF ServeDelete
  <2>2. deleteTarget \in CategoryIDs
    BY <1>16 DEF ServeDelete, CategoryInv, OneCategoryOverlay
  <2>3. 0 \in Int /\ NamedValue(0) /\ lastCategoryId' <= CategoryCount
    BY <2>1 DEF NamedValue, ListsNamed
  <2>4. QED
    BY <1>6, <2>1, <2>2, <2>3
<1>17. QED
  BY <1>7, <1>8, <1>9, <1>10, <1>11, <1>12, <1>13, <1>14, <1>15, <1>16 DEF CategoriesNext

LEMMA CategoriesTyped == CategorySpec => []CategoriesTypeOK
<1> DEFINE Bounds == ListsNamed /\ FormsNamed /\ FocusPlaced
<1>1. CategoriesInit => CategoryInv /\ Bounds
  <2> SUFFICES ASSUME CategoriesInit PROVE CategoryInv /\ Bounds
    OBVIOUS
  <2>1. FirstName \in CategoryNames
    <3>1. CategoryNames \subseteq Nat /\ CategoryNames # {}
      BY CategoryAssumption
    <3>2. \E n \in CategoryNames : \A m \in CategoryNames : n <= m
      BY <3>1, LeastNatural
    <3>3. QED
      BY <3>2 DEF FirstName
  <2>2. \A c \in CategoryIDs : NamedValue(serverCategories[c]) /\ NamedValue(NoCategories[c])
    BY <2>1 DEF CategoriesInit, NamedValue, NoCategories
  <2>3. ListsNamed
    <3>1. \A l \in categoryLoads : l.seq = 1 /\ l.data = NoCategories
      BY DEF CategoriesInit
    <3>2. lastCategoryId <= CategoryCount /\ shownCategories = NoCategories
      BY CategoryAssumption DEF CategoriesInit
    <3>3. QED
      BY <2>2, <3>1, <3>2 DEF ListsNamed
  <2>4. FormsNamed /\ FocusPlaced
    BY DEF CategoriesInit, FormsNamed, NoEditor, NoEditorSave, FocusPlaced
  <2>5. QED
    BY <2>3, <2>4, CategoriesStart
<1>2. CategoryInv /\ Bounds /\ [CategoriesNext]_categoryVars => CategoryInv' /\ Bounds'
  BY CategoryStep, ListsNamedKeep, FormsNamedKeep, FocusPlacedKept
<1>3. CategoryInv /\ Bounds => CategoriesTypeOK
  <2> SUFFICES ASSUME CategoryInv, Bounds PROVE CategoriesTypeOK
    OBVIOUS
  <2>1. /\ \A c \in CategoryIDs : serverCategories[c] \in Int /\ shownCategories[c] \in Int
        /\ lastCategoryId \in 0..CategoryCount
    BY CategoryAssumption DEF CategoryInv, CategoryShapes, CategoryRows, ListsNamed
  <2>2. \A l \in categoryLoads : l.seq \in 1..fetchSeq
    BY DEF CategoryInv, CategoryShapes, LoadsOfCategories, ListsNamed
  <2>3. /\ editor.mode \in {"none", "create", "edit"} /\ editorSave.phase \in {"none", "asked", "ok", "failed"}
        /\ deletion \in {"none", "asked", "ok", "failed"}
    BY DEF CategoryInv, CategoryShapes
  <2>4. deleteTarget \in CategoryIDs \cup {0}
    BY DEF CategoryInv, OneCategoryOverlay
  <2>5. QED
    BY <2>1, <2>2, <2>3, <2>4 DEF CategoriesTypeOK, FormsNamed, FocusPlaced
<1>4. QED
  BY <1>1, <1>2, <1>3, PTL DEF CategorySpec

(***************************************************************************)
(* The currencies and their rates (CurrencyRates): while a save goes from  *)
(* rate to rate nothing else moves, and otherwise the last load under way  *)
(* brings the list.                                                        *)
(***************************************************************************)
\* A non-empty bounded set of naturals has a greatest one.
\* A sequence without one of its elements.
LEMMA WithoutOne ==
  ASSUME NEW S, NEW s \in Seq(S), NEW i \in DOMAIN s
  PROVE  LET r == SubSeq(s, 1, i - 1) \o SubSeq(s, i + 1, Len(s))
         IN  /\ r \in Seq(S) /\ Len(r) = Len(s) - 1
             /\ \A j \in 1..Len(r) : r[j] = IF j < i THEN s[j] ELSE s[j + 1]
<1> DEFINE a == SubSeq(s, 1, i - 1)
           b == SubSeq(s, i + 1, Len(s))
<1>1. Len(s) \in Nat /\ i \in 1..Len(s) /\ \A j \in 1..Len(s) : s[j] \in S
  BY LenProperties, ElementOfSeq
<1>2. a \in Seq(S) /\ Len(a) = i - 1 /\ \A j \in 1..(i - 1) : a[j] = s[j]
  <2>1. i - 1 \in Int /\ 1 \in Int /\ \A j \in 1..(i - 1) : s[j] \in S
    BY <1>1
  <2>2. /\ a \in Seq(S) /\ Len(a) = (IF 1 <= i - 1 THEN i - 1 - 1 + 1 ELSE 0)
        /\ \A j \in 1..(i - 1 - 1 + 1) : a[j] = s[1 + j - 1]
    BY <2>1, SubSeqProperties
  <2> HIDE DEF a
  <2>3. QED
    BY <1>1, <2>2
<1>3. b \in Seq(S) /\ Len(b) = Len(s) - i /\ \A j \in 1..(Len(s) - i) : b[j] = s[i + j]
  <2>1. i + 1 \in Int /\ Len(s) \in Int /\ \A j \in (i + 1)..Len(s) : s[j] \in S
    BY <1>1
  <2>2. /\ b \in Seq(S) /\ Len(b) = (IF i + 1 <= Len(s) THEN Len(s) - (i + 1) + 1 ELSE 0)
        /\ \A j \in 1..(Len(s) - (i + 1) + 1) : b[j] = s[i + 1 + j - 1]
    BY <2>1, SubSeqProperties
  <2> HIDE DEF b
  <2>3. QED
    BY <1>1, <2>2
<1> HIDE DEF a, b
<1>4. /\ a \o b \in Seq(S) /\ Len(a \o b) = Len(a) + Len(b)
      /\ \A j \in 1..(Len(a) + Len(b)) : (a \o b)[j] = IF j <= Len(a) THEN a[j] ELSE b[j - Len(a)]
  BY <1>2, <1>3, ConcatProperties
<1>5. Len(a \o b) = Len(s) - 1
  BY <1>1, <1>2, <1>3, <1>4
<1>6. ASSUME NEW j \in 1..Len(a \o b) PROVE (a \o b)[j] = IF j < i THEN s[j] ELSE s[j + 1]
  <2>1. (a \o b)[j] = IF j <= i - 1 THEN a[j] ELSE b[j - (i - 1)]
    BY <1>2, <1>4
  <2>2. CASE j < i
    BY <1>1, <1>2, <2>1, <2>2
  <2>3. CASE ~(j < i)
    <3>1. j - (i - 1) \in 1..(Len(s) - i) /\ i + (j - (i - 1)) = j + 1 /\ ~(j <= i - 1)
      BY <1>1, <1>5, <2>3
    <3>2. QED
      BY <1>3, <2>1, <2>3, <3>1
  <2>4. QED
    BY <2>2, <2>3
<1>7. QED
  BY <1>4, <1>5, <1>6 DEF a, b

RateSpec == RateInit /\ [][RateNext]_rateVars

LoadsOfRates == [phase : {"asked", "ok", "failed"}, data : RateLists]
SavesOfRates == [on : BOOLEAN, at : 1..(CurrencyCount + 1), list : RateLists, shown : RateLists,
                 ok : BOOLEAN]
RateAdditions == [code : {0} \cup Codes, rate : {0} \cup Rates, phase : {"none", "asked", "ok", "failed"}]

RateShapes ==
  /\ rates \in RateLists /\ currencies \in RateLists /\ editRates \in RateLists
  /\ rateSave \in SavesOfRates /\ addition \in RateAdditions
  /\ addition.phase # "none" => addition.code \in Codes /\ addition.rate \in Rates
  /\ addition.phase = "none" <=> addition = NoAddition
  /\ rateLoads \in Seq(LoadsOfRates)

\* A save started from the list looks at one rate after the other, and nothing else moves.
SaveInPlace ==
  rateNotes = {} /\ rateSave.on =>
    /\ rateLoads = <<>> /\ addition.phase = "none" /\ currencies = rateSave.list
    /\ rateSave.ok => \A c \in Codes :
         rates[c] = IF c < rateSave.at /\ rateSave.shown[c] # 0 THEN rateSave.shown[c] ELSE rateSave.list[c]

\* Otherwise the list is the server's, or the last load under way brings it.
RatesAreComing ==
  rateNotes = {} /\ ~rateSave.on /\ addition.phase # "ok" =>
    IF rateLoads = <<>> THEN currencies = rates
    ELSE rateLoads[Len(rateLoads)].phase = "ok" => rateLoads[Len(rateLoads)].data = rates

RateInv == RateShapes /\ SaveInPlace /\ RatesAreComing

LEMMA RateForms ==
  /\ NoCurrencies \in RateLists /\ RateLoad \in LoadsOfRates /\ RateLoad.phase = "asked"
  /\ NotSavingRates \in SavesOfRates /\ ~NotSavingRates.on
  /\ NoAddition \in RateAdditions /\ NoAddition.phase = "none"
<1>1. NoCurrencies \in RateLists
  BY DEF NoCurrencies, RateLists
<1>2. 1 \in 1..(CurrencyCount + 1)
  BY RateAssumption
<1>3. QED
  BY <1>1, <1>2 DEF RateLoad, LoadsOfRates, NotSavingRates, SavesOfRates, NoAddition, RateAdditions

\* One more load is the last one, and it has only been asked for.
LEMMA LoadAppended ==
  ASSUME rateLoads \in Seq(LoadsOfRates), rateLoads' = Append(rateLoads, RateLoad)
  PROVE  /\ rateLoads' \in Seq(LoadsOfRates) /\ rateLoads' # <<>>
         /\ rateLoads'[Len(rateLoads')].phase = "asked"
<1>1. /\ Append(rateLoads, RateLoad) \in Seq(LoadsOfRates) /\ Append(rateLoads, RateLoad) # <<>>
      /\ Len(Append(rateLoads, RateLoad)) = Len(rateLoads) + 1
      /\ Append(rateLoads, RateLoad)[Len(rateLoads) + 1] = RateLoad
  BY RateForms, AppendProperties
<1>2. QED
  BY <1>1, RateForms

LEMMA ServeRateLoadKeeps == ASSUME RateInv, ServeRateLoad PROVE RateInv'
<1>1. PICK i \in DOMAIN rateLoads :
        /\ rateLoads[i].phase = "asked"
        /\ \/ rateLoads' = [rateLoads EXCEPT ![i] = [phase |-> "ok", data |-> rates]]
           \/ rateLoads' = [rateLoads EXCEPT ![i].phase = "failed"]
  BY DEF ServeRateLoad
<1>2. UNCHANGED <<rates, currencies, editRates, rateSave, addition, rateNotes>>
  BY DEF ServeRateLoad
<1>3. rateLoads \in Seq(LoadsOfRates) /\ rateLoads[i] \in LoadsOfRates /\ i \in 1..Len(rateLoads)
      /\ Len(rateLoads) \in Nat
  BY ElementOfSeq, LenProperties DEF RateInv, RateShapes
<1>4. PICK l \in LoadsOfRates : /\ rateLoads' = [rateLoads EXCEPT ![i] = l]
                                /\ (l.phase = "ok" /\ l.data = rates) \/ l.phase = "failed"
  <2>1. [phase |-> "ok", data |-> rates] \in LoadsOfRates /\ [rateLoads[i] EXCEPT !.phase = "failed"] \in LoadsOfRates
    BY <1>3 DEF LoadsOfRates, RateInv, RateShapes
  <2>2. [rateLoads[i] EXCEPT !.phase = "failed"].phase = "failed"
    BY <1>3 DEF LoadsOfRates
  <2>3. QED
    BY <1>1, <2>1, <2>2
<1>5. /\ rateLoads' \in Seq(LoadsOfRates) /\ Len(rateLoads') = Len(rateLoads)
      /\ \A j \in 1..Len(rateLoads) : rateLoads'[j] = IF j = i THEN l ELSE rateLoads[j]
  BY <1>3, <1>4, ExceptSeq
<1>6. rateLoads # <<>> /\ rateLoads' # <<>>
  BY <1>3, <1>5, EmptySeq
<1>7. RateShapes'
  BY <1>2, <1>5 DEF RateInv, RateShapes
<1>8. SaveInPlace'
  BY <1>2, <1>6 DEF RateInv, SaveInPlace
<1>9. RatesAreComing'
  BY <1>2, <1>3, <1>4, <1>5, <1>6 DEF RateInv, RatesAreComing
<1>10. QED
  BY <1>7, <1>8, <1>9 DEF RateInv

\* Without a list out of order, the last load is the only one when it is shown.
LEMMA FetchCurrenciesKeeps == ASSUME RateInv, FetchCurrencies PROVE RateInv'
<1>1. PICK i \in DOMAIN rateLoads :
        /\ rateLoads[i].phase # "asked" /\ rateLoads' = WithoutLoad(i)
        /\ IF rateLoads[i].phase = "failed"
           THEN UNCHANGED <<currencies, editRates>> /\ rateNotes' = rateNotes \cup {"failed"}
           ELSE /\ currencies' = rateLoads[i].data /\ editRates' = rateLoads[i].data
                /\ rateNotes' = IF i = 1 THEN rateNotes ELSE rateNotes \cup {"crossed"}
  BY DEF FetchCurrencies
<1>2. UNCHANGED <<rates, rateSave, addition>>
  BY DEF FetchCurrencies
<1>3. rateLoads \in Seq(LoadsOfRates) /\ rateLoads[i] \in LoadsOfRates /\ i \in 1..Len(rateLoads)
      /\ Len(rateLoads) \in Nat
  BY ElementOfSeq, LenProperties DEF RateInv, RateShapes
<1>4. /\ rateLoads' \in Seq(LoadsOfRates) /\ Len(rateLoads') = Len(rateLoads) - 1
      /\ \A j \in 1..Len(rateLoads') : rateLoads'[j] = IF j < i THEN rateLoads[j] ELSE rateLoads[j + 1]
  BY <1>1, <1>3, WithoutOne DEF WithoutLoad
<1>5. RateShapes'
  <2>1. currencies' \in RateLists /\ editRates' \in RateLists
    BY <1>1, <1>3 DEF LoadsOfRates, RateInv, RateShapes
  <2>2. QED
    BY <1>2, <1>4, <2>1 DEF RateInv, RateShapes
<1>6. rateNotes' = {} => rateNotes = {} /\ i = 1 /\ rateLoads[1].phase = "ok" /\ currencies' = rateLoads[1].data
  BY <1>1, <1>3 DEF LoadsOfRates
<1>7. rateLoads # <<>>
  BY <1>3, EmptySeq
<1>8. SaveInPlace'
  BY <1>2, <1>6, <1>7 DEF RateInv, SaveInPlace
<1>9. RatesAreComing'
  <2> SUFFICES ASSUME rateNotes' = {}, ~rateSave.on, addition.phase # "ok"
               PROVE  IF rateLoads' = <<>> THEN currencies' = rates'
                      ELSE rateLoads'[Len(rateLoads')].phase = "ok" => rateLoads'[Len(rateLoads')].data = rates'
    BY <1>2 DEF RatesAreComing
  <2>1. rateLoads[Len(rateLoads)].phase = "ok" => rateLoads[Len(rateLoads)].data = rates
    BY <1>6, <1>7 DEF RateInv, RatesAreComing
  <2>2. CASE Len(rateLoads) = 1
    <3>1. rateLoads' = <<>>
      BY <1>4, <2>2, EmptySeq
    <3>2. QED
      BY <1>2, <1>6, <2>1, <2>2, <3>1
  <2>3. CASE Len(rateLoads) # 1
    <3>1. Len(rateLoads') \in 1..Len(rateLoads') /\ rateLoads'[Len(rateLoads')] = rateLoads[Len(rateLoads)]
      BY <1>3, <1>4, <1>6, <2>3
    <3>2. rateLoads' # <<>>
      BY <3>1, EmptySeq
    <3>3. QED
      BY <1>2, <2>1, <3>1, <3>2
  <2>4. QED
    BY <2>2, <2>3
<1>10. QED
  BY <1>5, <1>8, <1>9 DEF RateInv

LEMMA OnRateChangeKeeps == ASSUME RateInv, OnRateChange PROVE RateInv'
<1>1. editRates' \in RateLists
  BY DEF OnRateChange, RateInv, RateShapes, RateLists
<1>2. UNCHANGED <<rates, currencies, rateSave, addition, rateLoads, rateNotes>>
  BY DEF OnRateChange
<1>3. QED
  BY <1>1, <1>2 DEF RateInv, RateShapes, SaveInPlace, RatesAreComing

LEMMA HandleSaveRatesKeeps == ASSUME RateInv, HandleSaveRates PROVE RateInv'
<1> DEFINE s == [on |-> TRUE, at |-> 1, list |-> currencies, shown |-> editRates, ok |-> TRUE]
<1>1. /\ ~rateSave.on /\ rateSave' = s
      /\ rateNotes' = {} => rateNotes = {} /\ rateLoads = <<>> /\ addition.phase = "none"
      /\ UNCHANGED <<rates, currencies, editRates, addition, rateLoads>>
  BY RateForms DEF HandleSaveRates, RateInv, RateShapes
<1>2. s \in SavesOfRates /\ s.on /\ s.at = 1 /\ s.list = currencies
  BY RateAssumption DEF RateInv, RateShapes, SavesOfRates
<1> HIDE DEF s
<1>3. RateShapes'
  BY <1>1, <1>2 DEF RateInv, RateShapes
<1>4. rateNotes' = {} => currencies = rates
  BY <1>1 DEF RateInv, RatesAreComing
<1>5. \A c \in Codes : ~(c < 1)
  BY DEF Codes
<1>6. SaveInPlace'
  BY <1>1, <1>2, <1>4, <1>5 DEF SaveInPlace
<1>7. RatesAreComing'
  BY <1>1, <1>2 DEF RatesAreComing
<1>8. QED
  BY <1>3, <1>6, <1>7 DEF RateInv

\* A rate is sent, found to agree, or fails and ends the save.
LEMMA SaveRateKeeps == ASSUME RateInv, SaveRate PROVE RateInv'
<1> DEFINE c0 == rateSave.at
           put == [rates EXCEPT ![c0] = rateSave.shown[c0]]
<1>1. /\ rateSave.on /\ c0 \in Codes
      /\ UNCHANGED <<currencies, editRates, addition, rateLoads, rateNotes>>
      /\ \/ /\ rates' = IF Differs(c0) THEN put ELSE rates
            /\ rateSave' = [rateSave EXCEPT !.at = c0 + 1]
         \/ /\ rates' \in {rates, put}
            /\ rateSave' = [rateSave EXCEPT !.at = CurrencyCount + 1, !.ok = FALSE]
  BY DEF SaveRate
<1>2. rateSave \in SavesOfRates /\ rates \in RateLists /\ CurrencyCount + 1 \in 1..(CurrencyCount + 1)
      /\ c0 + 1 \in 1..(CurrencyCount + 1) /\ c0 \in Int
  BY <1>1, RateAssumption DEF RateInv, RateShapes, Codes
<1>3. put \in RateLists
  BY <1>1, <1>2 DEF SavesOfRates, RateLists
<1>4. /\ rateSave' \in SavesOfRates /\ rateSave'.on /\ rateSave'.list = rateSave.list
      /\ rateSave'.shown = rateSave.shown
      /\ \/ rateSave'.at = c0 + 1 /\ rateSave'.ok = rateSave.ok
         \/ ~rateSave'.ok
  BY <1>1, <1>2 DEF SavesOfRates
<1>5. rates' \in RateLists
  BY <1>1, <1>2, <1>3
<1>6. RateShapes'
  BY <1>1, <1>4, <1>5 DEF RateInv, RateShapes
<1>7. rateSave'.ok => /\ rateSave'.at = c0 + 1 /\ rateSave.ok
                      /\ rates' = IF Differs(c0) THEN put ELSE rates
  BY <1>1, <1>2 DEF SavesOfRates
<1>8. SaveInPlace'
  <2> SUFFICES ASSUME rateNotes = {}, rateSave'.ok, NEW c \in Codes
               PROVE  rates'[c] = IF c < c0 + 1 /\ rateSave.shown[c] # 0 THEN rateSave.shown[c] ELSE rateSave.list[c]
    BY <1>1, <1>4, <1>7 DEF RateInv, SaveInPlace
  <2>1. rates[c] = IF c < c0 /\ rateSave.shown[c] # 0 THEN rateSave.shown[c] ELSE rateSave.list[c]
    BY <1>1, <1>7 DEF RateInv, SaveInPlace
  <2>2. c \in Int
    BY DEF Codes
  <2>3. CASE c # c0
    <3>1. rates'[c] = rates[c] /\ (c < c0 <=> c < c0 + 1)
      BY <1>2, <1>7, <2>2, <2>3 DEF RateLists
    <3>2. QED
      BY <2>1, <3>1
  <2>4. CASE c = c0
    <3>1. rates[c] = rateSave.list[c] /\ c < c0 + 1
      BY <1>2, <2>1, <2>4
    <3>2. CASE Differs(c0)
      <4>1. rates'[c] = rateSave.shown[c]
        BY <1>1, <1>2, <1>7, <2>4, <3>2 DEF RateLists
      <4>2. QED
        BY <2>4, <3>1, <3>2, <4>1 DEF Differs
    <3>3. CASE ~Differs(c0)
      BY <1>7, <2>4, <3>1, <3>3 DEF Differs
    <3>4. QED
      BY <3>2, <3>3
  <2>5. QED
    BY <2>3, <2>4
<1>9. RatesAreComing'
  BY <1>4 DEF RatesAreComing
<1>10. QED
  BY <1>6, <1>8, <1>9 DEF RateInv

LEMMA SaveRatesEndsKeeps == ASSUME RateInv, SaveRatesEnds PROVE RateInv'
<1>1. /\ rateSave' = NotSavingRates /\ rateLoads' = Append(rateLoads, RateLoad)
      /\ UNCHANGED <<rates, currencies, editRates, addition, rateNotes>>
  BY DEF SaveRatesEnds
<1>2. /\ rateLoads' \in Seq(LoadsOfRates) /\ rateLoads' # <<>>
      /\ rateLoads'[Len(rateLoads')].phase = "asked"
  BY <1>1, LoadAppended DEF RateInv, RateShapes
<1>3. QED
  BY <1>1, <1>2, RateForms DEF RateInv, RateShapes, SaveInPlace, RatesAreComing

LEMMA OnAddCurrencyKeeps == ASSUME RateInv, OnAddCurrency PROVE RateInv'
<1>1. /\ UNCHANGED <<rates, currencies, editRates, rateSave, rateLoads>> /\ addition = NoAddition
      /\ rateNotes' = {} => rateNotes = {} /\ ~rateSave.on
  BY DEF OnAddCurrency
<1>2. PICK c \in Codes, r \in Rates : addition' = [code |-> c, rate |-> r, phase |-> "asked"]
  BY DEF OnAddCurrency
<1>3. /\ addition' \in RateAdditions /\ addition'.phase = "asked" /\ addition'.code \in Codes /\ addition'.rate \in Rates
      /\ addition' # NoAddition
  BY <1>2, RateForms DEF RateAdditions
<1>4. QED
  BY <1>1, <1>3, RateForms DEF RateInv, RateShapes, SaveInPlace, RatesAreComing

LEMMA ServeAdditionKeeps == ASSUME RateInv, ServeAddition PROVE RateInv'
<1> DEFINE added == [rates EXCEPT ![addition.code] = addition.rate]
<1>1. /\ addition.phase = "asked" /\ UNCHANGED <<currencies, editRates, rateSave, rateLoads>>
      /\ \/ rates' = added /\ addition' = [addition EXCEPT !.phase = "ok"] /\ UNCHANGED rateNotes
         \/ /\ addition' = [addition EXCEPT !.phase = "failed"]
            /\ UNCHANGED <<rates, rateNotes>> \/ (rates' = added /\ rateNotes' = rateNotes \cup {"lost"})
  BY DEF ServeAddition
<1>2. added \in RateLists /\ rates \in RateLists
  BY <1>1 DEF RateInv, RateShapes, RateLists
<1>3. /\ addition' \in RateAdditions /\ addition'.code = addition.code /\ addition'.rate = addition.rate
      /\ addition'.phase \in {"ok", "failed"}
      /\ addition'.phase = "failed" /\ rateNotes' = {} => rates' = rates
      /\ rateNotes' = {} => rateNotes = {}
  BY <1>1 DEF RateAdditions, RateInv, RateShapes
<1>4. addition' # NoAddition
  BY <1>3, RateForms
<1>5. rates' \in RateLists
  BY <1>1, <1>2
<1> HIDE DEF added
<1>6. RateShapes'
  BY <1>1, <1>3, <1>4, <1>5 DEF RateInv, RateShapes
<1>7. SaveInPlace'
  BY <1>1, <1>3 DEF RateInv, SaveInPlace
<1>8. RatesAreComing'
  BY <1>1, <1>3 DEF RateInv, RatesAreComing
<1>9. QED
  BY <1>6, <1>7, <1>8 DEF RateInv

LEMMA AdditionAnsweredKeeps == ASSUME RateInv, AdditionAnswered PROVE RateInv'
<1>1. /\ addition.phase \in {"ok", "failed"} /\ addition' = NoAddition
      /\ rateLoads' = IF addition.phase = "ok" THEN Append(rateLoads, RateLoad) ELSE rateLoads
      /\ UNCHANGED <<rates, currencies, editRates, rateSave, rateNotes>>
  BY DEF AdditionAnswered
<1>2. CASE addition.phase = "ok"
  <2>1. /\ rateLoads' \in Seq(LoadsOfRates) /\ rateLoads' # <<>>
        /\ rateLoads'[Len(rateLoads')].phase = "asked"
    BY <1>1, <1>2, LoadAppended DEF RateInv, RateShapes
  <2>2. QED
    BY <1>1, <1>2, <2>1, RateForms DEF RateInv, RateShapes, SaveInPlace, RatesAreComing
<1>3. CASE addition.phase = "failed"
  <2>1. rateLoads' = rateLoads
    BY <1>1, <1>3
  <2>2. QED
    BY <1>1, <1>3, <2>1, RateForms DEF RateInv, RateShapes, SaveInPlace, RatesAreComing
<1>4. QED
  BY <1>1, <1>2, <1>3

LEMMA RateStarts == ASSUME RateInit PROVE RateInv
<1>1. FirstRate \in Rates
  <2>1. \E r \in Rates : \A q \in Rates : r <= q
    BY LeastNatural, RateAssumption
  <2>2. QED
    BY <2>1 DEF FirstRate
<1>2. rates \in RateLists
  BY <1>1 DEF RateInit, RateLists
<1>3. <<RateLoad>> \in Seq(LoadsOfRates) /\ Len(<<RateLoad>>) = 1 /\ <<RateLoad>>[1] = RateLoad /\ <<RateLoad>> # <<>>
  BY RateForms
<1>4. QED
  BY <1>2, <1>3, RateForms DEF RateInit, RateInv, RateShapes, SaveInPlace, RatesAreComing

LEMMA RateStep == ASSUME RateInv, [RateNext]_rateVars PROVE RateInv'
<1>1. CASE UNCHANGED rateVars
  BY <1>1 DEF rateVars, RateInv, RateShapes, SaveInPlace, RatesAreComing
<1>2. QED
  BY <1>1, ServeRateLoadKeeps, FetchCurrenciesKeeps, OnRateChangeKeeps, HandleSaveRatesKeeps, SaveRateKeeps,
     SaveRatesEndsKeeps, OnAddCurrencyKeeps, ServeAdditionKeeps, AdditionAnsweredKeeps DEF RateNext

LEMMA RateInvHolds == RateInv => RatesSavedAsShown /\ RatesShownAreTrue
<1> SUFFICES ASSUME RateInv PROVE RatesSavedAsShown /\ RatesShownAreTrue
  OBVIOUS
<1>1. RatesSavedAsShown
  <2> SUFFICES ASSUME rateSave.on, rateSave.ok, rateSave.at \notin Codes, rateNotes = {}, NEW c \in Codes,
                      rateSave.shown[c] # 0
               PROVE  rates[c] = rateSave.shown[c]
    BY DEF RatesSavedAsShown
  <2>1. rateSave.at \in 1..(CurrencyCount + 1) /\ c \in 1..CurrencyCount
    BY DEF RateInv, RateShapes, SavesOfRates, Codes
  <2>2. c < rateSave.at
    BY <2>1, RateAssumption DEF Codes
  <2>3. QED
    BY <2>2 DEF RateInv, SaveInPlace
<1>2. RatesShownAreTrue
  BY RateForms DEF RateInv, RateShapes, RatesAreComing, RatesShownAreTrue
<1>3. QED
  BY <1>1, <1>2

\* A save without a failure leaves the rates the form showed, and with nothing under way the
\* list is the server's (handleSaveRates, onAddCurrency and fetchCurrencies in Settings.tsx).
THEOREM RatesHold == RateSpec => [](RatesSavedAsShown /\ RatesShownAreTrue)
<1>1. RateInit => RateInv
  BY RateStarts
<1>2. RateInv /\ [RateNext]_rateVars => RateInv'
  BY RateStep
<1>3. RateInv => RatesSavedAsShown /\ RatesShownAreTrue
  BY RateInvHolds
<1>4. QED
  BY <1>1, <1>2, <1>3, PTL DEF RateSpec

\* The currency page is of its type.
LEMMA RatesTyped == RateSpec => []RateTypeOK
<1>1. RateInit => RateInv
  BY RateStarts
<1>2. RateInv /\ [RateNext]_rateVars => RateInv'
  BY RateStep
<1>3. RateInv => RateTypeOK
  BY DEF RateInv, RateShapes, RateTypeOK, SavesOfRates, RateAdditions
<1>4. QED
  BY <1>1, <1>2, <1>3, PTL DEF RateSpec

(***************************************************************************)
(* The administrator's user list (HouseholdUsers): lists that are read and *)
(* arrive in order, and account numbers that are given out once, keep the row *)
(* the focus is on or is going back to.                                    *)
(***************************************************************************)
UserSpec == UserInit /\ [][UserNext]_userVars

AccountRows == [Users -> Nat]
UserLoads == [phase : {"asked", "ok", "failed"}, data : AccountRows]
RowDialogs == {"manage", "rename", "reset", "delete"}
FreeOf(notes) == userNotes \cap notes = {}

UserChanges == [kind : {"role", "manage", "add"}, user : {0} \cup Users,
                phase : {"asked", "ok", "failed"}, nth : 1..MaxUserActs]

UserShapes ==
  /\ accounts \in AccountRows /\ users \in AccountRows /\ lastUserId \in 0..UserCount
  /\ userLoads \in Seq(UserLoads)
  /\ userDialog \in [kind : RowDialogs \cup {"none", "add"}, user : {0} \cup Users,
                     phase : {"open", "asked", "ok", "failed"}]
  /\ changes \subseteq UserChanges
  /\ \A c \in changes : c.kind # "add" => c.user \in Users
  /\ lastTarget \in {0} \cup Users

\* One dialog at a time; on a phone a confirmation may open as Manage closes.
OneUserDialog ==
  /\ userDialog.phase # "open" => userDialog.kind \in {"rename", "reset", "delete"}
  /\ userDialog.kind \in RowDialogs => userDialog.user = lastTarget /\ lastTarget # 0
  /\ userExiting \cap RowDialogs # {} => lastTarget # 0
  /\ userDialog.kind \in {"manage", "rename", "add"} => userExiting = {}
  /\ userDialog.kind \in {"reset", "delete"} => userExiting \subseteq {"manage"}
  /\ userDialog.kind # "none" /\ "manage" \in userExiting => confirmHandoff
  /\ confirmHandoff => "manage" \in userExiting
  /\ userExiting \subseteq RowDialogs \cup {"add"}

\* An account does not come back: its number is given out once.
NumbersUsedOnce ==
  /\ \A u \in Users : u > lastUserId => accounts[u] = 0 /\ users[u] = 0
  /\ \A i \in 1..Len(userLoads), u \in Users : u > lastUserId => userLoads[i].data[u] = 0

\* Lists that are read and arrive in the order they were asked for.
ListsInOrder ==
  FreeOf({"crossed", "overtaken"}) =>
    /\ \A i, j \in 1..Len(userLoads) : i < j /\ userLoads[j].phase = "ok" => userLoads[i].phase # "asked"
    /\ \A i, j \in 1..Len(userLoads) : i < j /\ userLoads[i].phase = "ok" /\ userLoads[j].phase = "ok" =>
         \A u \in Users : userLoads[i].data[u] # 0 /\ accounts[u] # 0 => userLoads[j].data[u] # 0
    /\ \A j \in 1..Len(userLoads) : userLoads[j].phase = "ok" =>
         \A u \in Users : users[u] # 0 /\ accounts[u] # 0 => userLoads[j].data[u] # 0

TargetAlive == lastTarget # 0 => accounts[lastTarget] # 0

UserFocusSafe ==
  userNotes \subseteq {"failed"} =>
    /\ userDialog.kind # "none" => userFocus = Inside(userDialog.kind)
    /\ userFocus # Nowhere /\ userFocus.user \in {0} \cup Users
    /\ userFocus.user # 0 => accounts[userFocus.user] # 0 /\ users[userFocus.user] # 0
    /\ userDialog.kind \in RowDialogs => TargetAlive \/ (userDialog.kind = "delete" /\ userDialog.phase = "ok")
    /\ "manage" \in userExiting => TargetAlive \/ confirmHandoff
    /\ "rename" \in userExiting => TargetAlive
    /\ "reset" \in userExiting => TargetAlive
    /\ "delete" \in userExiting => TargetAlive \/ deleteSucceeded

ChangeToBeTold ==
  \/ userDialog.phase = "ok" /\ userDialog.kind \in {"rename", "delete"}
  \/ \E c \in changes : c.phase = "ok"

UsersAreComing ==
  (FreeOf({"failed", "crossed", "elsewhere", "lost"}) /\ ~ChangeToBeTold) =>
    IF userLoads = <<>> THEN users = accounts
    ELSE userLoads[Len(userLoads)].phase = "ok" => userLoads[Len(userLoads)].data = accounts

UserInv == UserShapes /\ OneUserDialog /\ NumbersUsedOnce /\ ListsInOrder /\ UserFocusSafe /\ UsersAreComing

LEMMA UserForms ==
  /\ NoUserDialog.kind = "none" /\ NoUserDialog.phase = "open"
  /\ NoUserDialog \in [kind : RowDialogs \cup {"none", "add"}, user : {0} \cup Users, phase : {"open", "asked", "ok", "failed"}]
  /\ UserLoad \in UserLoads /\ UserLoad.phase = "asked" /\ \A u \in Users : UserLoad.data[u] = 0
  /\ Nowhere.user = 0 /\ Heading.user = 0 /\ Heading # Nowhere
  /\ \A k : Inside(k).user = 0 /\ Inside(k) # Nowhere
  /\ \A k, u : Button(k, u).user = u /\ Button(k, u) # Nowhere
  /\ 0 \notin Users /\ Users \subseteq Nat
<1>1. [u \in Users |-> 0] \in AccountRows
  BY DEF AccountRows
<1>2. NoUserDialog \in [kind : RowDialogs \cup {"none", "add"}, user : {0} \cup Users, phase : {"open", "asked", "ok", "failed"}]
  BY DEF NoUserDialog, RowDialogs
<1>3. Users \subseteq Nat /\ 0 \notin Users
  BY UserAssumption DEF Users
<1>4. UserLoad \in UserLoads /\ UserLoad.phase = "asked" /\ \A u \in Users : UserLoad.data[u] = 0
  BY <1>1 DEF UserLoad, UserLoads
<1>5. \A k, u : Button(k, u).user = u /\ Button(k, u) # Nowhere /\ Inside(k).user = 0 /\ Inside(k) # Nowhere
  <2>1. \A k, u : Button(k, u).user = u /\ Button(k, u).on = "button"
    BY DEF Button
  <2>2. \A k : Inside(k).user = 0 /\ Inside(k).on = "dialog"
    BY DEF Inside
  <2>3. Nowhere.on = "body"
    BY DEF Nowhere
  <2>4. QED
    BY <2>1, <2>2, <2>3
<1>6. NoUserDialog.kind = "none" /\ NoUserDialog.phase = "open"
  BY DEF NoUserDialog
<1>7. Nowhere.user = 0 /\ Heading.user = 0 /\ Heading # Nowhere
  <2>1. Nowhere.user = 0 /\ Nowhere.on = "body"
    BY DEF Nowhere
  <2>2. Heading.user = 0 /\ Heading.on = "heading"
    BY DEF Heading
  <2>3. QED
    BY <2>1, <2>2
<1>8. QED
  BY <1>2, <1>3, <1>4, <1>5, <1>6, <1>7

LEMMA UserLoadAppended ==
  ASSUME userLoads \in Seq(UserLoads), userLoads' = Append(userLoads, UserLoad)
  PROVE  /\ userLoads' \in Seq(UserLoads) /\ userLoads' # <<>>
         /\ Len(userLoads) \in Nat /\ Len(userLoads') = Len(userLoads) + 1
         /\ \A i \in 1..Len(userLoads) : userLoads'[i] = userLoads[i]
         /\ userLoads'[Len(userLoads')] = UserLoad
<1>1. /\ Append(userLoads, UserLoad) \in Seq(UserLoads) /\ Append(userLoads, UserLoad) # <<>>
      /\ Len(Append(userLoads, UserLoad)) = Len(userLoads) + 1
      /\ \A i \in 1..Len(userLoads) : Append(userLoads, UserLoad)[i] = userLoads[i]
      /\ Append(userLoads, UserLoad)[Len(userLoads) + 1] = UserLoad
  BY UserForms, AppendProperties
<1>2. QED
  BY <1>1, LenProperties

LEMMA DeletedElsewhereKeeps == ASSUME UserInv, DeletedElsewhere PROVE UserInv'
<1> USE UserForms
<1>1. UserShapes'
  <2>1. accounts' \in AccountRows
    BY DEF UserInv, UserShapes, DeletedElsewhere, AccountRows
  <2>2. UNCHANGED <<lastUserId, users, userLoads, userDialog, changes, lastTarget>>
    BY DEF DeletedElsewhere, userRefs
  <2>3. QED
    BY <2>1, <2>2 DEF UserInv, UserShapes
<1>2. OneUserDialog'
  BY DEF UserInv, UserShapes, OneUserDialog, DeletedElsewhere, accountTable, userRefs, RowDialogs
<1>3. NumbersUsedOnce'
  BY DEF UserInv, UserShapes, NumbersUsedOnce, DeletedElsewhere, accountTable, AccountRows
<1>4. ListsInOrder'
  BY DEF UserInv, UserShapes, ListsInOrder, DeletedElsewhere, accountTable, FreeOf, AccountRows
<1>5. UserFocusSafe'
  BY DEF UserInv, UserShapes, OneUserDialog, UserFocusSafe, TargetAlive, DeletedElsewhere, accountTable, userRefs, RowDialogs
<1>6. UsersAreComing'
  BY DEF UserInv, UserShapes, OneUserDialog, UsersAreComing, ChangeToBeTold, FreeOf, DeletedElsewhere, accountTable
<1>7. QED
  BY <1>1, <1>2, <1>3, <1>4, <1>5, <1>6 DEF UserInv

LEMMA OpenManageKeeps == ASSUME UserInv, OpenManage PROVE UserInv'
<1> USE UserForms
<1>1. UserShapes'
  BY DEF UserInv, UserShapes, OneUserDialog, OpenManage, accountTable, userRefs, RowDialogs, NoOverlay, Open, Listed
<1>2. OneUserDialog'
  BY DEF UserInv, UserShapes, OneUserDialog, OpenManage, accountTable, userRefs, RowDialogs, NoOverlay, Open, Listed
<1>8. UNCHANGED <<accounts, lastUserId, users, userLoads>> /\ userNotes \subseteq userNotes'
  BY DEF OpenManage, accountTable, Open
<1>3. NumbersUsedOnce'
  BY <1>8 DEF UserInv, NumbersUsedOnce
<1>4. ListsInOrder'
  BY <1>8 DEF UserInv, ListsInOrder, FreeOf
<1>5. UserFocusSafe'
  BY DEF UserInv, UserShapes, OneUserDialog, UserFocusSafe, TargetAlive, OpenManage, accountTable, userRefs, RowDialogs, NoOverlay, Open, Listed
<1>6. UsersAreComing'
  BY DEF UserInv, UserShapes, OneUserDialog, UsersAreComing, ChangeToBeTold, FreeOf, OpenManage, accountTable, NoOverlay, Open, Listed
<1>7. QED
  BY <1>1, <1>2, <1>3, <1>4, <1>5, <1>6 DEF UserInv

LEMMA OpenRenameKeeps == ASSUME UserInv, OpenRename PROVE UserInv'
<1> USE UserForms
<1>1. UserShapes'
  BY DEF UserInv, UserShapes, OneUserDialog, OpenRename, accountTable, userRefs, RowDialogs, NoOverlay, Open, Listed
<1>2. OneUserDialog'
  BY DEF UserInv, UserShapes, OneUserDialog, OpenRename, accountTable, userRefs, RowDialogs, NoOverlay, Open, Listed
<1>8. UNCHANGED <<accounts, lastUserId, users, userLoads>> /\ userNotes \subseteq userNotes'
  BY DEF OpenRename, accountTable, Open
<1>3. NumbersUsedOnce'
  BY <1>8 DEF UserInv, NumbersUsedOnce
<1>4. ListsInOrder'
  BY <1>8 DEF UserInv, ListsInOrder, FreeOf
<1>5. UserFocusSafe'
  BY DEF UserInv, UserShapes, OneUserDialog, UserFocusSafe, TargetAlive, OpenRename, accountTable, userRefs, RowDialogs, NoOverlay, Open, Listed
<1>6. UsersAreComing'
  BY DEF UserInv, UserShapes, OneUserDialog, UsersAreComing, ChangeToBeTold, FreeOf, OpenRename, accountTable, NoOverlay, Open, Listed
<1>7. QED
  BY <1>1, <1>2, <1>3, <1>4, <1>5, <1>6 DEF UserInv

LEMMA OpenFromTableKeeps == ASSUME UserInv, OpenFromTable PROVE UserInv'
<1> USE UserForms
<1>1. UserShapes'
  BY DEF UserInv, UserShapes, OneUserDialog, OpenFromTable, accountTable, userRefs, RowDialogs, NoOverlay, Open, Listed, Confirmable
<1>2. OneUserDialog'
  BY DEF UserInv, UserShapes, OneUserDialog, OpenFromTable, accountTable, userRefs, RowDialogs, NoOverlay, Open, Listed, Confirmable
<1>8. UNCHANGED <<accounts, lastUserId, users, userLoads>> /\ userNotes \subseteq userNotes'
  BY DEF OpenFromTable, accountTable, Open
<1>3. NumbersUsedOnce'
  BY <1>8 DEF UserInv, NumbersUsedOnce
<1>4. ListsInOrder'
  BY <1>8 DEF UserInv, ListsInOrder, FreeOf
<1>5. UserFocusSafe'
  BY DEF UserInv, UserShapes, OneUserDialog, UserFocusSafe, TargetAlive, OpenFromTable, accountTable, userRefs, RowDialogs, NoOverlay, Open, Listed, Confirmable
<1>6. UsersAreComing'
  BY DEF UserInv, UserShapes, OneUserDialog, UsersAreComing, ChangeToBeTold, FreeOf, OpenFromTable, accountTable, NoOverlay, Open, Listed, Confirmable
<1>7. QED
  BY <1>1, <1>2, <1>3, <1>4, <1>5, <1>6 DEF UserInv

LEMMA ConfirmFromManageKeeps == ASSUME UserInv, ConfirmFromManage PROVE UserInv'
<1> USE UserForms
<1>1. UserShapes'
  BY DEF UserInv, UserShapes, OneUserDialog, ConfirmFromManage, accountTable, userRefs, RowDialogs, Open
<1>2. OneUserDialog'
  BY DEF UserInv, UserShapes, OneUserDialog, ConfirmFromManage, accountTable, userRefs, RowDialogs, Open
<1>8. UNCHANGED <<accounts, lastUserId, users, userLoads>> /\ userNotes \subseteq userNotes'
  BY DEF ConfirmFromManage, accountTable, Open
<1>3. NumbersUsedOnce'
  BY <1>8 DEF UserInv, NumbersUsedOnce
<1>4. ListsInOrder'
  BY <1>8 DEF UserInv, ListsInOrder, FreeOf
<1>5. UserFocusSafe'
  BY DEF UserInv, UserShapes, OneUserDialog, UserFocusSafe, TargetAlive, ConfirmFromManage, accountTable, userRefs, RowDialogs, Open
<1>6. UsersAreComing'
  BY DEF UserInv, UserShapes, OneUserDialog, UsersAreComing, ChangeToBeTold, FreeOf, ConfirmFromManage, accountTable, Open
<1>7. QED
  BY <1>1, <1>2, <1>3, <1>4, <1>5, <1>6 DEF UserInv

LEMMA OpenAddKeeps == ASSUME UserInv, OpenAdd PROVE UserInv'
<1> USE UserForms
<1>1. UserShapes'
  BY DEF UserInv, UserShapes, OneUserDialog, OpenAdd, accountTable, userRefs, RowDialogs, NoOverlay, Open
<1>2. OneUserDialog'
  BY DEF UserInv, UserShapes, OneUserDialog, OpenAdd, accountTable, userRefs, RowDialogs, NoOverlay, Open
<1>8. UNCHANGED <<accounts, lastUserId, users, userLoads>> /\ userNotes \subseteq userNotes'
  BY DEF OpenAdd, accountTable, Open
<1>3. NumbersUsedOnce'
  BY <1>8 DEF UserInv, NumbersUsedOnce
<1>4. ListsInOrder'
  BY <1>8 DEF UserInv, ListsInOrder, FreeOf
<1>5. UserFocusSafe'
  BY DEF UserInv, UserShapes, OneUserDialog, UserFocusSafe, TargetAlive, OpenAdd, accountTable, userRefs, RowDialogs, NoOverlay, Open
<1>6. UsersAreComing'
  BY DEF UserInv, UserShapes, OneUserDialog, UsersAreComing, ChangeToBeTold, FreeOf, OpenAdd, accountTable, NoOverlay, Open
<1>7. QED
  BY <1>1, <1>2, <1>3, <1>4, <1>5, <1>6 DEF UserInv

LEMMA CloseKeeps == ASSUME UserInv, Close PROVE UserInv'
<1> USE UserForms
<1>1. UserShapes'
  BY DEF UserInv, UserShapes, OneUserDialog, Close, accountTable, userRefs, RowDialogs
<1>2. OneUserDialog'
  BY DEF UserInv, UserShapes, OneUserDialog, Close, accountTable, userRefs, RowDialogs
<1>8. UNCHANGED <<accounts, lastUserId, users, userLoads>> /\ userNotes \subseteq userNotes'
  BY DEF Close, accountTable
<1>3. NumbersUsedOnce'
  BY <1>8 DEF UserInv, NumbersUsedOnce
<1>4. ListsInOrder'
  BY <1>8 DEF UserInv, ListsInOrder, FreeOf
<1>5. UserFocusSafe'
  BY DEF UserInv, UserShapes, OneUserDialog, UserFocusSafe, TargetAlive, Close, accountTable, userRefs, RowDialogs
<1>6. UsersAreComing'
  BY DEF UserInv, UserShapes, OneUserDialog, UsersAreComing, ChangeToBeTold, FreeOf, Close, accountTable
<1>7. QED
  BY <1>1, <1>2, <1>3, <1>4, <1>5, <1>6 DEF UserInv

LEMMA DialogExitedKeeps == ASSUME UserInv, DialogExited PROVE UserInv'
<1> USE UserForms
<1> HIDE UserForms
<1>9. PICK kind \in userExiting :
        /\ userExiting' = userExiting \ {kind}
        /\ lastTarget' = lastTarget
        /\ confirmHandoff' = IF kind = "manage" THEN FALSE ELSE confirmHandoff
  <2>1. \A kind \in userExiting : kind \in {"add", "rename", "manage", "reset", "delete"}
    BY DEF UserInv, OneUserDialog, RowDialogs
  <2>2. QED
    BY <2>1 DEF DialogExited, userRefs
<1>1. UserShapes'
  <2>1. UNCHANGED <<accounts, lastUserId, users, userLoads, userDialog, changes>>
    BY DEF DialogExited, accountTable
  <2>2. QED
    BY <1>9, <2>1 DEF UserInv, UserShapes
<1>2. OneUserDialog'
  <2>1. userDialog' = userDialog
    BY DEF DialogExited
  <2>2. QED
    BY <1>9, <2>1 DEF UserInv, OneUserDialog
<1>8. UNCHANGED <<accounts, lastUserId, users, userLoads, userNotes, userDialog>>
  BY DEF DialogExited, accountTable
<1>3. NumbersUsedOnce'
  BY <1>8 DEF UserInv, NumbersUsedOnce
<1>4. ListsInOrder'
  BY <1>8 DEF UserInv, ListsInOrder, FreeOf
<1>5. UserFocusSafe'
  <2> SUFFICES ASSUME userNotes \subseteq {"failed"} PROVE UserFocusSafe'
    BY <1>8 DEF UserFocusSafe
  <2> DEFINE G(f) == f # Nowhere /\ f.user \in {0} \cup Users
                     /\ (f.user # 0 => accounts[f.user] # 0 /\ users[f.user] # 0)
  <2>1. ASSUME NEW k, lastTarget \in Users, accounts[lastTarget] # 0 PROVE G(Anchor(k, lastTarget))
    BY <2>1, UserForms DEF Anchor, Listed
  <2>2. G(Heading) /\ G(Button("add", 0))
    BY UserForms
  <2>3. PICK shut \in userExiting :
          /\ userExiting' = userExiting \ {shut}
          /\ \/ shut = "add" /\ userFocus' = Button("add", 0) /\ UNCHANGED userRefs
             \/ shut = "rename" /\ userFocus' = Anchor("rename", lastTarget) /\ UNCHANGED userRefs
             \/ /\ shut = "manage"
                /\ userFocus' = IF confirmHandoff THEN userFocus ELSE Anchor("manage", lastTarget)
                /\ UNCHANGED <<confirmOpener, deleteSucceeded, lastTarget>>
             \/ /\ shut = "reset" /\ FocusAfterConfirmClose(FALSE)
                /\ UNCHANGED <<confirmHandoff, deleteSucceeded, lastTarget>>
             \/ /\ shut = "delete" /\ FocusAfterConfirmClose(deleteSucceeded)
                /\ UNCHANGED <<confirmHandoff, lastTarget>>
    <3>1. userExiting \subseteq {"manage", "rename", "reset", "delete", "add"}
      BY DEF UserInv, OneUserDialog, RowDialogs
    <3>2. QED
      BY <3>1 DEF DialogExited
  <2>4. /\ userExiting' \subseteq userExiting /\ UNCHANGED lastTarget
        /\ shut # "add" => lastTarget \in Users
    BY <2>3 DEF userRefs, UserInv, UserShapes, OneUserDialog, RowDialogs
  <2>5. G(userFocus)
    BY DEF UserInv, UserFocusSafe
  <2>6. /\ "manage" \in userExiting' => confirmHandoff' = confirmHandoff
        /\ "delete" \in userExiting' => deleteSucceeded' = deleteSucceeded
    BY <2>3 DEF userRefs
  <2>9. /\ shut = "rename" \/ shut = "reset" => TargetAlive
        /\ shut = "manage" => TargetAlive \/ confirmHandoff
        /\ shut = "delete" => TargetAlive \/ deleteSucceeded
    BY <2>3 DEF UserInv, UserFocusSafe
  <2>10. userDialog.kind # "none" => shut = "manage" /\ confirmHandoff
    BY <2>3 DEF UserInv, UserShapes, OneUserDialog, RowDialogs
  <2> HIDE DEF G
  <2>7. G(userFocus') /\ (userDialog.kind # "none" => userFocus' = userFocus)
    <3>1. CASE shut = "add"
      BY <2>2, <2>3, <2>10, <3>1
    <3>2. CASE shut = "rename"
      BY <2>1, <2>2, <2>3, <2>4, <2>9, <2>10, <3>2, UserForms DEF TargetAlive
    <3>3. CASE shut = "manage"
      BY <2>1, <2>3, <2>4, <2>5, <2>9, <2>10, <3>3, UserForms DEF TargetAlive
    <3>4. CASE shut = "reset"
      BY <2>1, <2>2, <2>3, <2>4, <2>9, <2>10, <3>4, UserForms DEF TargetAlive, FocusAfterConfirmClose
    <3>5. CASE shut = "delete"
      BY <2>1, <2>2, <2>3, <2>4, <2>9, <2>10, <3>5, UserForms DEF TargetAlive, FocusAfterConfirmClose
    <3>6. QED
      BY <2>3, <3>1, <3>2, <3>3, <3>4, <3>5
  <2>8. QED
    BY <1>8, <2>4, <2>6, <2>7 DEF UserInv, UserFocusSafe, TargetAlive, G
<1>6. UsersAreComing'
  <2>1. UNCHANGED <<accounts, users, userLoads, userNotes, userDialog, changes>>
    BY <1>8 DEF DialogExited
  <2>2. QED
    BY <2>1 DEF UserInv, UsersAreComing, ChangeToBeTold, FreeOf
<1>7. QED
  BY <1>1, <1>2, <1>3, <1>4, <1>5, <1>6 DEF UserInv

LEMMA SubmitDialogKeeps == ASSUME UserInv, SubmitDialog PROVE UserInv'
<1> USE UserForms
<1>1. UserShapes'
  BY DEF UserInv, UserShapes, OneUserDialog, SubmitDialog, accountTable, userRefs, RowDialogs
<1>2. OneUserDialog'
  BY DEF UserInv, UserShapes, OneUserDialog, SubmitDialog, accountTable, userRefs, RowDialogs
<1>8. UNCHANGED <<accounts, lastUserId, users, userLoads>> /\ userNotes \subseteq userNotes'
  BY DEF SubmitDialog, accountTable
<1>3. NumbersUsedOnce'
  BY <1>8 DEF UserInv, NumbersUsedOnce
<1>4. ListsInOrder'
  BY <1>8 DEF UserInv, ListsInOrder, FreeOf
<1>5. UserFocusSafe'
  BY DEF UserInv, UserShapes, OneUserDialog, UserFocusSafe, TargetAlive, SubmitDialog, accountTable, userRefs, RowDialogs
<1>6. UsersAreComing'
  BY DEF UserInv, UserShapes, OneUserDialog, UsersAreComing, ChangeToBeTold, FreeOf, SubmitDialog, accountTable
<1>7. QED
  BY <1>1, <1>2, <1>3, <1>4, <1>5, <1>6 DEF UserInv

\* A request that is sent beside the dialog.
LEMMA StartShapes ==
  ASSUME UserShapes, NEW kind \in {"role", "manage", "add"}, NEW u \in {0} \cup Users, kind # "add" => u \in Users,
         Start(kind, u)
  PROVE  UserShapes'
<1>1. PICK n \in 1..MaxUserActs :
        changes' = changes \cup {[kind |-> kind, user |-> u, phase |-> "asked", nth |-> n]}
  BY DEF Start
<1>2. UNCHANGED <<accounts, lastUserId, users, userDialog, userLoads, lastTarget>>
  BY DEF Start, accountTable, userRefs
<1> DEFINE d == [kind |-> kind, user |-> u, phase |-> "asked", nth |-> n]
<1>3. d \in UserChanges /\ d.kind = kind /\ d.user = u
  BY DEF UserChanges
<1> HIDE DEF d
<1>4. changes' = changes \cup {d}
  BY <1>1 DEF d
<1>5. QED
  BY <1>2, <1>3, <1>4 DEF UserShapes

LEMMA HandleRoleChangeKeeps == ASSUME UserInv, HandleRoleChange PROVE UserInv'
<1> USE UserForms
<1>1. UserShapes'
  <2>1. PICK u \in Users : Start("role", u)
    BY DEF UserInv, UserShapes, OneUserDialog, HandleRoleChange, RowDialogs, Listed
  <2>2. QED
    BY <2>1, StartShapes DEF UserInv
<1>2. OneUserDialog'
  BY DEF UserInv, UserShapes, OneUserDialog, HandleRoleChange, accountTable, userRefs, RowDialogs, Start, NoOverlay, Listed
<1>8. UNCHANGED <<accounts, lastUserId, users, userLoads>> /\ userNotes \subseteq userNotes'
  BY DEF HandleRoleChange, accountTable, Start
<1>3. NumbersUsedOnce'
  BY <1>8 DEF UserInv, NumbersUsedOnce
<1>4. ListsInOrder'
  BY <1>8 DEF UserInv, ListsInOrder, FreeOf
<1>5. UserFocusSafe'
  BY DEF UserInv, UserShapes, OneUserDialog, UserFocusSafe, TargetAlive, HandleRoleChange, accountTable, userRefs, RowDialogs, Start, NoOverlay, Listed
<1>6. UsersAreComing'
  BY DEF UserInv, UserShapes, OneUserDialog, UsersAreComing, ChangeToBeTold, FreeOf, HandleRoleChange, accountTable, Start, NoOverlay, Listed
<1>7. QED
  BY <1>1, <1>2, <1>3, <1>4, <1>5, <1>6 DEF UserInv

LEMMA OnSaveManagedNameKeeps == ASSUME UserInv, OnSaveManagedName PROVE UserInv'
<1> USE UserForms
<1>1. UserShapes'
  <2>1. Start("manage", userDialog.user) /\ userDialog.user \in Users
    BY DEF UserInv, UserShapes, OneUserDialog, OnSaveManagedName, RowDialogs
  <2>2. QED
    BY <2>1, StartShapes DEF UserInv
<1>2. OneUserDialog'
  BY DEF UserInv, UserShapes, OneUserDialog, OnSaveManagedName, accountTable, userRefs, RowDialogs, Start, Saving
<1>8. UNCHANGED <<accounts, lastUserId, users, userLoads>> /\ userNotes \subseteq userNotes'
  BY DEF OnSaveManagedName, accountTable, Start
<1>3. NumbersUsedOnce'
  BY <1>8 DEF UserInv, NumbersUsedOnce
<1>4. ListsInOrder'
  BY <1>8 DEF UserInv, ListsInOrder, FreeOf
<1>5. UserFocusSafe'
  BY DEF UserInv, UserShapes, OneUserDialog, UserFocusSafe, TargetAlive, OnSaveManagedName, accountTable, userRefs, RowDialogs, Start, Saving
<1>6. UsersAreComing'
  BY DEF UserInv, UserShapes, OneUserDialog, UsersAreComing, ChangeToBeTold, FreeOf, OnSaveManagedName, accountTable, Start, Saving
<1>7. QED
  BY <1>1, <1>2, <1>3, <1>4, <1>5, <1>6 DEF UserInv

LEMMA OnAddUserKeeps == ASSUME UserInv, OnAddUser PROVE UserInv'
<1> USE UserForms
<1>1. UserShapes'
  BY StartShapes DEF UserInv, OnAddUser
<1>2. OneUserDialog'
  BY DEF UserInv, UserShapes, OneUserDialog, OnAddUser, accountTable, userRefs, RowDialogs, Start
<1>8. UNCHANGED <<accounts, lastUserId, users, userLoads>> /\ userNotes \subseteq userNotes'
  BY DEF OnAddUser, accountTable, Start
<1>3. NumbersUsedOnce'
  BY <1>8 DEF UserInv, NumbersUsedOnce
<1>4. ListsInOrder'
  BY <1>8 DEF UserInv, ListsInOrder, FreeOf
<1>5. UserFocusSafe'
  BY DEF UserInv, UserShapes, OneUserDialog, UserFocusSafe, TargetAlive, OnAddUser, accountTable, userRefs, RowDialogs, Start
<1>6. UsersAreComing'
  BY DEF UserInv, UserShapes, OneUserDialog, UsersAreComing, ChangeToBeTold, FreeOf, OnAddUser, accountTable, Start
<1>7. QED
  BY <1>1, <1>2, <1>3, <1>4, <1>5, <1>6 DEF UserInv

\* A change the server makes: no account but the deleted one goes, and a new one has a new number.
LEMMA DoneChanges ==
  ASSUME UserShapes, NumbersUsedOnce, NEW kind, NEW u \in {0} \cup Users, kind # "add" => u \in Users,
         Accepted(kind, u), Done(kind, u)
  PROVE  /\ accounts' \in AccountRows /\ lastUserId' \in 0..UserCount /\ lastUserId <= lastUserId'
         /\ \A v \in Users : v > lastUserId' => accounts'[v] = 0
         /\ \A v \in Users : accounts'[v] # 0 => accounts[v] # 0 \/ v > lastUserId
         /\ \A v \in Users : accounts[v] # 0 /\ ~(kind = "delete" /\ v = u) => accounts'[v] # 0
         /\ kind = "reset" => accounts' = accounts
<1> USE UserForms
<1>1. /\ accounts \in AccountRows /\ lastUserId \in 0..UserCount /\ UserCount \in Nat
      /\ \A v \in Users : v > lastUserId => accounts[v] = 0
  BY UserAssumption DEF UserShapes, NumbersUsedOnce
<1>2. CASE kind = "add"
  <2>1. /\ lastUserId + 1 \in Users /\ lastUserId' = lastUserId + 1
        /\ accounts' = [accounts EXCEPT ![lastUserId + 1] = 1]
    BY <1>1, <1>2 DEF Accepted, Done, Create, Users
  <2>2. /\ \A v \in Users : accounts'[v] = IF v = lastUserId + 1 THEN 1 ELSE accounts[v]
        /\ accounts' \in AccountRows /\ lastUserId \in Nat
    BY <1>1, <2>1 DEF AccountRows
  <2>3. lastUserId' \in 0..UserCount /\ lastUserId <= lastUserId' /\ Users \subseteq Nat
    BY <1>1, <2>1, <2>2 DEF Users
  <2>4. QED
    BY <1>1, <1>2, <2>1, <2>2, <2>3
<1>3. CASE kind = "delete"
  <2>1. lastUserId' = lastUserId /\ accounts' = [accounts EXCEPT ![u] = 0] /\ u \in Users
    BY <1>3 DEF Done
  <2>2. QED
    BY <1>1, <1>3, <2>1 DEF AccountRows
<1>4. CASE kind = "reset"
  <2>1. lastUserId' = lastUserId /\ accounts' = accounts
    BY <1>4 DEF Done, accountTable
  <2>2. QED
    BY <1>1, <1>4, <2>1
<1>5. CASE kind \notin {"add", "delete", "reset"}
  <2>1. lastUserId' = lastUserId /\ accounts' = [accounts EXCEPT ![u] = @ + 1] /\ u \in Users /\ accounts[u] # 0
    BY <1>5 DEF Done, Accepted
  <2>2. accounts \in [Users -> Nat]
    BY <1>1 DEF AccountRows
  <2>3. accounts[u] + 1 \in Nat \ {0}
    <3>1. u \in Users
      BY <2>1
    <3>2. accounts[u] \in Nat
      BY <2>2, <3>1
    <3>3. QED
      BY <3>2
  <2>4. accounts' = [accounts EXCEPT ![u] = accounts[u] + 1]
    BY <2>1, Zenon
  <2>5. /\ \A v \in Users : accounts'[v] = IF v = u THEN accounts[u] + 1 ELSE accounts[v]
        /\ accounts' \in AccountRows
    BY <2>1, <2>2, <2>3, <2>4 DEF AccountRows
  <2>6. QED
    BY <1>1, <1>5, <2>1, <2>3, <2>5
<1>6. QED
  BY <1>2, <1>3, <1>4, <1>5

\* What the order of the lists says is still so.
LEMMA OrderKept ==
  ASSUME UserInv, UNCHANGED <<users, userLoads>>, userNotes \subseteq userNotes',
         lastUserId <= lastUserId', lastUserId \in Nat, lastUserId' \in Nat,
         \A v \in Users : v > lastUserId' => accounts'[v] = 0,
         \A v \in Users : accounts'[v] # 0 => accounts[v] # 0 \/ v > lastUserId
  PROVE  NumbersUsedOnce' /\ ListsInOrder'
<1> USE UserForms
<1>1. NumbersUsedOnce'
  BY DEF UserInv, NumbersUsedOnce
<1>2. ListsInOrder'
  BY DEF UserInv, NumbersUsedOnce, ListsInOrder, FreeOf
<1>3. QED
  BY <1>1, <1>2

LEMMA ServeDialogKeeps == ASSUME UserInv, ServeDialog PROVE UserInv'
<1> USE UserForms
<1>0. PICK kind, u : kind = userDialog.kind /\ u = userDialog.user
  OBVIOUS
<1> DEFINE Served == Accepted(kind, u) /\ Done(kind, u)
<1>1. /\ userDialog.phase = "asked"
      /\ UNCHANGED <<users, isMobile, changes, userLoads, userExiting, userRefs, userFocus>>
  BY DEF ServeDialog
<1>2. /\ userDialog \in [kind : RowDialogs \cup {"none", "add"}, user : {0} \cup Users,
                         phase : {"open", "asked", "ok", "failed"}]
      /\ kind \in {"rename", "reset", "delete"} /\ u = lastTarget /\ u \in Users
      /\ UserShapes /\ NumbersUsedOnce
  BY <1>0, <1>1 DEF UserInv, UserShapes, OneUserDialog, RowDialogs
<1>3. PICK p \in {"ok", "failed"} :
        /\ userDialog' = [userDialog EXCEPT !.phase = p]
        /\ \/ Served /\ p = "ok" /\ userNotes' = userNotes
           \/ Served /\ p = "failed" /\ userNotes' = userNotes \cup {"lost"}
           \/ p = "failed" /\ userNotes' = userNotes /\ UNCHANGED accountTable
  BY <1>0 DEF ServeDialog
<1>4. /\ userDialog'.kind = kind /\ userDialog'.user = u /\ userDialog'.phase = p
      /\ userDialog' \in [kind : RowDialogs \cup {"none", "add"}, user : {0} \cup Users,
                          phase : {"open", "asked", "ok", "failed"}]
  BY <1>0, <1>2, <1>3
<1>5. /\ Served \/ UNCHANGED accountTable
      /\ userNotes \subseteq userNotes'
  BY <1>3
<1>6. /\ accounts' \in AccountRows /\ lastUserId' \in 0..UserCount /\ lastUserId <= lastUserId'
      /\ \A v \in Users : v > lastUserId' => accounts'[v] = 0
      /\ \A v \in Users : accounts'[v] # 0 => accounts[v] # 0 \/ v > lastUserId
      /\ \A v \in Users : accounts[v] # 0 /\ kind # "delete" => accounts'[v] # 0
      /\ (p = "failed" /\ "lost" \notin userNotes') \/ kind = "reset" => accounts' = accounts
  <2>1. CASE UNCHANGED accountTable
    BY <1>2, <2>1, UserAssumption DEF UserShapes, NumbersUsedOnce, accountTable
  <2>2. CASE Served /\ ~UNCHANGED accountTable
    <3>1. ~("lost" \notin userNotes' /\ p = "failed")
      BY <1>3, <2>2
    <3>2. QED
      BY <1>2, <1>3, <2>2, DoneChanges
  <2>3. QED
    BY <1>5, <2>1, <2>2
<1> HIDE DEF Served
<1>7. lastUserId \in Nat /\ lastUserId' \in Nat
  BY <1>2, <1>6, UserAssumption DEF UserShapes
<1>8. UserShapes'
  BY <1>1, <1>2, <1>4, <1>6 DEF UserShapes, userRefs
<1>9. OneUserDialog'
  BY <1>0, <1>1, <1>2, <1>4 DEF UserInv, OneUserDialog, userRefs, RowDialogs
<1>10. NumbersUsedOnce' /\ ListsInOrder'
  BY <1>1, <1>5, <1>6, <1>7, OrderKept
<1>11. UserFocusSafe'
  <2> SUFFICES ASSUME userNotes' \subseteq {"failed"} PROVE UserFocusSafe'
    BY DEF UserFocusSafe
  <2>1. userNotes' = userNotes /\ userNotes \subseteq {"failed"}
    BY <1>3
  <2>2. userDialog.kind # "none" /\ userFocus = Inside(userDialog.kind) /\ userDialog.phase # "ok"
    BY <1>0, <1>1, <1>2, <2>1 DEF UserInv, UserFocusSafe
  <2>3. TargetAlive /\ userFocus.user = 0 /\ userExiting \subseteq {"manage"}
        /\ ("manage" \in userExiting => confirmHandoff)
    BY <1>0, <1>1, <1>2, <2>1, <2>2 DEF UserInv, UserFocusSafe, OneUserDialog, RowDialogs
  <2>4. TargetAlive' \/ (kind = "delete" /\ p = "ok")
    <3>1. lastTarget' = lastTarget /\ lastTarget \in {0} \cup Users
      BY <1>1, <1>2 DEF UserShapes, userRefs
    <3>2. CASE kind # "delete"
      <4>1. \A v \in Users : accounts[v] # 0 => accounts'[v] # 0
        BY <1>6, <3>2
      <4>2. QED
        BY <2>3, <3>1, <4>1 DEF TargetAlive
    <3>3. CASE p = "failed"
      <4>1. "lost" \notin userNotes'
        BY <2>1
      <4>2. accounts' = accounts
        BY <1>6, <3>3, <4>1
      <4>3. QED
        BY <2>3, <3>1, <4>2 DEF TargetAlive
    <3>4. QED
      BY <1>0, <3>2, <3>3
  <2>5. QED
    BY <1>0, <1>1, <1>4, <2>1, <2>2, <2>3, <2>4 DEF UserFocusSafe, userRefs
<1>12. UsersAreComing'
  <2> SUFFICES ASSUME (FreeOf({"failed", "crossed", "elsewhere", "lost"}) /\ ~ChangeToBeTold)' PROVE UsersAreComing'
    BY DEF UsersAreComing
  <2>1. FreeOf({"failed", "crossed", "elsewhere", "lost"}) /\ userNotes' = userNotes
    BY <1>3 DEF FreeOf
  <2>2. ~ChangeToBeTold
    BY <1>1 DEF ChangeToBeTold
  <2>3. accounts' = accounts
    BY <1>0, <1>1, <1>2, <1>3, <1>4, <1>6, <2>1 DEF ChangeToBeTold, FreeOf
  <2>4. QED
    BY <1>1, <2>1, <2>2, <2>3 DEF UserInv, UsersAreComing
<1>13. QED
  BY <1>8, <1>9, <1>10, <1>11, <1>12 DEF UserInv

LEMMA ServeChangeKeeps == ASSUME UserInv, ServeChange PROVE UserInv'
<1> USE UserForms
<1>1. PICK c \in changes, p \in {"ok", "failed"} :
        /\ c.phase = "asked"
        /\ changes' = (changes \ {c}) \cup {[c EXCEPT !.phase = p]}
        /\ \/ Accepted(c.kind, c.user) /\ Done(c.kind, c.user) /\ p = "ok" /\ userNotes' = userNotes
           \/ Accepted(c.kind, c.user) /\ Done(c.kind, c.user) /\ p = "failed" /\ userNotes' = userNotes \cup {"lost"}
           \/ p = "failed" /\ userNotes' = userNotes /\ UNCHANGED accountTable
        /\ UNCHANGED <<users, isMobile, userDialog, userLoads, userExiting, userRefs, userFocus>>
  BY DEF ServeChange
<1>2. /\ c \in UserChanges /\ c.user \in {0} \cup Users /\ c.kind \in {"role", "manage", "add"}
      /\ c.kind # "add" => c.user \in Users
      /\ UserShapes /\ NumbersUsedOnce
  BY <1>1 DEF UserInv, UserShapes, UserChanges
<1> DEFINE d == [c EXCEPT !.phase = p]
<1>3. /\ d \in UserChanges
      /\ d.kind = c.kind /\ d.user = c.user /\ d.phase = p
  BY <1>2 DEF UserChanges
<1>4. changes' = (changes \ {c}) \cup {d}
  BY <1>1
<1> HIDE DEF d
<1> DEFINE Served == Accepted(c.kind, c.user) /\ Done(c.kind, c.user)
<1>5. Served \/ UNCHANGED accountTable
  BY <1>1
<1>6. /\ accounts' \in AccountRows /\ lastUserId' \in 0..UserCount /\ lastUserId <= lastUserId'
      /\ \A v \in Users : v > lastUserId' => accounts'[v] = 0
      /\ \A v \in Users : accounts'[v] # 0 => accounts[v] # 0 \/ v > lastUserId
      /\ \A v \in Users : accounts[v] # 0 => accounts'[v] # 0
  <2>1. CASE Served
    BY ZenonT(30), <1>2, <2>1, DoneChanges
  <2>2. CASE ~Served
    BY <1>2, <1>5, <2>2 DEF UserShapes, NumbersUsedOnce, accountTable
  <2>3. QED
    BY <2>1, <2>2
<1>7. lastUserId \in Nat /\ lastUserId' \in Nat /\ userNotes \subseteq userNotes'
  BY <1>1, <1>2, <1>6, UserAssumption DEF UserShapes
<1>8. UserShapes'
  BY <1>1, <1>2, <1>3, <1>4, <1>6 DEF UserShapes, userRefs
<1>9. OneUserDialog'
  BY <1>1 DEF UserInv, OneUserDialog, userRefs
<1>10. NumbersUsedOnce' /\ ListsInOrder'
  BY <1>1, <1>6, <1>7, OrderKept
<1>11. UserFocusSafe'
  BY <1>1, <1>2, <1>6, <1>7 DEF UserInv, UserShapes, UserFocusSafe, TargetAlive, userRefs
<1>12. UsersAreComing'
  <2> SUFFICES ASSUME (FreeOf({"failed", "crossed", "elsewhere", "lost"}) /\ ~ChangeToBeTold)' PROVE UsersAreComing'
    BY DEF UsersAreComing
  <2>1. FreeOf({"failed", "crossed", "elsewhere", "lost"})
    BY <1>7 DEF FreeOf
  <2>2. d.phase # "ok" /\ ~ChangeToBeTold
    BY <1>1, <1>4 DEF ChangeToBeTold
  <2>3. accounts' = accounts
    BY <1>1, <1>3, <2>2 DEF FreeOf, accountTable
  <2>4. QED
    BY <1>1, <2>1, <2>2, <2>3 DEF UserInv, UsersAreComing
<1>13. QED
  BY <1>8, <1>9, <1>10, <1>11, <1>12 DEF UserInv

LEMMA ServeUserLoadKeeps == ASSUME UserInv, ServeUserLoad PROVE UserInv'
<1> USE UserForms
<1>1. PICK i \in DOMAIN userLoads :
        /\ userLoads[i].phase = "asked"
        /\ \/ /\ userLoads' = [userLoads EXCEPT ![i] = [phase |-> "ok", data |-> accounts]]
              /\ userNotes' = IF \E j \in 1..(i - 1) : userLoads[j].phase = "asked"
                              THEN userNotes \cup {"overtaken"} ELSE userNotes
           \/ userLoads' = [userLoads EXCEPT ![i].phase = "failed"] /\ userNotes' = userNotes
  BY DEF ServeUserLoad
<1>2. UNCHANGED <<accounts, lastUserId, users, isMobile, userDialog, changes, userExiting, userRefs, userFocus>>
  BY DEF ServeUserLoad, accountTable
<1>3. userLoads \in Seq(UserLoads) /\ userLoads[i] \in UserLoads /\ i \in 1..Len(userLoads)
      /\ Len(userLoads) \in Nat /\ accounts \in AccountRows
  BY <1>1, ElementOfSeq, LenProperties DEF UserInv, UserShapes
<1>4. PICK l \in UserLoads :
        /\ userLoads' = [userLoads EXCEPT ![i] = l]
        /\ \/ /\ l.phase = "ok" /\ l.data = accounts
              /\ (\E j \in 1..(i - 1) : userLoads[j].phase = "asked") => "overtaken" \in userNotes'
           \/ l.phase = "failed" /\ l.data = userLoads[i].data
  <2>1. CASE userLoads' = [userLoads EXCEPT ![i] = [phase |-> "ok", data |-> accounts]]
             /\ userNotes' = IF \E j \in 1..(i - 1) : userLoads[j].phase = "asked"
                              THEN userNotes \cup {"overtaken"} ELSE userNotes
    <3>1. [phase |-> "ok", data |-> accounts] \in UserLoads
      BY <1>3 DEF UserLoads
    <3>2. QED
      BY <2>1, <3>1
  <2>2. CASE userLoads' = [userLoads EXCEPT ![i].phase = "failed"]
    <3> DEFINE f == [userLoads[i] EXCEPT !.phase = "failed"]
    <3>1. f \in UserLoads /\ f.phase = "failed" /\ f.data = userLoads[i].data
      BY <1>3 DEF UserLoads
    <3>2. userLoads' = [userLoads EXCEPT ![i] = f]
      BY <1>3, <2>2
    <3> HIDE DEF f
    <3>3. QED
      BY <3>1, <3>2
  <2>3. QED
    BY <1>1, <2>1, <2>2
<1>5. /\ userLoads' \in Seq(UserLoads) /\ Len(userLoads') = Len(userLoads)
      /\ \A j \in 1..Len(userLoads) : userLoads'[j] = IF j = i THEN l ELSE userLoads[j]
  BY <1>3, <1>4, ExceptSeq
<1>6. userNotes \subseteq userNotes' /\ userNotes' \subseteq userNotes \cup {"overtaken"}
  BY <1>1
<1>7. UserShapes' /\ OneUserDialog'
  BY <1>2, <1>5 DEF UserInv, UserShapes, OneUserDialog, userRefs
<1>8. NumbersUsedOnce'
  <2>1. \A u \in Users : u > lastUserId => l.data[u] = 0
    BY <1>3, <1>4 DEF UserInv, NumbersUsedOnce
  <2>2. QED
    BY <1>2, <1>5, <2>1 DEF UserInv, NumbersUsedOnce
<1>9. ListsInOrder'
  <2> SUFFICES ASSUME FreeOf({"crossed", "overtaken"})' PROVE ListsInOrder'
    BY DEF ListsInOrder
  <2>1. FreeOf({"crossed", "overtaken"})
    BY <1>6 DEF FreeOf
  <2>2. l.phase = "ok" => l.data = accounts /\ \A j \in 1..(i - 1) : userLoads[j].phase # "asked"
    BY <1>4 DEF FreeOf
  <2>3. \A j \in 1..Len(userLoads) : j > i => userLoads[j].phase # "ok"
    BY <1>1, <1>3, <2>1 DEF UserInv, ListsInOrder
  <2>4. \A j, k \in 1..Len(userLoads') : j < k /\ userLoads'[k].phase = "ok" => userLoads'[j].phase # "asked"
    BY <1>3, <1>4, <1>5, <2>1, <2>2, <2>3 DEF UserInv, ListsInOrder
  <2>5. \A j, k \in 1..Len(userLoads') :
          j < k /\ userLoads'[j].phase = "ok" /\ userLoads'[k].phase = "ok" =>
            \A u \in Users : userLoads'[j].data[u] # 0 /\ accounts'[u] # 0 => userLoads'[k].data[u] # 0
    BY <1>2, <1>3, <1>5, <2>1, <2>2, <2>3 DEF UserInv, ListsInOrder
  <2>8. /\ \A m, n \in 1..Len(userLoads) :
            m < n /\ userLoads[m].phase = "ok" /\ userLoads[n].phase = "ok" =>
              \A u \in Users : userLoads[m].data[u] # 0 /\ accounts[u] # 0 => userLoads[n].data[u] # 0
        /\ \A n \in 1..Len(userLoads) : userLoads[n].phase = "ok" =>
              \A u \in Users : users[u] # 0 /\ accounts[u] # 0 => userLoads[n].data[u] # 0
    BY <2>1 DEF UserInv, ListsInOrder
  <2>6. \A k \in 1..Len(userLoads') : userLoads'[k].phase = "ok" =>
          \A u \in Users : users'[u] # 0 /\ accounts'[u] # 0 => userLoads'[k].data[u] # 0
    BY <1>2, <1>5, <2>2, <2>8
  <2>7. QED
    BY <2>4, <2>5, <2>6 DEF ListsInOrder
<1>10. UserFocusSafe'
  BY <1>2, <1>6 DEF UserInv, UserFocusSafe, TargetAlive, userRefs
<1>11. UsersAreComing'
  <2> SUFFICES ASSUME (FreeOf({"failed", "crossed", "elsewhere", "lost"}) /\ ~ChangeToBeTold)' PROVE UsersAreComing'
    BY DEF UsersAreComing
  <2>1. FreeOf({"failed", "crossed", "elsewhere", "lost"}) /\ ~ChangeToBeTold
    BY <1>2, <1>6 DEF FreeOf, ChangeToBeTold
  <2>2. userLoads # <<>>
    BY <1>3, EmptySeq
  <2>3. userLoads'[Len(userLoads)].phase = "ok" => userLoads'[Len(userLoads)].data = accounts
    BY <1>3, <1>4, <1>5, <2>1, <2>2 DEF UserInv, UsersAreComing
  <2>4. userLoads' # <<>>
    BY <1>3, <1>5, EmptySeq
  <2>5. QED
    BY <1>2, <1>5, <2>3, <2>4 DEF UsersAreComing
<1>12. QED
  BY <1>7, <1>8, <1>9, <1>10, <1>11 DEF UserInv

WithoutUserLoad(i) == SubSeq(userLoads, 1, i - 1) \o SubSeq(userLoads, i + 1, Len(userLoads))

LEMMA LoadTaken ==
  ASSUME userLoads \in Seq(UserLoads), NEW i \in DOMAIN userLoads, userLoads' = WithoutUserLoad(i)
  PROVE  /\ userLoads' \in Seq(UserLoads) /\ Len(userLoads') = Len(userLoads) - 1
         /\ \A j \in 1..Len(userLoads') : userLoads'[j] = IF j < i THEN userLoads[j] ELSE userLoads[j + 1]
BY WithoutOne DEF WithoutUserLoad

LEMMA FetchUsersKeeps == ASSUME UserInv, FetchUsers PROVE UserInv'
<1> USE UserForms
<1>1. PICK i \in DOMAIN userLoads :
        /\ userLoads[i].phase # "asked" /\ userLoads' = WithoutUserLoad(i)
        /\ users' = IF userLoads[i].phase = "ok" THEN userLoads[i].data ELSE users
        /\ userFocus' = IF userFocus.user # 0 /\ users'[userFocus.user] = 0 THEN Nowhere ELSE userFocus
        /\ userNotes' = userNotes \cup (IF userLoads[i].phase = "failed" THEN {"failed"} ELSE {})
                                  \cup (IF i > 1 /\ userLoads[i].phase = "ok" THEN {"crossed"} ELSE {})
  BY DEF FetchUsers, WithoutUserLoad
<1>2. UNCHANGED <<accounts, lastUserId, isMobile, userDialog, changes, userExiting, userRefs>>
  BY DEF FetchUsers, accountTable
<1>3. userLoads \in Seq(UserLoads) /\ userLoads[i] \in UserLoads /\ i \in 1..Len(userLoads)
      /\ Len(userLoads) \in Nat
  BY <1>1, ElementOfSeq, LenProperties DEF UserInv, UserShapes
<1>4. /\ userLoads' \in Seq(UserLoads) /\ Len(userLoads') = Len(userLoads) - 1
      /\ \A j \in 1..Len(userLoads') : userLoads'[j] = IF j < i THEN userLoads[j] ELSE userLoads[j + 1]
  BY <1>1, <1>3, LoadTaken
<1>5. userLoads[i].phase \in {"ok", "failed"} /\ userLoads[i].data \in AccountRows
  BY <1>1, <1>3 DEF UserLoads
<1>6. users' \in AccountRows
  BY <1>1, <1>5 DEF UserInv, UserShapes
<1>7. UserShapes' /\ OneUserDialog'
  BY <1>2, <1>4, <1>6 DEF UserInv, UserShapes, OneUserDialog, userRefs
<1>8. NumbersUsedOnce'
  <2>1. \A j \in 1..Len(userLoads') : \E k \in 1..Len(userLoads) : userLoads'[j] = userLoads[k]
    BY <1>3, <1>4
  <2>2. NumbersUsedOnce
    BY DEF UserInv
  <2>3. \A u \in Users : u > lastUserId => accounts[u] = 0 /\ users'[u] = 0
    BY <1>1, <1>3, <2>2 DEF NumbersUsedOnce
  <2>4. ASSUME NEW j \in 1..Len(userLoads'), NEW u \in Users, u > lastUserId
        PROVE  userLoads'[j].data[u] = 0
    <3>1. PICK k \in 1..Len(userLoads) : userLoads'[j] = userLoads[k]
      BY <2>1
    <3>2. userLoads[k].data[u] = 0
      BY <2>2, <2>4 DEF NumbersUsedOnce
    <3>3. QED
      BY <3>1, <3>2
  <2>5. accounts' = accounts /\ lastUserId' = lastUserId
    BY <1>2
  <2>6. QED
    BY <2>3, <2>4, <2>5 DEF NumbersUsedOnce
<1>9. userNotes \subseteq userNotes' /\ (userLoads[i].phase = "failed" => "failed" \in userNotes')
      /\ ("crossed" \notin userNotes' => i = 1 \/ userLoads[i].phase = "failed")
      /\ (userNotes' \subseteq {"failed"} => userNotes \subseteq {"failed"} /\ "crossed" \notin userNotes')
  BY <1>1, <1>3, <1>5
<1>10. \A j, k \in 1..Len(userLoads') : j < k =>
         \E m, n \in 1..Len(userLoads) : m < n /\ userLoads'[j] = userLoads[m] /\ userLoads'[k] = userLoads[n]
  <2> SUFFICES ASSUME NEW j \in 1..Len(userLoads'), NEW k \in 1..Len(userLoads'), j < k
               PROVE  \E m, n \in 1..Len(userLoads) :
                         m < n /\ userLoads'[j] = userLoads[m] /\ userLoads'[k] = userLoads[n]
    OBVIOUS
  <2> DEFINE at(x) == IF x < i THEN x ELSE x + 1
  <2>1. at(j) \in 1..Len(userLoads) /\ at(k) \in 1..Len(userLoads) /\ at(j) < at(k)
    BY <1>3, <1>4
  <2>2. userLoads'[j] = userLoads[at(j)] /\ userLoads'[k] = userLoads[at(k)]
    BY <1>4
  <2> HIDE DEF at
  <2>3. QED
    BY <2>1, <2>2
<1>11. i = 1 => \A k \in 1..Len(userLoads') : k + 1 \in 1..Len(userLoads) /\ userLoads'[k] = userLoads[k + 1]
  BY <1>3, <1>4
<1>12. ListsInOrder'
  <2> SUFFICES ASSUME FreeOf({"crossed", "overtaken"})' PROVE ListsInOrder'
    BY DEF ListsInOrder
  <2>1. FreeOf({"crossed", "overtaken"}) /\ (i = 1 \/ userLoads[i].phase = "failed")
    BY <1>9 DEF FreeOf
  <2>2. /\ \A m, n \in 1..Len(userLoads) : m < n /\ userLoads[n].phase = "ok" => userLoads[m].phase # "asked"
        /\ \A m, n \in 1..Len(userLoads) :
            m < n /\ userLoads[m].phase = "ok" /\ userLoads[n].phase = "ok" =>
              \A u \in Users : userLoads[m].data[u] # 0 /\ accounts[u] # 0 => userLoads[n].data[u] # 0
    BY <2>1 DEF UserInv, ListsInOrder
  <2>6. \A n \in 1..Len(userLoads) : userLoads[n].phase = "ok" =>
          \A u \in Users : users[u] # 0 /\ accounts[u] # 0 => userLoads[n].data[u] # 0
    BY <2>1 DEF UserInv, ListsInOrder
  <2>3. ASSUME NEW j \in 1..Len(userLoads'), NEW k \in 1..Len(userLoads'), j < k, userLoads'[k].phase = "ok"
        PROVE  /\ userLoads'[j].phase # "asked"
               /\ userLoads'[j].phase = "ok" =>
                    \A u \in Users : userLoads'[j].data[u] # 0 /\ accounts'[u] # 0 => userLoads'[k].data[u] # 0
    <3>1. PICK m \in 1..Len(userLoads), n \in 1..Len(userLoads) :
            m < n /\ userLoads'[j] = userLoads[m] /\ userLoads'[k] = userLoads[n]
      BY <1>10, <2>3
    <3>2. QED
      BY <1>2, <2>2, <2>3, <3>1
  <2>4. ASSUME NEW k \in 1..Len(userLoads'), userLoads'[k].phase = "ok", NEW u \in Users,
               users'[u] # 0, accounts'[u] # 0
        PROVE  userLoads'[k].data[u] # 0
    <3>1. CASE userLoads[i].phase = "failed"
      <4>1. users' = users
        BY <1>1, <3>1
      <4>2. PICK n \in 1..Len(userLoads) : userLoads'[k] = userLoads[n]
        <5>1. CASE k < i
          BY <1>3, <1>4, <5>1
        <5>2. CASE ~(k < i)
          <6>1. k + 1 \in 1..Len(userLoads) /\ userLoads'[k] = userLoads[k + 1]
            BY <1>3, <1>4, <5>2
          <6>2. QED
            BY <6>1
        <5>3. QED
          BY <5>1, <5>2
      <4>3. userLoads[n].phase = "ok" /\ users[u] # 0 /\ accounts[u] # 0
        BY <1>2, <2>4, <4>1, <4>2
      <4>4. userLoads[n].data[u] # 0
        BY <2>6, <4>3
      <4>5. QED
        BY <4>2, <4>4
    <3>2. CASE i = 1 /\ userLoads[i].phase = "ok"
      <4>1. users' = userLoads[1].data /\ userLoads[1].phase = "ok" /\ 1 \in 1..Len(userLoads)
        BY <1>1, <1>3, <3>2
      <4>2. PICK n \in 1..Len(userLoads) : 1 < n /\ userLoads'[k] = userLoads[n]
        BY <1>3, <1>11, <3>2
      <4>3. userLoads[n].phase = "ok" /\ userLoads[1].data[u] # 0 /\ accounts[u] # 0
        BY <1>2, <2>4, <4>1, <4>2
      <4>4. userLoads[n].data[u] # 0
        BY <2>2, <4>1, <4>2, <4>3
      <4>5. QED
        BY <4>2, <4>4
    <3>3. QED
      BY <1>5, <2>1, <3>1, <3>2
  <2>5. QED
    BY <2>3, <2>4 DEF ListsInOrder
<1>13. UserFocusSafe'
  <2> SUFFICES ASSUME userNotes' \subseteq {"failed"} PROVE UserFocusSafe'
    BY DEF UserFocusSafe
  <2>1. /\ userNotes \subseteq {"failed"} /\ FreeOf({"crossed", "overtaken"})
        /\ userFocus # Nowhere /\ userFocus.user \in {0} \cup Users
        /\ userFocus.user # 0 => accounts[userFocus.user] # 0 /\ users[userFocus.user] # 0
    BY <1>9 DEF UserInv, UserFocusSafe, FreeOf
  <2>2. userFocus.user # 0 => users'[userFocus.user] # 0
    BY ZenonT(30), <1>1, <1>3, <1>5, <2>1 DEF UserInv, ListsInOrder
  <2>3. userFocus' = userFocus
    BY <1>1, <2>2
  <2>4. QED
    BY <1>2, <2>1, <2>2, <2>3 DEF UserInv, UserFocusSafe, TargetAlive, userRefs
<1>14. UsersAreComing'
  <2> SUFFICES ASSUME (FreeOf({"failed", "crossed", "elsewhere", "lost"}) /\ ~ChangeToBeTold)' PROVE UsersAreComing'
    BY DEF UsersAreComing
  <2>1. FreeOf({"failed", "crossed", "elsewhere", "lost"}) /\ ~ChangeToBeTold /\ i = 1 /\ userLoads[1].phase = "ok"
    BY <1>2, <1>5, <1>9 DEF FreeOf, ChangeToBeTold
  <2>2. userLoads # <<>> /\ users' = userLoads[1].data
    BY <1>1, <1>3, <2>1, EmptySeq
  <2>3. userLoads[Len(userLoads)].phase = "ok" => userLoads[Len(userLoads)].data = accounts
    BY <2>1, <2>2 DEF UserInv, UsersAreComing
  <2>4. CASE Len(userLoads) = 1
    <3>1. userLoads' = <<>>
      BY <1>4, <2>4, EmptySeq
    <3>2. QED
      BY <1>2, <2>1, <2>2, <2>3, <2>4, <3>1 DEF UsersAreComing
  <2>5. CASE Len(userLoads) # 1
    <3>1. Len(userLoads') \in 1..Len(userLoads') /\ userLoads'[Len(userLoads')] = userLoads[Len(userLoads)]
      BY <1>3, <1>4, <2>1, <2>5
    <3>2. userLoads' # <<>>
      BY <3>1, EmptySeq
    <3>3. QED
      BY <1>2, <2>3, <3>1, <3>2 DEF UsersAreComing
  <2>6. QED
    BY <2>4, <2>5
<1>15. QED
  BY <1>7, <1>8, <1>12, <1>13, <1>14 DEF UserInv

\* One more list is the last, and has only been asked for.
LEMMA UserLoadIsLast ==
  ASSUME UserInv, userLoads' = Append(userLoads, UserLoad), UNCHANGED <<accounts, lastUserId, users, userNotes>>
  PROVE  userLoads' \in Seq(UserLoads) /\ NumbersUsedOnce' /\ ListsInOrder' /\ UsersAreComing'
<1> USE UserForms
<1> DEFINE n == Len(userLoads)
<1>1. /\ userLoads' \in Seq(UserLoads) /\ userLoads' # <<>> /\ n \in Nat /\ Len(userLoads') = n + 1
      /\ \A i \in 1..n : userLoads'[i] = userLoads[i]
      /\ userLoads'[n + 1] = UserLoad
  BY UserLoadAppended DEF UserInv, UserShapes
<1>2. \A i \in 1..Len(userLoads') : (i \in 1..n /\ userLoads'[i] = userLoads[i]) \/ (i = n + 1 /\ userLoads'[i] = UserLoad)
  BY <1>1
<1>3. NumbersUsedOnce'
  BY <1>2 DEF UserInv, NumbersUsedOnce
<1>4. ListsInOrder'
  <2> SUFFICES ASSUME FreeOf({"crossed", "overtaken"}) PROVE ListsInOrder'
    BY DEF ListsInOrder, FreeOf
  <2>1. /\ \A i, j \in 1..n : i < j /\ userLoads[j].phase = "ok" => userLoads[i].phase # "asked"
        /\ \A i, j \in 1..n : i < j /\ userLoads[i].phase = "ok" /\ userLoads[j].phase = "ok" =>
             \A u \in Users : userLoads[i].data[u] # 0 /\ accounts[u] # 0 => userLoads[j].data[u] # 0
        /\ \A j \in 1..n : userLoads[j].phase = "ok" =>
             \A u \in Users : users[u] # 0 /\ accounts[u] # 0 => userLoads[j].data[u] # 0
    BY DEF UserInv, ListsInOrder
  <2>2. \A j \in 1..Len(userLoads') : userLoads'[j].phase = "ok" => j \in 1..n /\ userLoads'[j] = userLoads[j]
    BY <1>2
  <2>3. \A i, j \in 1..Len(userLoads') : i < j /\ j \in 1..n => i \in 1..n /\ userLoads'[i] = userLoads[i]
    BY <1>1
  <2> HIDE DEF n
  <2>4. QED
    BY <2>1, <2>2, <2>3 DEF ListsInOrder
<1>5. UsersAreComing'
  BY <1>1 DEF UsersAreComing
<1>6. QED
  BY <1>1, <1>3, <1>4, <1>5

LEMMA DialogAnsweredKeeps == ASSUME UserInv, DialogAnswered PROVE UserInv'
<1> USE UserForms
<1>1. /\ userDialog.phase \in {"ok", "failed"}
      /\ UNCHANGED <<accounts, lastUserId, users, changes, confirmHandoff, confirmOpener, lastTarget, userFocus, userNotes>>
  BY DEF DialogAnswered, accountTable
<1>2. /\ userDialog.kind \in {"rename", "reset", "delete"} /\ lastTarget \in Users
      /\ userDialog \in [kind : RowDialogs \cup {"none", "add"}, user : {0} \cup Users, phase : {"open", "asked", "ok", "failed"}]
      /\ userLoads \in Seq(UserLoads)
  BY <1>1 DEF UserInv, UserShapes, OneUserDialog, RowDialogs
<1>3. CASE userDialog.phase = "failed"
  <2> DEFINE d == [userDialog EXCEPT !.phase = "open"]
  <2>1. UNCHANGED <<userExiting, deleteSucceeded, userLoads>> /\ userDialog' = d
    BY <1>3 DEF DialogAnswered
  <2>2. /\ d.kind = userDialog.kind /\ d.user = userDialog.user /\ d.phase = "open"
        /\ d \in [kind : RowDialogs \cup {"none", "add"}, user : {0} \cup Users, phase : {"open", "asked", "ok", "failed"}]
    BY <1>2
  <2> HIDE DEF d
  <2>3. UserShapes'
    BY <1>1, <2>1, <2>2 DEF UserInv, UserShapes
  <2>4. OneUserDialog'
    BY <1>1, <2>1, <2>2 DEF UserInv, OneUserDialog
  <2>5. NumbersUsedOnce' /\ ListsInOrder'
    BY <1>1, <2>1 DEF UserInv, NumbersUsedOnce, ListsInOrder, FreeOf
  <2>6. UserFocusSafe'
    BY <1>1, <1>2, <1>3, <2>1, <2>2 DEF UserInv, UserFocusSafe, TargetAlive
  <2>7. UsersAreComing'
    BY <1>1, <1>3, <2>1, <2>2 DEF UserInv, UsersAreComing, ChangeToBeTold, FreeOf
  <2>8. QED
    BY <2>3, <2>4, <2>5, <2>6, <2>7 DEF UserInv
<1>4. CASE userDialog.phase = "ok"
  <2>1. /\ userDialog' = NoUserDialog /\ userExiting' = userExiting \cup {userDialog.kind}
        /\ deleteSucceeded' = (deleteSucceeded \/ userDialog.kind = "delete")
        /\ userLoads' = IF userDialog.kind = "reset" THEN userLoads ELSE Append(userLoads, UserLoad)
    BY <1>4 DEF DialogAnswered
  <2>2. userLoads' = Append(userLoads, UserLoad) \/ (userLoads' = userLoads /\ userDialog.kind = "reset")
    BY <2>1
  <2>3. userLoads' \in Seq(UserLoads) /\ NumbersUsedOnce' /\ ListsInOrder' /\ UsersAreComing'
    <3>1. CASE userLoads' = Append(userLoads, UserLoad)
      BY <1>1, <1>2, <3>1, UserLoadIsLast DEF UserInv
    <3>2. CASE userLoads' = userLoads /\ userDialog.kind = "reset"
      <4>1. ~ChangeToBeTold' => ~ChangeToBeTold
        BY <1>1, <3>2 DEF ChangeToBeTold
      <4>2. QED
        BY <1>1, <1>2, <3>2, <4>1 DEF UserInv, NumbersUsedOnce, ListsInOrder, UsersAreComing, FreeOf
    <3>3. QED
      BY <2>2, <3>1, <3>2
  <2>4. UserShapes'
    BY <1>1, <2>1, <2>3 DEF UserInv, UserShapes
  <2>5. OneUserDialog'
    BY <1>1, <1>2, <2>1 DEF UserInv, OneUserDialog, RowDialogs
  <2>6. UserFocusSafe'
    BY <1>1, <1>2, <1>4, <2>1 DEF UserInv, UserFocusSafe, OneUserDialog, RowDialogs, TargetAlive
  <2>7. QED
    BY <2>3, <2>4, <2>5, <2>6 DEF UserInv
<1>5. QED
  BY <1>1, <1>3, <1>4

LEMMA ChangedKeeps == ASSUME UserInv, Changed PROVE UserInv'
<1> USE UserForms
<1>1. PICK c \in changes :
        /\ c.phase # "asked" /\ changes' = changes \ {c}
        /\ userLoads' = IF c.phase = "ok" THEN Append(userLoads, UserLoad) ELSE userLoads
        /\ userDialog' = IF c.phase = "ok" /\ userDialog.kind = c.kind THEN NoUserDialog ELSE userDialog
        /\ userExiting' = IF c.phase = "ok" /\ userDialog.kind = c.kind THEN userExiting \cup {c.kind} ELSE userExiting
        /\ UNCHANGED <<accountTable, users, isMobile, userRefs, userFocus, userBudget, userNotes>>
  BY DEF Changed
<1>2. /\ UNCHANGED <<accounts, lastUserId, users, confirmHandoff, confirmOpener, deleteSucceeded, lastTarget, userFocus, userNotes>>
      /\ c.kind \in {"role", "manage", "add"} /\ userLoads \in Seq(UserLoads)
  BY <1>1 DEF accountTable, userRefs, UserInv, UserShapes, UserChanges
<1>3. \/ UNCHANGED <<userDialog, userExiting>>
      \/ /\ userDialog.kind = c.kind /\ c.kind \in {"manage", "add"} /\ userDialog.phase = "open"
         /\ userDialog' = NoUserDialog /\ userExiting' = userExiting \cup {c.kind} /\ userExiting = {}
  BY <1>1, <1>2 DEF UserInv, UserShapes, OneUserDialog, RowDialogs
<1>4. userLoads' \in Seq(UserLoads) /\ NumbersUsedOnce' /\ ListsInOrder' /\ UsersAreComing'
  <2>1. CASE c.phase = "ok"
    <3>1. userLoads' = Append(userLoads, UserLoad)
      BY <1>1, <2>1
    <3>2. QED
      BY <1>2, <3>1, UserLoadIsLast DEF UserInv
  <2>2. CASE c.phase # "ok"
    <3>1. UNCHANGED <<userLoads, userDialog>> /\ (~ChangeToBeTold' => ~ChangeToBeTold)
      BY <1>1, <2>2 DEF ChangeToBeTold
    <3>2. QED
      BY <1>2, <3>1 DEF UserInv, NumbersUsedOnce, ListsInOrder, UsersAreComing, FreeOf
  <2>3. QED
    BY <2>1, <2>2
<1>5. UserShapes'
  BY <1>1, <1>2, <1>3, <1>4 DEF UserInv, UserShapes
<1>6. OneUserDialog'
  BY <1>2, <1>3 DEF UserInv, UserShapes, OneUserDialog, RowDialogs
<1>7. UserFocusSafe'
  BY <1>2, <1>3 DEF UserInv, UserFocusSafe, RowDialogs, TargetAlive
<1>8. QED
  BY <1>4, <1>5, <1>6, <1>7 DEF UserInv

LEMMA UsersStart == ASSUME UserInit PROVE UserInv
<1> USE UserForms
<1>1. /\ accounts \in AccountRows /\ users \in AccountRows /\ lastUserId \in 0..UserCount /\ userLoads = <<UserLoad>>
      /\ \A u \in Users : users[u] = 0 /\ (u > lastUserId => accounts[u] = 0)
  BY UserAssumption DEF UserInit, AccountRows, Users
<1>2. userLoads \in Seq(UserLoads) /\ Len(userLoads) = 1 /\ userLoads[1] = UserLoad /\ userLoads # <<>>
  BY <1>1
<1>3. UserShapes
  BY <1>1, <1>2 DEF UserInit, UserShapes, RowDialogs
<1>4. OneUserDialog
  BY DEF UserInit, OneUserDialog, RowDialogs
<1>5. NumbersUsedOnce /\ ListsInOrder
  BY <1>1, <1>2 DEF NumbersUsedOnce, ListsInOrder
<1>6. UserFocusSafe
  BY DEF UserInit, UserFocusSafe, RowDialogs
<1>7. UsersAreComing
  BY <1>2 DEF UsersAreComing
<1>8. QED
  BY <1>3, <1>4, <1>5, <1>6, <1>7 DEF UserInv

LEMMA UsersStep == ASSUME UserInv, [UserNext]_userVars PROVE UserInv'
<1>1. CASE UNCHANGED userVars
  BY <1>1 DEF userVars, accountTable, UserInv, UserShapes, OneUserDialog, NumbersUsedOnce, ListsInOrder, UserFocusSafe, UsersAreComing,
              ChangeToBeTold, TargetAlive, FreeOf
<1>2. CASE UserNext
  BY <1>2, ServeUserLoadKeeps, FetchUsersKeeps, DeletedElsewhereKeeps, OpenManageKeeps, OpenRenameKeeps,
     OpenFromTableKeeps, ConfirmFromManageKeeps, OpenAddKeeps, CloseKeeps, DialogExitedKeeps, SubmitDialogKeeps,
     ServeDialogKeeps, DialogAnsweredKeeps, HandleRoleChangeKeeps, OnSaveManagedNameKeeps, OnAddUserKeeps,
     ServeChangeKeeps, ChangedKeeps DEF UserNext
<1>3. QED
  BY <1>1, <1>2

LEMMA UserInvHolds == UserInv => UsersShownAreTrue /\ UserFocusKept
<1> SUFFICES ASSUME UserInv PROVE UsersShownAreTrue /\ UserFocusKept
  OBVIOUS
<1>1. UsersShownAreTrue
  BY DEF UserInv, UsersAreComing, UsersShownAreTrue, ChangeToBeTold, FreeOf
<1>2. UserFocusKept
  BY DEF UserInv, UserFocusSafe, UserFocusKept
<1>3. QED
  BY <1>1, <1>2

\* With nothing under way the users shown are the server's, and the focus is not lost when
\* dialogs close or hand over to one another, with the exceptions the two properties name
\* (HouseholdUsersCard in Settings.tsx).
THEOREM UsersHold == UserSpec => [](UsersShownAreTrue /\ UserFocusKept)
<1>1. UserInit => UserInv
  BY UsersStart
<1>2. UserInv /\ [UserNext]_userVars => UserInv'
  BY UsersStep
<1>3. UserInv => UsersShownAreTrue /\ UserFocusKept
  BY UserInvHolds
<1>4. QED
  BY <1>1, <1>2, <1>3, PTL DEF UserSpec

\* The accounts page is of its type: its flags besides what its invariant has.
UserFlags == isMobile \in BOOLEAN /\ confirmHandoff \in BOOLEAN /\ deleteSucceeded \in BOOLEAN

LEMMA UserFlagsKeep == ASSUME UserInv, UserFlags, [UserNext]_userVars PROVE UserFlags'
<1>1. ASSUME UNCHANGED <<isMobile, confirmHandoff, deleteSucceeded>> PROVE UserFlags'
  BY <1>1, Zenon DEF UserFlags
<1>2. CASE ServeUserLoad \/ FetchUsers \/ DeletedElsewhere
  BY <1>1, <1>2 DEF ServeUserLoad, FetchUsers, DeletedElsewhere, userRefs
<1>3. CASE OpenManage \/ OpenRename \/ OpenFromTable \/ OpenAdd \/ Close
  BY <1>1, <1>3 DEF OpenManage, OpenRename, OpenFromTable, OpenAdd, Close, userRefs
<1>4. CASE ConfirmFromManage
  <2>1. isMobile' = isMobile /\ confirmHandoff' = TRUE /\ deleteSucceeded' = deleteSucceeded
    BY <1>4 DEF ConfirmFromManage
  <2>2. QED
    BY <2>1, Zenon DEF UserFlags
<1>5. CASE DialogExited
  <2>1. /\ isMobile' = isMobile
        /\ confirmHandoff' = FALSE \/ confirmHandoff' = confirmHandoff
        /\ deleteSucceeded' = FALSE \/ deleteSucceeded' = deleteSucceeded
    <3>1. PICK kind \in userExiting :
              /\ isMobile' = isMobile
              /\ CASE kind = "add" -> userFocus' = Button("add", 0) /\ UNCHANGED userRefs
                   [] kind = "rename" -> userFocus' = Anchor("rename", lastTarget) /\ UNCHANGED userRefs
                   [] kind = "manage" ->
                        /\ userFocus' = IF confirmHandoff THEN userFocus ELSE Anchor("manage", lastTarget)
                        /\ confirmHandoff' = FALSE
                        /\ UNCHANGED <<confirmOpener, deleteSucceeded, lastTarget>>
                   [] kind = "reset" ->
                        /\ FocusAfterConfirmClose(FALSE)
                        /\ UNCHANGED <<confirmHandoff, deleteSucceeded, lastTarget>>
                   [] kind = "delete" ->
                        /\ FocusAfterConfirmClose(deleteSucceeded)
                        /\ deleteSucceeded' = FALSE
                        /\ UNCHANGED <<confirmHandoff, lastTarget>>
      BY <1>5, Zenon DEF DialogExited
    <3>2. kind \in {"add", "rename", "manage", "reset", "delete"}
      BY DEF UserInv, OneUserDialog, RowDialogs
    <3>3. CASE kind \in {"add", "rename"}
      <4>1. UNCHANGED userRefs
        BY <3>1, <3>3
      <4>2. QED
        BY <3>1, <4>1 DEF userRefs
    <3>4. CASE kind = "manage"
      BY <3>1, <3>4
    <3>5. CASE kind = "reset"
      BY <3>1, <3>5
    <3>6. CASE kind = "delete"
      BY <3>1, <3>6
    <3>7. QED
      BY <3>2, <3>3, <3>4, <3>5, <3>6
  <2>2. QED
    BY <2>1, Zenon DEF UserFlags
<1>6. CASE SubmitDialog \/ ServeDialog
  BY <1>1, <1>6 DEF SubmitDialog, ServeDialog, userRefs
<1>7. CASE DialogAnswered
  <2>1. /\ isMobile' = isMobile /\ confirmHandoff' = confirmHandoff
        /\ \/ deleteSucceeded' = (deleteSucceeded \/ userDialog.kind = "delete")
           \/ deleteSucceeded' = deleteSucceeded
    BY <1>7 DEF DialogAnswered
  <2>2. QED
    BY <2>1, Zenon DEF UserFlags
<1>8. CASE HandleRoleChange \/ OnSaveManagedName \/ OnAddUser
  BY <1>1, <1>8 DEF HandleRoleChange, OnSaveManagedName, OnAddUser, Start, userRefs
<1>9. CASE ServeChange \/ Changed
  BY <1>1, <1>9 DEF ServeChange, Changed, userRefs
<1>10. CASE UNCHANGED userVars
  BY <1>1, <1>10 DEF userVars, userRefs
<1>11. QED
  BY <1>2, <1>3, <1>4, <1>5, <1>6, <1>7, <1>8, <1>9, <1>10 DEF UserNext

LEMMA UsersTyped == UserSpec => []UserTypeOK
<1>1. UserInit => UserInv /\ UserFlags
  BY UsersStart DEF UserInit, UserFlags
<1>2. UserInv /\ UserFlags /\ [UserNext]_userVars => UserInv' /\ UserFlags'
  BY UsersStep, UserFlagsKeep
<1>3. UserInv /\ UserFlags => UserTypeOK
  <2> SUFFICES ASSUME UserInv, UserFlags PROVE UserTypeOK
    OBVIOUS
  <2>1. (\A u \in Users : accounts[u] \in Nat /\ users[u] \in Nat) /\ lastUserId \in 0..UserCount
        /\ userDialog.user \in {0} \cup Users /\ lastTarget \in {0} \cup Users
    BY DEF UserInv, UserShapes, AccountRows
  <2>2. userExiting \subseteq {"manage", "rename", "reset", "delete", "add"}
    BY DEF UserInv, OneUserDialog, RowDialogs
  <2>3. {confirmHandoff, deleteSucceeded, isMobile} \subseteq BOOLEAN
    BY Zenon DEF UserFlags
  <2>4. QED
    BY <2>1, <2>2, <2>3 DEF UserTypeOK
<1>4. QED
  BY <1>1, <1>2, <1>3, PTL DEF UserSpec

(***************************************************************************)
(* The API tokens (ApiTokens): one creation at a time, its dialog open, so *)
(* that its plaintext replaces the dialog; and a token that works is listed or *)
(* an answer still to come tells of it.                                    *)
(***************************************************************************)
TokenSpec == TokenInit /\ [][TokenNext]_tokenVars

TokenCreations == [mount : Nat, phase : {"asked", "ok", "failed"}, id : Nat]
TokenGets == [mount : Nat, phase : {"asked", "ok", "failed"}, data : SUBSET Nat, crossed : BOOLEAN]

TokenShapes ==
  /\ minted \in Nat /\ mount \in Nat /\ \A t \in liveTokens \cup tokens : t \in 1..minted
  /\ creations \subseteq TokenCreations
  /\ \A c \in creations : c.mount <= mount /\ (c.phase = "ok" => c.id \in 1..minted)
  /\ tokenLists \subseteq TokenGets
  /\ \A g \in tokenLists : g.mount <= mount /\ \A t \in g.data : t \in 1..minted
  /\ revoking \in [target : Int, phase : {"closed", "open", "asked", "ok", "failed"}]
  /\ revoking.target <= minted
  /\ createOpen \in BOOLEAN /\ handoff \in BOOLEAN /\ 0 \notin answered

\* One creation at a time is under way for the section on screen, with its dialog open; one
\* at all, with no plaintext on screen, unless a second was submitted for a new section.
OneCreation ==
  /\ \A c, d \in creations : c.mount = mount /\ d.mount = mount => c = d
  /\ \A c \in creations : c.mount = mount => createOpen
  /\ "twice" \notin tokenNotes =>
        /\ \A c, d \in creations : c = d
        /\ creations # {} => revealed = 0
        /\ answered \subseteq saved \cup {revealed}

\* A dialog opens over nothing else, and the plaintext replaces it at once.
OneTokenDialog ==
  "rotated" \notin tokenNotes =>
    /\ createOpen => exiting = {} /\ revealed = 0 /\ revoking.phase = "closed"
    /\ revealed # 0 => /\ tokenFocus = "reveal" /\ revoking.phase = "closed"
                       /\ exiting \subseteq {"create"} /\ ("create" \in exiting => handoff)

\* The answer to a creation still to come tells of the token.
TokenToBeTold(t) == \E c \in creations : c.phase = "failed" \/ (c.phase = "ok" /\ c.id = t)

\* A token that works is listed, or will be: by its creation's answer, or by a list.
EachIsListed ==
  tokenNotes = {} =>
    /\ \A t \in liveTokens : t \in tokens \/ TokenToBeTold(t) \/ \E g \in tokenLists : g.mount = mount
    /\ \A g \in tokenLists, t \in liveTokens :
          g.mount = mount /\ g.phase = "ok" /\ ~g.crossed => t \in g.data \/ TokenToBeTold(t)
    /\ revoking.phase = "ok" =>
          \A t \in liveTokens : revoking.target \in {0, t} => TokenToBeTold(t)

TokenInv == TokenShapes /\ OneCreation /\ OneTokenDialog /\ EachIsListed

LEMMA ServeTokenListKeeps == ASSUME TokenInv, ServeTokenList PROVE TokenInv'
<1>1. PICK g \in tokenLists, h \in TokenGets :
        /\ tokenLists' = (tokenLists \ {g}) \cup {h} /\ g.phase = "asked"
        /\ h.mount = g.mount /\ h.crossed = g.crossed
        /\ (h.phase = "ok" /\ h.data = liveTokens) \/ (h.phase = "failed" /\ h.data = g.data)
  <2>1. PICK g \in tokenLists :
          /\ g.phase = "asked"
          /\ \/ tokenLists' = (tokenLists \ {g}) \cup {[g EXCEPT !.phase = "ok", !.data = liveTokens]}
             \/ tokenLists' = (tokenLists \ {g}) \cup {[g EXCEPT !.phase = "failed"]}
    BY DEF ServeTokenList
  <2>2. g \in TokenGets /\ liveTokens \in SUBSET Nat
    BY DEF TokenInv, TokenShapes
  <2>3. [g EXCEPT !.phase = "ok", !.data = liveTokens] \in TokenGets
        /\ [g EXCEPT !.phase = "failed"] \in TokenGets
    BY <2>2 DEF TokenGets
  <2>4. QED
    BY <2>1, <2>2, <2>3 DEF TokenGets
<1>2. UNCHANGED <<liveTokens, minted, mount, tokens, createOpen, creations, revealed, saved,
                  answered, revoking, exiting, handoff, tokenFocus, tokenNotes>>
  BY DEF ServeTokenList
<1>3. TokenShapes'
  BY <1>1, <1>2 DEF TokenInv, TokenShapes
<1>4. OneCreation' /\ OneTokenDialog'
  BY <1>2 DEF TokenInv, OneCreation, OneTokenDialog
<1>5. EachIsListed'
  BY <1>1, <1>2 DEF TokenInv, EachIsListed, TokenToBeTold
<1>6. QED
  BY <1>3, <1>4, <1>5 DEF TokenInv

LEMMA FetchTokensKeeps == ASSUME TokenInv, FetchTokens PROVE TokenInv'
<1>1. TokenShapes'
  BY DEF TokenInv, TokenShapes, TokenCreations, TokenGets, FetchTokens
<1>2. OneCreation'
  BY DEF TokenInv, OneCreation, TokenShapes, TokenCreations, FetchTokens
<1>3. OneTokenDialog'
  BY DEF TokenInv, OneTokenDialog, OneCreation, TokenShapes, TokenCreations, FetchTokens
<1>4. EachIsListed'
  BY DEF TokenInv, EachIsListed, TokenToBeTold, TokenShapes, TokenCreations, TokenGets, OneCreation, OneTokenDialog, FetchTokens
<1>5. QED
  BY <1>1, <1>2, <1>3, <1>4 DEF TokenInv

LEMMA OpenCreateKeeps == ASSUME TokenInv, OpenCreate PROVE TokenInv'
<1>1. TokenShapes'
  BY DEF TokenInv, TokenShapes, TokenCreations, TokenGets, OpenCreate, SectionUsable, creating, TokenWithin
<1>2. OneCreation'
  BY DEF TokenInv, OneCreation, TokenShapes, TokenCreations, OpenCreate, SectionUsable, creating, TokenWithin
<1>3. OneTokenDialog'
  BY DEF TokenInv, OneTokenDialog, OneCreation, TokenShapes, TokenCreations, OpenCreate, SectionUsable, creating, TokenWithin
<1>4. EachIsListed'
  BY ZenonT(30) DEF TokenInv, EachIsListed, TokenToBeTold, TokenShapes, TokenCreations, TokenGets, OneCreation, OneTokenDialog, OpenCreate, SectionUsable, creating, TokenWithin
<1>5. QED
  BY <1>1, <1>2, <1>3, <1>4 DEF TokenInv

LEMMA CloseCreateKeeps == ASSUME TokenInv, CloseCreate PROVE TokenInv'
<1>1. TokenShapes'
  BY DEF TokenInv, TokenShapes, TokenCreations, TokenGets, CloseCreate, creating
<1>2. OneCreation'
  BY DEF TokenInv, OneCreation, TokenShapes, TokenCreations, CloseCreate, creating
<1>3. OneTokenDialog'
  BY DEF TokenInv, OneTokenDialog, OneCreation, TokenShapes, TokenCreations, CloseCreate, creating
<1>4. EachIsListed'
  BY DEF TokenInv, EachIsListed, TokenToBeTold, TokenShapes, TokenCreations, TokenGets, OneCreation, OneTokenDialog, CloseCreate, creating
<1>5. QED
  BY <1>1, <1>2, <1>3, <1>4 DEF TokenInv

LEMMA SubmitCreateKeeps == ASSUME TokenInv, SubmitCreate PROVE TokenInv'
<1>1. TokenShapes'
  BY DEF TokenInv, TokenShapes, TokenCreations, TokenGets, SubmitCreate, creating, TokenAct
<1>2. OneCreation'
  BY DEF TokenInv, OneCreation, TokenShapes, TokenCreations, SubmitCreate, creating, TokenAct
<1>3. OneTokenDialog'
  BY DEF TokenInv, OneTokenDialog, OneCreation, TokenShapes, TokenCreations, SubmitCreate, creating, TokenAct
<1>4. EachIsListed'
  BY DEF TokenInv, EachIsListed, TokenToBeTold, TokenShapes, TokenCreations, TokenGets, OneCreation, OneTokenDialog, SubmitCreate, creating, TokenAct
<1>5. QED
  BY <1>1, <1>2, <1>3, <1>4 DEF TokenInv

LEMMA ServeCreateKeeps == ASSUME TokenInv, ServeCreate PROVE TokenInv'
<1>1. PICK c \in creations, d \in TokenCreations :
        /\ creations' = (creations \ {c}) \cup {d} /\ c.phase = "asked" /\ d.mount = c.mount
        /\ \/ /\ minted' = minted + 1 /\ liveTokens' = liveTokens \cup {minted + 1}
              /\ d.phase = "failed" \/ (d.phase = "ok" /\ d.id = minted + 1)
           \/ /\ d.phase = "failed" /\ minted' = minted /\ liveTokens' = liveTokens
  <2>1. PICK c \in creations :
          /\ c.phase = "asked"
          /\ \/ /\ minted' = minted + 1 /\ liveTokens' = liveTokens \cup {minted + 1}
                /\ \/ creations' = (creations \ {c}) \cup {[c EXCEPT !.phase = "ok", !.id = minted + 1]}
                   \/ creations' = (creations \ {c}) \cup {[c EXCEPT !.phase = "failed"]}
             \/ /\ creations' = (creations \ {c}) \cup {[c EXCEPT !.phase = "failed"]}
                /\ UNCHANGED <<liveTokens, minted>>
    BY DEF ServeCreate
  <2>2. c \in TokenCreations /\ minted \in Nat
    BY DEF TokenInv, TokenShapes
  <2>3. \A n \in Nat : /\ [c EXCEPT !.phase = "ok", !.id = n] \in TokenCreations
                       /\ [c EXCEPT !.phase = "failed"] \in TokenCreations
    BY <2>2 DEF TokenCreations
  <2>4. minted + 1 \in Nat
    BY <2>2
  <2>5. /\ [c EXCEPT !.phase = "ok", !.id = minted + 1] \in TokenCreations
        /\ [c EXCEPT !.phase = "failed"] \in TokenCreations
    BY <2>3, <2>4
  <2>6. QED
    BY <2>1, <2>2, <2>5 DEF TokenCreations
<1>2. UNCHANGED <<mount, tokens, createOpen, tokenLists, revealed, saved, answered, revoking,
                  exiting, handoff, tokenFocus, tokenNotes>>
  BY DEF ServeCreate
<1>3. minted' \in Nat /\ minted <= minted' /\ minted' \in {minted, minted + 1}
  BY <1>1 DEF TokenInv, TokenShapes
<1>4. TokenShapes'
  <2>1. \A n : n \in 1..minted => n \in 1..minted'
    BY <1>3 DEF TokenInv, TokenShapes
  <2>2. \A t \in liveTokens' : t \in 1..minted'
    BY <1>1, <1>3, <2>1 DEF TokenInv, TokenShapes
  <2>3. \A e \in creations' : e.mount <= mount /\ (e.phase = "ok" => e.id \in 1..minted')
    BY <1>1, <1>3, <2>1 DEF TokenInv, TokenShapes
  <2>4. creations' \subseteq TokenCreations
    BY <1>1 DEF TokenInv, TokenShapes
  <2>5. revoking.target <= minted'
    BY <1>3 DEF TokenInv, TokenShapes
  <2>6. QED
    BY <1>2, <1>3, <2>1, <2>2, <2>3, <2>4, <2>5 DEF TokenInv, TokenShapes
<1>5. OneCreation'
  BY <1>1, <1>2 DEF TokenInv, OneCreation
<1>6. OneTokenDialog'
  BY <1>2 DEF TokenInv, OneTokenDialog
<1>7. EachIsListed'
  <2>1. \A t : TokenToBeTold(t) => TokenToBeTold(t)'
    BY <1>1 DEF TokenToBeTold
  <2>2. \A t \in liveTokens' : t \in liveTokens \/ TokenToBeTold(t)'
    BY <1>1 DEF TokenToBeTold
  <2>3. QED
    BY <1>2, <2>1, <2>2 DEF TokenInv, EachIsListed
<1>8. QED
  BY <1>4, <1>5, <1>6, <1>7 DEF TokenInv

LEMMA OnCreateKeeps == ASSUME TokenInv, OnCreate PROVE TokenInv'
<1>1. PICK c \in creations :
        /\ c.phase # "asked" /\ creations' = creations \ {c}
        /\ IF c.phase = "ok" THEN RevealToken(c) ELSE CreateFailed(c)
  BY DEF OnCreate
<1>2. UNCHANGED <<liveTokens, minted, mount, saved, revoking>>
  BY DEF OnCreate
<1>3. c \in TokenCreations /\ c.mount <= mount /\ (c.phase = "ok" => c.id \in 1..minted)
  BY DEF TokenInv, TokenShapes
<1>4. \A g \in Crossed(tokenLists) :
        g \in TokenGets /\ g.crossed = TRUE /\ \E h \in tokenLists : g.mount = h.mount /\ g.data = h.data
  <2>1. \A h \in TokenGets : LET g == [h EXCEPT !.crossed = TRUE]
                             IN  g \in TokenGets /\ g.crossed = TRUE /\ g.mount = h.mount /\ g.data = h.data
    BY DEF TokenGets
  <2>2. tokenLists \in SUBSET TokenGets
    BY DEF TokenInv, TokenShapes
  <2>3. \A g \in Crossed(tokenLists) : \E h \in tokenLists : g = [h EXCEPT !.crossed = TRUE]
    BY Zenon DEF Crossed
  <2>4. SUFFICES ASSUME NEW g \in Crossed(tokenLists)
                 PROVE  g \in TokenGets /\ g.crossed = TRUE /\ \E h \in tokenLists : g.mount = h.mount /\ g.data = h.data
    OBVIOUS
  <2>5. PICK h \in tokenLists : g = [h EXCEPT !.crossed = TRUE]
    BY <2>3
  <2>6. g \in TokenGets /\ g.crossed = TRUE /\ g.mount = h.mount /\ g.data = h.data
    BY <2>1, <2>2, <2>5
  <2>7. QED
    BY <2>6
<1>5. TokenGet(c.mount) \in TokenGets /\ TokenGet(c.mount).phase = "asked"
      /\ TokenGet(c.mount).mount = c.mount /\ TokenGet(c.mount).data = {}
  BY <1>3 DEF TokenGet, TokenGets, TokenCreations
<1>6. Crossed(tokenLists) \subseteq tokenLists' /\ tokenLists' \subseteq Crossed(tokenLists) \cup {TokenGet(c.mount)}
  BY <1>1 DEF RevealToken, CreateFailed
<1>7. TokenShapes'
  <2>1. tokenLists' \subseteq TokenGets
        /\ \A g \in tokenLists' : g.mount <= mount /\ \A t \in g.data : t \in 1..minted
    BY <1>3, <1>4, <1>5, <1>6 DEF TokenInv, TokenShapes
  <2>2. /\ tokens' \subseteq tokens \cup {c.id} /\ (tokens' # tokens => c.phase = "ok")
        /\ answered' \subseteq answered \cup {c.id} /\ (answered' # answered => c.phase = "ok")
        /\ createOpen' \in BOOLEAN /\ handoff' \in BOOLEAN
    BY <1>1 DEF RevealToken, CreateFailed, TokenInv, TokenShapes
  <2>3. creations' \subseteq TokenCreations
        /\ \A e \in creations' : e.mount <= mount /\ (e.phase = "ok" => e.id \in 1..minted)
    BY <1>1 DEF TokenInv, TokenShapes
  <2>4. 0 \notin answered' /\ \A t \in tokens' : t \in 1..minted
    BY <1>3, <2>2 DEF TokenInv, TokenShapes
  <2>5. QED
    BY <1>2, <2>1, <2>2, <2>3, <2>4 DEF TokenInv, TokenShapes
<1>8. OneCreation'
  BY <1>1, <1>2, <1>3 DEF TokenInv, TokenShapes, OneCreation, RevealToken, CreateFailed
<1>9. OneTokenDialog'
  BY <1>1, <1>2, <1>3 DEF TokenInv, OneCreation, OneTokenDialog, RevealToken, CreateFailed
<1>10. EachIsListed'
  <2> SUFFICES ASSUME tokenNotes' = {} PROVE EachIsListed'
    BY DEF EachIsListed
  <2>1. tokenNotes = {} /\ c.mount = mount /\ creations = {c}
    BY <1>1, <1>2 DEF RevealToken, CreateFailed, TokenInv, OneCreation
  <2>2. createOpen /\ revoking.phase = "closed"
    BY <2>1 DEF TokenInv, OneCreation, OneTokenDialog
  <2>3. \A t \in liveTokens : t \in tokens' \/ \E g \in tokenLists' : g.mount = mount
    <3>1. CASE c.phase = "ok"
      <4>1. tokens' = tokens \cup {c.id} /\ tokenLists' = Crossed(tokenLists)
        BY <1>1, <2>1, <3>1 DEF RevealToken
      <4>2. \A t : TokenToBeTold(t) => t = c.id
        BY <2>1, <3>1 DEF TokenToBeTold
      <4>3. \A h \in tokenLists : \E g \in tokenLists' : g.mount = h.mount
        <5>1. \A h \in TokenGets : [h EXCEPT !.crossed = TRUE].mount = h.mount
          BY DEF TokenGets
        <5>2. QED
          BY <4>1, <5>1 DEF Crossed, TokenInv, TokenShapes
      <4>4. QED
        BY <2>1, <4>1, <4>2, <4>3 DEF TokenInv, EachIsListed
    <3>2. CASE c.phase # "ok"
      <4>1. TokenGet(c.mount) \in tokenLists'
        BY <1>1, <3>2 DEF CreateFailed
      <4>2. QED
        BY <1>5, <2>1, <4>1
    <3>3. QED
      BY <3>1, <3>2
  <2>4. \A g \in tokenLists' : g.phase = "asked" \/ g.crossed
    BY <1>4, <1>5, <1>6
  <2>5. QED
    BY <1>2, <2>2, <2>3, <2>4 DEF EachIsListed
<1>11. QED
  BY <1>7, <1>8, <1>9, <1>10 DEF TokenInv

LEMMA RevealClosedKeeps == ASSUME TokenInv, RevealClosed PROVE TokenInv'
<1>1. TokenShapes'
  BY DEF TokenInv, TokenShapes, TokenCreations, TokenGets, RevealClosed
<1>2. OneCreation'
  BY DEF TokenInv, OneCreation, TokenShapes, TokenCreations, RevealClosed
<1>3. OneTokenDialog'
  BY DEF TokenInv, OneTokenDialog, OneCreation, TokenShapes, TokenCreations, RevealClosed
<1>4. EachIsListed'
  BY DEF TokenInv, EachIsListed, TokenToBeTold, TokenShapes, TokenCreations, TokenGets, OneCreation, OneTokenDialog, RevealClosed
<1>5. QED
  BY <1>1, <1>2, <1>3, <1>4 DEF TokenInv

LEMMA OpenRevokeKeeps == ASSUME TokenInv, OpenRevoke PROVE TokenInv'
<1>1. PICK t \in tokens \cup {0} : revoking' = [target |-> t, phase |-> "open"]
  BY DEF OpenRevoke
<1>2. /\ UNCHANGED <<liveTokens, minted, mount, tokens, createOpen, creations, tokenLists, revealed,
                     saved, answered, exiting, handoff, tokenNotes>>
      /\ revealed = 0 /\ ~createOpen
  BY DEF OpenRevoke, SectionUsable
<1>3. t \in Int /\ t <= minted
  BY DEF TokenInv, TokenShapes
<1>4. TokenShapes'
  BY <1>1, <1>2, <1>3 DEF TokenInv, TokenShapes
<1>5. OneCreation' /\ OneTokenDialog'
  BY <1>2 DEF TokenInv, OneCreation, OneTokenDialog
<1>6. EachIsListed'
  <2>1. revoking'.phase = "open"
    BY <1>1
  <2>2. QED
    BY <1>2, <2>1 DEF TokenInv, EachIsListed, TokenToBeTold
<1>7. QED
  BY <1>4, <1>5, <1>6 DEF TokenInv

LEMMA CancelRevokeKeeps == ASSUME TokenInv, CancelRevoke PROVE TokenInv'
<1>1. TokenShapes'
  BY DEF TokenInv, TokenShapes, TokenCreations, TokenGets, CancelRevoke, NoRevoke
<1>2. OneCreation'
  BY DEF TokenInv, OneCreation, TokenShapes, TokenCreations, CancelRevoke, NoRevoke
<1>3. OneTokenDialog'
  BY DEF TokenInv, OneTokenDialog, OneCreation, TokenShapes, TokenCreations, CancelRevoke, NoRevoke
<1>4. EachIsListed'
  BY DEF TokenInv, EachIsListed, TokenToBeTold, TokenShapes, TokenCreations, TokenGets, OneCreation, OneTokenDialog, CancelRevoke, NoRevoke
<1>5. QED
  BY <1>1, <1>2, <1>3, <1>4 DEF TokenInv

LEMMA ConfirmRevokeKeeps == ASSUME TokenInv, ConfirmRevoke PROVE TokenInv'
<1>1. TokenShapes'
  BY DEF TokenInv, TokenShapes, TokenCreations, TokenGets, ConfirmRevoke, TokenAct
<1>2. OneCreation'
  BY DEF TokenInv, OneCreation, TokenShapes, TokenCreations, ConfirmRevoke, TokenAct
<1>3. OneTokenDialog'
  BY DEF TokenInv, OneTokenDialog, OneCreation, TokenShapes, TokenCreations, ConfirmRevoke, TokenAct
<1>4. EachIsListed'
  BY DEF TokenInv, EachIsListed, TokenToBeTold, TokenShapes, TokenCreations, TokenGets, OneCreation, OneTokenDialog, ConfirmRevoke, TokenAct
<1>5. QED
  BY <1>1, <1>2, <1>3, <1>4 DEF TokenInv

LEMMA ServeRevokeKeeps == ASSUME TokenInv, ServeRevoke PROVE TokenInv'
<1>1. TokenShapes'
  BY DEF TokenInv, TokenShapes, TokenCreations, TokenGets, ServeRevoke, TokenFault, Revoked
<1>2. OneCreation'
  BY DEF TokenInv, OneCreation, TokenShapes, TokenCreations, ServeRevoke, TokenFault, Revoked
<1>3. OneTokenDialog'
  BY DEF TokenInv, OneTokenDialog, OneCreation, TokenShapes, TokenCreations, ServeRevoke, TokenFault, Revoked
<1>4. EachIsListed'
  BY DEF TokenInv, EachIsListed, TokenToBeTold, TokenShapes, TokenCreations, TokenGets, OneCreation, OneTokenDialog, ServeRevoke, TokenFault, Revoked
<1>5. QED
  BY <1>1, <1>2, <1>3, <1>4 DEF TokenInv

LEMMA OnConfirmRevokeKeeps == ASSUME TokenInv, OnConfirmRevoke PROVE TokenInv'
<1>1. TokenShapes'
  BY DEF TokenInv, TokenShapes, TokenCreations, TokenGets, OnConfirmRevoke, NoRevoke
<1>2. OneCreation'
  BY DEF TokenInv, OneCreation, TokenShapes, TokenCreations, OnConfirmRevoke, NoRevoke
<1>3. OneTokenDialog'
  BY DEF TokenInv, OneTokenDialog, OneCreation, TokenShapes, TokenCreations, OnConfirmRevoke, NoRevoke
<1>4. EachIsListed'
  BY DEF TokenInv, EachIsListed, TokenToBeTold, TokenShapes, TokenCreations, TokenGets, OneCreation, OneTokenDialog, OnConfirmRevoke, NoRevoke
<1>5. QED
  BY <1>1, <1>2, <1>3, <1>4 DEF TokenInv

LEMMA CreateExitedKeeps == ASSUME TokenInv, CreateExited PROVE TokenInv'
<1>1. TokenShapes'
  BY DEF TokenInv, TokenShapes, TokenCreations, TokenGets, CreateExited
<1>2. OneCreation'
  BY DEF TokenInv, OneCreation, TokenShapes, TokenCreations, CreateExited
<1>3. OneTokenDialog'
  BY DEF TokenInv, OneTokenDialog, OneCreation, TokenShapes, TokenCreations, CreateExited
<1>4. EachIsListed'
  BY DEF TokenInv, EachIsListed, TokenToBeTold, TokenShapes, TokenCreations, TokenGets, OneCreation, OneTokenDialog, CreateExited
<1>5. QED
  BY <1>1, <1>2, <1>3, <1>4 DEF TokenInv

LEMMA RevokeExitedKeeps == ASSUME TokenInv, RevokeExited PROVE TokenInv'
<1>1. TokenShapes'
  BY DEF TokenInv, TokenShapes, TokenCreations, TokenGets, RevokeExited
<1>2. OneCreation'
  BY DEF TokenInv, OneCreation, TokenShapes, TokenCreations, RevokeExited
<1>3. OneTokenDialog'
  BY DEF TokenInv, OneTokenDialog, OneCreation, TokenShapes, TokenCreations, RevokeExited
<1>4. EachIsListed'
  BY DEF TokenInv, EachIsListed, TokenToBeTold, TokenShapes, TokenCreations, TokenGets, OneCreation, OneTokenDialog, RevokeExited
<1>5. QED
  BY <1>1, <1>2, <1>3, <1>4 DEF TokenInv

LEMMA RevealExitedKeeps == ASSUME TokenInv, RevealExited PROVE TokenInv'
<1>1. TokenShapes'
  BY DEF TokenInv, TokenShapes, TokenCreations, TokenGets, RevealExited
<1>2. OneCreation'
  BY DEF TokenInv, OneCreation, TokenShapes, TokenCreations, RevealExited
<1>3. OneTokenDialog'
  BY DEF TokenInv, OneTokenDialog, OneCreation, TokenShapes, TokenCreations, RevealExited
<1>4. EachIsListed'
  BY DEF TokenInv, EachIsListed, TokenToBeTold, TokenShapes, TokenCreations, TokenGets, OneCreation, OneTokenDialog, RevealExited
<1>5. QED
  BY <1>1, <1>2, <1>3, <1>4 DEF TokenInv

LEMMA RotateKeeps == ASSUME TokenInv, Rotate PROVE TokenInv'
<1> DEFINE g == TokenGet(mount + 1)
<1>1. /\ mount' = mount + 1 /\ tokens' = {} /\ createOpen' = FALSE
      /\ tokenLists' = tokenLists \cup {g} /\ revoking' = NoRevoke /\ handoff' = FALSE
      /\ exiting' = exiting \cap {"reveal"}
      /\ tokenFocus' = IF tokenFocus = "reveal" THEN "reveal" ELSE "body"
      /\ UNCHANGED <<liveTokens, minted, creations, revealed, saved, answered>>
      /\ tokenNotes \subseteq tokenNotes' /\ ("rotated" \in tokenNotes' \/ tokenNotes' = tokenNotes)
  BY DEF Rotate
<1>2. mount \in Nat /\ minted \in Nat
  BY DEF TokenInv, TokenShapes
<1>3. g \in TokenGets /\ g.mount = mount + 1 /\ g.phase = "asked" /\ g.data = {}
  BY <1>2 DEF TokenGet, TokenGets
<1>4. revoking' \in [target : Int, phase : {"closed", "open", "asked", "ok", "failed"}]
      /\ revoking'.target = -1 /\ revoking'.phase = "closed"
  BY <1>1 DEF NoRevoke
<1> HIDE DEF g
<1>5. \A h \in tokenLists : h.mount \in Nat /\ h.mount <= mount /\ h.mount # mount + 1
  BY <1>2 DEF TokenInv, TokenShapes, TokenGets
<1>6. \A c \in creations : c.mount \in Nat /\ c.mount <= mount /\ c.mount # mount + 1
  BY <1>2 DEF TokenInv, TokenShapes, TokenCreations
<1>7. TokenShapes'
  <2>1. tokenLists' \subseteq TokenGets
        /\ \A h \in tokenLists' : h.mount <= mount' /\ \A t \in h.data : t \in 1..minted
    BY <1>1, <1>2, <1>3, <1>5 DEF TokenInv, TokenShapes
  <2>2. \A c \in creations : c.mount <= mount' /\ (c.phase = "ok" => c.id \in 1..minted)
    BY <1>1, <1>2, <1>6 DEF TokenInv, TokenShapes
  <2>3. revoking'.target <= minted
    BY <1>2, <1>4
  <2>4. /\ mount' \in Nat /\ minted' \in Nat /\ createOpen' \in BOOLEAN /\ handoff' \in BOOLEAN
        /\ 0 \notin answered' /\ creations' \subseteq TokenCreations
        /\ \A t \in liveTokens' \cup tokens' : t \in 1..minted'
    <3>1. /\ createOpen' \in BOOLEAN /\ handoff' \in BOOLEAN
          /\ 0 \notin answered' /\ creations' \subseteq TokenCreations
      BY <1>1 DEF TokenInv, TokenShapes
    <3>2. mount' \in Nat /\ minted' \in Nat
      BY <1>1, <1>2
    <3>3. \A t \in liveTokens : t \in 1..minted
      BY DEF TokenInv, TokenShapes
    <3>4. QED
      BY <1>1, <3>1, <3>2, <3>3
  <2>5. QED
    BY <1>1, <1>4, <2>1, <2>2, <2>3, <2>4 DEF TokenShapes
<1>8. OneCreation'
  BY <1>1, <1>6 DEF TokenInv, OneCreation
<1>9. OneTokenDialog'
  BY <1>1, <1>4 DEF TokenInv, OneTokenDialog
<1>10. EachIsListed'
  BY <1>1, <1>3, <1>4, <1>5 DEF TokenInv, EachIsListed, TokenToBeTold
<1>11. QED
  BY <1>7, <1>8, <1>9, <1>10 DEF TokenInv

LEMMA TokenStarts == TokenInit => TokenInv
<1> SUFFICES ASSUME TokenInit PROVE TokenInv
  OBVIOUS
<1>1. TokenGet(1) \in TokenGets /\ TokenGet(1).mount = 1 /\ TokenGet(1).data = {}
      /\ TokenGet(1).phase = "asked"
  BY DEF TokenGet, TokenGets
<1>2. NoRevoke \in [target : Int, phase : {"closed", "open", "asked", "ok", "failed"}]
      /\ NoRevoke.phase = "closed" /\ NoRevoke.target = -1
  BY DEF NoRevoke
<1>3. TokenShapes
  <2>1. /\ minted = 1 /\ mount = 1 /\ liveTokens = {1} /\ tokens = {} /\ creations = {}
        /\ tokenLists = {TokenGet(1)} /\ revoking = NoRevoke /\ createOpen = FALSE
        /\ handoff = FALSE /\ answered = {1}
    BY DEF TokenInit
  <2> HIDE DEF TokenInit
  <2>2. tokenLists \subseteq TokenGets
        /\ \A g \in tokenLists : g.mount <= mount /\ \A t \in g.data : t \in 1..minted
    BY <1>1, <2>1
  <2>3. /\ revoking \in [target : Int, phase : {"closed", "open", "asked", "ok", "failed"}]
        /\ revoking.target <= minted
    BY <1>2, <2>1
  <2>4. minted \in Nat /\ mount \in Nat /\ \A t \in liveTokens \cup tokens : t \in 1..minted
    BY <2>1
  <2>5. createOpen \in BOOLEAN /\ handoff \in BOOLEAN
    BY <2>1
  <2>6. 0 \notin answered /\ creations = {}
    BY <2>1
  <2>7. QED
    BY <2>2, <2>3, <2>4, <2>5, <2>6 DEF TokenShapes
<1>4. OneCreation /\ OneTokenDialog
  BY DEF TokenInit, OneCreation, OneTokenDialog
<1>5. EachIsListed
  BY <1>1, <1>2 DEF TokenInit, EachIsListed
<1>6. QED
  BY <1>3, <1>4, <1>5 DEF TokenInv

LEMMA TokenStep == TokenInv /\ [TokenNext]_tokenVars => TokenInv'
<1> SUFFICES ASSUME TokenInv, [TokenNext]_tokenVars PROVE TokenInv'
  OBVIOUS
<1>1. CASE UNCHANGED tokenVars
  BY <1>1 DEF tokenVars, TokenInv, TokenShapes, OneCreation, OneTokenDialog, EachIsListed, TokenToBeTold
<1>2. QED
  BY <1>1, ServeTokenListKeeps, FetchTokensKeeps, OpenCreateKeeps, CloseCreateKeeps,
     SubmitCreateKeeps, ServeCreateKeeps, OnCreateKeeps, RevealClosedKeeps, OpenRevokeKeeps,
     CancelRevokeKeeps, ConfirmRevokeKeeps, ServeRevokeKeeps, OnConfirmRevokeKeeps,
     CreateExitedKeeps, RevokeExitedKeeps, RevealExitedKeeps, RotateKeeps DEF TokenNext

LEMMA TokenInvHolds ==
  TokenInv => TokenShownUntilSaved /\ LiveTokensListed /\ RevealKeepsFocus
<1> SUFFICES ASSUME TokenInv PROVE TokenShownUntilSaved /\ LiveTokensListed /\ RevealKeepsFocus
  OBVIOUS
<1>1. TokenShownUntilSaved
  BY DEF TokenInv, OneCreation, TokenShownUntilSaved
<1>2. LiveTokensListed
  BY DEF TokenInv, EachIsListed, TokenToBeTold, LiveTokensListed
<1>3. RevealKeepsFocus
  BY DEF TokenInv, OneTokenDialog, RevealKeepsFocus
<1>4. QED
  BY <1>1, <1>2, <1>3

\* A plaintext stays on screen until it is saved, with the focus, and with nothing under way
\* every token that works is listed (the tokens section of Settings.tsx).
THEOREM TokensHold == TokenSpec => []((TokenShownUntilSaved /\ LiveTokensListed /\ RevealKeepsFocus))
<1>1. TokenInit => TokenInv
  BY TokenStarts
<1>2. TokenInv /\ [TokenNext]_tokenVars => TokenInv'
  BY TokenStep
<1>3. TokenInv => (TokenShownUntilSaved /\ LiveTokensListed /\ RevealKeepsFocus)
  BY TokenInvHolds
<1>4. QED
  BY <1>1, <1>2, <1>3, PTL DEF TokenSpec

\* The tokens are of their type: the tokens created and those asked for are within the bound.
TokensAsked == {c \in creations : c.phase = "asked"}

TokenBounds ==
  /\ IsFiniteSet(creations) /\ minted \in 1..MaxTokens /\ minted + Cardinality(TokensAsked) <= MaxTokens
  /\ revealed \in 0..minted /\ exiting \subseteq {"create", "revoke", "reveal"} /\ revoking.target >= -1

LEMMA TokenBoundsKept == ASSUME TokenInv, TokenBounds, [TokenNext]_tokenVars PROVE TokenBounds'
<1>1. /\ creations \subseteq TokenCreations /\ MaxTokens \in Nat \ {0} /\ minted \in Nat
      /\ revoking \in [target : Int, phase : {"closed", "open", "asked", "ok", "failed"}]
      /\ revoking.target <= minted /\ \A t \in tokens : t \in 1..minted
  BY TokenAssumption DEF TokenInv, TokenShapes
<1>2. NoRevoke.target = -1
  BY DEF NoRevoke
<1>3. IsFiniteSet(TokensAsked) /\ Cardinality(TokensAsked) \in Nat /\ Cardinality(creations) \in Nat
      /\ Cardinality(TokensAsked) <= Cardinality(creations)
  <2>1. TokensAsked \subseteq creations
    BY DEF TokensAsked
  <2>2. QED
    BY <2>1, FS_Subset, FS_CardinalityType DEF TokenBounds
<1>4. ASSUME IsFiniteSet(creations'), TokensAsked' \subseteq TokensAsked, minted' = minted
      PROVE  /\ minted' \in 1..MaxTokens /\ minted' + Cardinality(TokensAsked') <= MaxTokens
  <2>1. Cardinality(TokensAsked') <= Cardinality(TokensAsked) /\ Cardinality(TokensAsked') \in Nat
    BY <1>3, <1>4, FS_Subset, FS_CardinalityType
  <2>2. QED
    BY <1>1, <1>3, <1>4, <2>1 DEF TokenBounds
<1>5. ASSUME UNCHANGED <<creations, minted>>, revealed' \in {0, revealed},
             exiting' \subseteq exiting \cup {"create", "revoke", "reveal"},
             revoking'.target \in {-1, revoking.target} \cup {0} \cup tokens
      PROVE  TokenBounds'
  <2>1. TokensAsked' = TokensAsked
    BY <1>5 DEF TokensAsked
  <2>2. QED
    BY <1>1, <1>4, <1>5, <2>1 DEF TokenBounds
<1>6. CASE ServeTokenList \/ FetchTokens \/ OpenCreate \/ CloseCreate \/ RevealClosed
  BY <1>5, <1>6 DEF ServeTokenList, FetchTokens, OpenCreate, CloseCreate, RevealClosed
<1>7. CASE OpenRevoke
  <2>1. PICK t \in tokens \cup {0} : revoking' = [target |-> t, phase |-> "open"]
    BY <1>7 DEF OpenRevoke
  <2>2. revoking'.target = t
    BY <2>1
  <2>3. QED
    BY <1>5, <1>7, <2>2 DEF OpenRevoke
<1>8. CASE CancelRevoke \/ ConfirmRevoke \/ ServeRevoke \/ OnConfirmRevoke
  <2>1. revoking' = NoRevoke \/ \E ph \in {"asked", "ok", "failed", "open"} : revoking' = [revoking EXCEPT !.phase = ph]
    BY <1>8 DEF CancelRevoke, ConfirmRevoke, ServeRevoke, OnConfirmRevoke
  <2>2. revoking'.target \in {-1, revoking.target}
    BY <1>1, <1>2, <2>1
  <2>3. /\ UNCHANGED <<creations, minted, revealed>>
        /\ exiting' \subseteq exiting \cup {"create", "revoke", "reveal"}
    BY <1>8 DEF CancelRevoke, ConfirmRevoke, ServeRevoke, OnConfirmRevoke
  <2>4. QED
    BY <1>5, <2>2, <2>3
<1>9. CASE CreateExited \/ RevokeExited \/ RevealExited
  BY <1>5, <1>9 DEF CreateExited, RevokeExited, RevealExited
<1>10. CASE Rotate
  <2>1. revoking'.target = -1
    BY <1>2, <1>10 DEF Rotate
  <2>2. QED
    BY <1>5, <1>10, <2>1 DEF Rotate
<1>11. CASE SubmitCreate
  <2> DEFINE h == [mount |-> mount, phase |-> "asked", id |-> 0]
  <2>1. /\ creations' = creations \cup {h} /\ minted + Cardinality(creations) < MaxTokens
        /\ UNCHANGED <<minted, revealed, exiting, revoking>>
    BY <1>11 DEF SubmitCreate
  <2>2. IsFiniteSet(creations) /\ IsFiniteSet(creations') /\ Cardinality(creations') <= Cardinality(creations) + 1
    BY <1>3, <2>1, FS_AddElement DEF TokenBounds
  <2>3. TokensAsked' \subseteq creations'
    BY DEF TokensAsked
  <2>4. /\ Cardinality(TokensAsked') \in Nat /\ Cardinality(TokensAsked') <= Cardinality(creations')
        /\ Cardinality(creations') \in Nat
    BY <2>2, <2>3, FS_Subset, FS_CardinalityType
  <2>5. QED
    BY <1>1, <1>3, <2>1, <2>2, <2>4 DEF TokenBounds
<1>12. CASE ServeCreate
  <2>1. PICK c \in creations :
          /\ c.phase = "asked" /\ minted' \in {minted, minted + 1}
          /\ \/ creations' = (creations \ {c}) \cup {[c EXCEPT !.phase = "ok", !.id = minted + 1]}
             \/ creations' = (creations \ {c}) \cup {[c EXCEPT !.phase = "failed"]}
          /\ UNCHANGED <<revealed, exiting, revoking>>
    BY <1>12 DEF ServeCreate
  <2>2. /\ c \in TokensAsked /\ [c EXCEPT !.phase = "ok", !.id = minted + 1].phase = "ok"
        /\ [c EXCEPT !.phase = "failed"].phase = "failed"
    BY <1>1, <2>1 DEF TokensAsked, TokenCreations
  <2>3. TokensAsked' \subseteq TokensAsked \ {c}
    BY <2>1, <2>2 DEF TokensAsked
  <2>4. IsFiniteSet(TokensAsked \ {c}) /\ Cardinality(TokensAsked \ {c}) = Cardinality(TokensAsked) - 1
    BY <1>3, <2>2, FS_RemoveElement
  <2>5. Cardinality(TokensAsked') \in Nat /\ Cardinality(TokensAsked') <= Cardinality(TokensAsked) - 1
    BY <2>3, <2>4, FS_Subset, FS_CardinalityType
  <2>6. IsFiniteSet(creations')
    <3>1. IsFiniteSet(creations \ {c})
      BY FS_Subset DEF TokenBounds
    <3>2. \A x : IsFiniteSet((creations \ {c}) \cup {x})
      BY <3>1, FS_AddElement
    <3>3. QED
      BY <2>1, <3>2
  <2>7. QED
    BY <1>1, <1>3, <2>1, <2>5, <2>6 DEF TokenBounds
<1>13. CASE OnCreate
  <2>1. PICK c \in creations :
          /\ c.phase # "asked" /\ creations' = creations \ {c}
          /\ IF c.phase = "ok" THEN RevealToken(c) ELSE CreateFailed(c)
    BY <1>13 DEF OnCreate
  <2>2. UNCHANGED <<minted, revoking>>
    BY <1>13 DEF OnCreate
  <2>3. revealed' \in 0..minted /\ exiting' \subseteq exiting \cup {"create"}
    <3>1. c.phase = "ok" => c.id \in 1..minted
      BY DEF TokenInv, TokenShapes
    <3>2. CASE c.phase = "ok"
      BY <1>1, <2>1, <3>1, <3>2 DEF RevealToken
    <3>3. CASE c.phase # "ok"
      BY <2>1, <3>3 DEF CreateFailed, TokenBounds
    <3>4. QED
      BY <3>2, <3>3
  <2>4. TokensAsked' \subseteq TokensAsked
    BY <2>1 DEF TokensAsked
  <2>5. IsFiniteSet(creations')
    BY <2>1, FS_Subset DEF TokenBounds
  <2>6. QED
    BY <1>4, <2>2, <2>3, <2>4, <2>5 DEF TokenBounds
<1>14. CASE UNCHANGED tokenVars
  BY <1>5, <1>14 DEF tokenVars
<1>15. QED
  BY <1>6, <1>7, <1>8, <1>9, <1>10, <1>11, <1>12, <1>13, <1>14 DEF TokenNext

LEMMA TokensTyped == TokenSpec => []TokenTypeOK
<1>1. TokenInit => TokenInv /\ TokenBounds
  <2> SUFFICES ASSUME TokenInit PROVE TokenInv /\ TokenBounds
    OBVIOUS
  <2>1. /\ minted = 1 /\ creations = {} /\ revealed = 0 /\ exiting = {} /\ revoking.target = -1
    BY DEF TokenInit, NoRevoke
  <2>2. TokensAsked = {}
    BY <2>1 DEF TokensAsked
  <2>3. IsFiniteSet({}) /\ Cardinality({}) = 0
    BY FS_EmptySet
  <2>4. TokenBounds
    BY <2>1, <2>2, <2>3, TokenAssumption DEF TokenBounds
  <2>5. QED
    BY <2>4, TokenStarts
<1>2. TokenInv /\ TokenBounds /\ [TokenNext]_tokenVars => TokenInv' /\ TokenBounds'
  BY TokenStep, TokenBoundsKept
<1>3. TokenInv /\ TokenBounds => TokenTypeOK
  <2> SUFFICES ASSUME TokenInv, TokenBounds PROVE TokenTypeOK
    OBVIOUS
  <2>1. /\ \A t \in liveTokens \cup tokens : t \in 1..minted
        /\ revoking.target <= minted /\ revoking.target \in Int
    BY DEF TokenInv, TokenShapes
  <2>2. QED
    BY <2>1, TokenAssumption DEF TokenBounds, TokenTypeOK, TokenIds
<1>4. QED
  BY <1>1, <1>2, <1>3, PTL DEF TokenSpec

(***************************************************************************)
(* The notification settings (Notifications): the endpoints the server holds *)
(* and the switch of the device; the preferences asked for and those shown. *)
(***************************************************************************)
NotifySpec == NotifyInit /\ [][NotifyNext]_notifyVars

PushTasks == [kind : {"none", "enable", "disable"},
              at : {"done", "subscribe", "register", "unregister"}, endpoint : Nat]

PushShapes ==
  /\ subscription \in Nat /\ reconcile \in Nat /\ rotation \in Nat /\ endpoints \in Nat
  /\ registered \subseteq Nat \ {0} /\ subscribed \in BOOLEAN /\ pushTask \in PushTasks
  /\ pushTask.kind = "none" <=> pushTask.at = "done"
  /\ pushTask.kind = "enable" <=> pushTask.at \in {"subscribe", "register"}
  /\ pushTask.kind = "disable" <=> pushTask.at = "unregister"
  /\ pushTask.at = "register" => pushTask.endpoint # 0
  /\ permission \in {"default", "granted", "denied"}
  /\ subscription # 0 \/ pushTask.kind # "none" => permission = "granted"

\* Unless two of them overlapped, whatever is under way is about the endpoint the browser has,
\* or, for a removal, about the one it had.
PushInPlace ==
  "overlap" \notin pushNotes =>
    /\ reconcile \in {0, subscription} /\ rotation \in {0, subscription}
    /\ pushTask.at = "register" => pushTask.endpoint = subscription
    /\ pushTask.kind = "enable" => ~subscribed
    /\ pushTask.kind = "disable" => subscription = 0

\* A device whose switch is on has an endpoint that the server holds, or is being told.
OnIsReached ==
  subscribed /\ pushTask.kind = "none" /\ pushNotes \cap {"failed", "dropped", "overlap"} = {} =>
    subscription # 0 /\ (subscription \in registered \/ subscription \in {reconcile, rotation})

\* The server holds no other endpoint, but for the one it is being told to forget.
NoneIsLeft ==
  "left" \notin pushNotes /\ "overlap" \notin pushNotes =>
    \A e \in registered : e = subscription \/ (pushTask.kind = "disable" /\ e = pushTask.endpoint)

PushInv == PushShapes /\ PushInPlace /\ OnIsReached /\ NoneIsLeft

PrefUpdates == [doc : Prefs, previous : Prefs, phase : {"asked", "ok", "failed"}]
WindowIsWhole(doc) == doc["quiet_start"] = doc["quiet_end"]

PrefsShapes ==
  /\ prefs \in Prefs /\ asked \in Prefs /\ settings \subseteq Prefs /\ updates \subseteq PrefUpdates
  /\ typedQuiet \in [QuietEnds -> BOOLEAN]
  /\ prefsLoad = "asked" => settings = {} /\ updates = {}
  /\ \A s, t \in settings : s = t

\* With nothing under way the document is what was asked for, and shown; with an update under
\* way the update is that, and the document is what was shown before or that.
OneUpdate ==
  prefsNotes = {} =>
    /\ \A u, v \in updates : u = v
    /\ WindowIsWhole(prefs) /\ WindowIsWhole(asked)
    /\ updates = {} => asked = prefs /\ settings \subseteq {prefs}
    /\ \A u \in updates :
         /\ asked = u.doc /\ settings = {u.doc} /\ WindowIsWhole(u.previous)
         /\ prefs \in {u.previous, u.doc}
         /\ u.phase = "asked" => prefs = u.previous
         /\ u.phase = "ok" => prefs = u.doc

PrefsInv == PrefsShapes /\ OneUpdate

NotifyInv == PushInv /\ PrefsInv

\* What the tasks of the switch are.
LEMMA NoTaskFields == NoTask \in PushTasks /\ NoTask.kind = "none" /\ NoTask.at = "done"
BY DEF NoTask, PushTasks

LEMMA EnablingFields ==
  LET t == [NoTask EXCEPT !.kind = "enable", !.at = "subscribe"]
  IN  t \in PushTasks /\ t.kind = "enable" /\ t.at = "subscribe"
BY DEF NoTask, PushTasks

LEMMA DisablingFields ==
  \A e \in Nat :
    LET t == [kind |-> "disable", at |-> "unregister", endpoint |-> e]
    IN  t \in PushTasks /\ t.kind = "disable" /\ t.at = "unregister" /\ t.endpoint = e
BY DEF PushTasks

LEMMA OpenNotificationsKeeps == ASSUME PushInv, OpenNotifications PROVE PushInv'
<1>1. /\ subscribed' = (subscription # 0) /\ pushTask'.kind = "none" /\ pushTask'.at = "done"
      /\ pushTask' \in PushTasks
      /\ reconcile' = IF permission = "granted" THEN subscription ELSE 0
      /\ pushNotes \subseteq pushNotes' \cup {"failed", "dropped"}
      /\ "overlap" \notin pushNotes' => pushTask.kind = "none" /\ rotation = 0 /\ reconcile = 0
      /\ UNCHANGED <<subscription, registered, permission, rotation, endpoints>>
  BY NoTaskFields DEF OpenNotifications, busy, PushInv, PushShapes
<1>2. PushShapes'
  BY <1>1 DEF PushInv, PushShapes
<1>3. PushInPlace'
  BY <1>1 DEF PushInv, PushInPlace, PushShapes
<1>4. OnIsReached'
  BY <1>1 DEF PushInv, OnIsReached, PushInPlace, PushShapes
<1>5. NoneIsLeft'
  <2> SUFFICES ASSUME "left" \notin pushNotes', "overlap" \notin pushNotes', NEW e \in registered'
               PROVE  e = subscription' \/ (pushTask'.kind = "disable" /\ e = pushTask'.endpoint)
    BY DEF NoneIsLeft
  <2>1. "left" \notin pushNotes /\ "overlap" \notin pushNotes
    BY <1>1
  <2>2. QED
    BY <1>1, <2>1 DEF PushInv, PushInPlace, PushShapes, NoneIsLeft
<1>6. QED
  BY <1>2, <1>3, <1>4, <1>5 DEF PushInv

LEMMA ReconciledKeeps == ASSUME PushInv, Reconciled PROVE PushInv'
<1>1. /\ reconcile # 0 /\ reconcile' = 0 /\ pushNotes \subseteq pushNotes'
      /\ registered' = registered \cup {reconcile} \/ (registered' = registered /\ "failed" \in pushNotes')
      /\ UNCHANGED <<subscription, permission, subscribed, pushTask, rotation, endpoints>>
  BY DEF Reconciled, busy, PushInv, PushShapes
<1>2. PushShapes'
  BY <1>1 DEF PushInv, PushShapes
<1>3. PushInPlace'
  BY <1>1 DEF PushInv, PushInPlace, PushShapes
<1>4. OnIsReached'
  BY <1>1 DEF PushInv, OnIsReached, PushInPlace, PushShapes
<1>5. NoneIsLeft'
  <2> SUFFICES ASSUME "left" \notin pushNotes', "overlap" \notin pushNotes', NEW e \in registered'
               PROVE  e = subscription' \/ (pushTask'.kind = "disable" /\ e = pushTask'.endpoint)
    BY DEF NoneIsLeft
  <2>1. "left" \notin pushNotes /\ "overlap" \notin pushNotes
    BY <1>1
  <2>2. reconcile = subscription
    BY <1>1, <2>1 DEF PushInv, PushInPlace
  <2>3. e \in registered \/ e = subscription
    BY <1>1, <2>2
  <2>4. QED
    BY <1>1, <2>1, <2>3 DEF PushInv, NoneIsLeft
<1>6. QED
  BY <1>2, <1>3, <1>4, <1>5 DEF PushInv

LEMMA EnableKeeps == ASSUME PushInv, Enable PROVE PushInv'
<1>1. /\ ~subscribed /\ pushTask.kind = "none" /\ pushTask' \in PushTasks
      /\ permission' \in {"default", "granted", "denied"} /\ (permission = "granted" => permission' = "granted")
      /\ \/ pushTask'.kind = "none" /\ pushTask'.at = "done"
         \/ pushTask'.kind = "enable" /\ pushTask'.at = "subscribe" /\ permission' = "granted"
      /\ UNCHANGED <<subscription, registered, subscribed, reconcile, rotation, endpoints, pushNotes>>
  BY NoTaskFields, EnablingFields DEF Enable, busy, PushInv, PushShapes
<1>2. PushShapes'
  BY <1>1 DEF PushInv, PushShapes
<1>3. PushInPlace'
  BY <1>1 DEF PushInv, PushInPlace, PushShapes
<1>4. OnIsReached'
  BY <1>1 DEF PushInv, OnIsReached, PushInPlace, PushShapes
<1>5. NoneIsLeft'
  <2> SUFFICES ASSUME "left" \notin pushNotes', "overlap" \notin pushNotes', NEW e \in registered'
               PROVE  e = subscription' \/ (pushTask'.kind = "disable" /\ e = pushTask'.endpoint)
    BY DEF NoneIsLeft
  <2>1. "left" \notin pushNotes /\ "overlap" \notin pushNotes
    BY <1>1
  <2>2. QED
    BY <1>1, <2>1 DEF PushInv, PushInPlace, PushShapes, NoneIsLeft
<1>6. QED
  BY <1>2, <1>3, <1>4, <1>5 DEF PushInv

LEMMA SubscribeKeeps == ASSUME PushInv, Subscribe PROVE PushInv'
<1>1. /\ pushTask.at = "subscribe" /\ pushTask' \in PushTasks
      /\ \/ /\ pushTask'.kind = pushTask.kind /\ pushTask'.at = "register"
            /\ pushTask'.endpoint = subscription' /\ subscription' \in Nat \ {0} /\ endpoints' \in Nat
            /\ subscription = 0 \/ subscription' = subscription
         \/ /\ pushTask'.kind = "none" /\ pushTask'.at = "done"
            /\ UNCHANGED <<subscription, endpoints>>
      /\ UNCHANGED <<registered, permission, subscribed, reconcile, rotation, pushNotes>>
  <2>1. pushTask \in PushTasks /\ subscription \in Nat /\ endpoints + 1 \in Nat /\ endpoints \in Nat
    BY DEF PushInv, PushShapes
  <2>2. pushTask.at = "subscribe" /\ UNCHANGED <<registered, permission, subscribed, reconcile, rotation, pushNotes>>
    BY DEF Subscribe
  <2>3. CASE /\ subscription # 0 /\ UNCHANGED <<subscription, endpoints>>
             /\ pushTask' = [pushTask EXCEPT !.at = "register", !.endpoint = subscription]
    <3>1. /\ pushTask' \in PushTasks /\ pushTask'.kind = pushTask.kind
          /\ pushTask'.at = "register" /\ pushTask'.endpoint = subscription
      BY <2>1, <2>3 DEF PushTasks
    <3>2. QED
      BY <2>1, <2>2, <2>3, <3>1
  <2>4. CASE /\ subscription = 0 /\ endpoints' = endpoints + 1 /\ subscription' = endpoints + 1
             /\ pushTask' = [pushTask EXCEPT !.at = "register", !.endpoint = endpoints + 1]
    <3>1. /\ pushTask' \in PushTasks /\ pushTask'.kind = pushTask.kind
          /\ pushTask'.at = "register" /\ pushTask'.endpoint = endpoints + 1
      BY <2>1, <2>4 DEF PushTasks
    <3>2. QED
      BY <2>1, <2>2, <2>4, <3>1
  <2>5. CASE pushTask' = NoTask /\ UNCHANGED <<subscription, endpoints>>
    BY <2>2, <2>5, NoTaskFields
  <2>6. QED
    BY <2>3, <2>4, <2>5 DEF Subscribe
<1>2. PushShapes'
  BY <1>1 DEF PushInv, PushShapes
<1>3. PushInPlace'
  BY <1>1 DEF PushInv, PushInPlace, PushShapes
<1>4. OnIsReached'
  BY <1>1 DEF PushInv, OnIsReached, PushInPlace, PushShapes
<1>5. NoneIsLeft'
  <2> SUFFICES ASSUME "left" \notin pushNotes', "overlap" \notin pushNotes', NEW e \in registered'
               PROVE  e = subscription' \/ (pushTask'.kind = "disable" /\ e = pushTask'.endpoint)
    BY DEF NoneIsLeft
  <2>1. "left" \notin pushNotes /\ "overlap" \notin pushNotes
    BY <1>1
  <2>2. QED
    BY <1>1, <2>1 DEF PushInv, PushInPlace, PushShapes, NoneIsLeft
<1>6. QED
  BY <1>2, <1>3, <1>4, <1>5 DEF PushInv

LEMMA RegisterKeeps == ASSUME PushInv, Register PROVE PushInv'
<1>1. /\ pushTask.at = "register" /\ pushTask'.kind = "none" /\ pushTask'.at = "done" /\ pushTask' \in PushTasks
      /\ registered' \in {registered, registered \cup {pushTask.endpoint}} /\ pushNotes \subseteq pushNotes'
      /\ \/ /\ pushTask.endpoint \in registered' /\ subscribed' = TRUE
            /\ pushTask.endpoint = subscription \/ "overlap" \in pushNotes'
         \/ UNCHANGED <<subscribed, pushNotes>>
      /\ UNCHANGED <<subscription, permission, reconcile, rotation, endpoints>>
  BY NoTaskFields DEF Register, busy, PushInv, PushShapes
<1>2. PushShapes'
  BY <1>1 DEF PushInv, PushShapes, PushTasks
<1>3. PushInPlace'
  BY <1>1 DEF PushInv, PushInPlace, PushShapes, PushTasks
<1>4. OnIsReached'
  BY <1>1 DEF PushInv, OnIsReached, PushInPlace, PushShapes, PushTasks
<1>5. NoneIsLeft'
  <2> SUFFICES ASSUME "left" \notin pushNotes', "overlap" \notin pushNotes', NEW e \in registered'
               PROVE  e = subscription' \/ (pushTask'.kind = "disable" /\ e = pushTask'.endpoint)
    BY DEF NoneIsLeft
  <2>1. "left" \notin pushNotes /\ "overlap" \notin pushNotes
    BY <1>1
  <2>2. pushTask.endpoint = subscription /\ pushTask.kind = "enable"
    BY <1>1, <2>1 DEF PushInv, PushShapes, PushInPlace
  <2>3. e \in registered \/ e = subscription
    BY <1>1, <2>2
  <2>4. QED
    BY <1>1, <2>1, <2>2, <2>3 DEF PushInv, NoneIsLeft
<1>6. QED
  BY <1>2, <1>3, <1>4, <1>5 DEF PushInv

LEMMA DisableKeeps == ASSUME PushInv, Disable PROVE PushInv'
<1>1. /\ subscribed /\ pushTask.kind = "none" /\ pushTask' \in PushTasks /\ pushNotes \subseteq pushNotes'
      /\ \/ subscription = 0 /\ subscribed' = FALSE /\ UNCHANGED <<subscription, pushTask>>
         \/ /\ subscription # 0 /\ subscription' = 0 /\ UNCHANGED subscribed
            /\ pushTask'.kind = "disable" /\ pushTask'.at = "unregister"
            /\ pushTask'.endpoint = subscription
      /\ "overlap" \notin pushNotes' => reconcile = 0 /\ rotation = 0
      /\ UNCHANGED <<registered, permission, reconcile, rotation, endpoints>>
  <2>1. pushTask \in PushTasks /\ subscription \in Nat
    BY DEF PushInv, PushShapes
  <2>2. /\ subscribed /\ pushTask.kind = "none" /\ pushNotes \subseteq pushNotes'
        /\ "overlap" \notin pushNotes' => reconcile = 0 /\ rotation = 0
        /\ UNCHANGED <<registered, permission, reconcile, rotation, endpoints>>
    BY DEF Disable, busy
  <2>3. CASE subscription = 0 /\ subscribed' = FALSE /\ UNCHANGED <<subscription, pushTask>>
    BY <2>1, <2>2, <2>3
  <2>4. CASE /\ subscription # 0 /\ subscription' = 0 /\ UNCHANGED subscribed
             /\ pushTask' = [kind |-> "disable", at |-> "unregister", endpoint |-> subscription]
    BY <2>1, <2>2, <2>4, DisablingFields
  <2>5. QED
    BY <2>3, <2>4 DEF Disable
<1>2. PushShapes'
  <2>1. UNCHANGED <<registered, permission, reconcile, rotation, endpoints>> /\ pushTask' \in PushTasks
    BY <1>1
  <2>2. CASE UNCHANGED <<subscription, pushTask>> /\ subscribed' = FALSE
    BY <2>1, <2>2 DEF PushInv, PushShapes
  <2>3. CASE /\ pushTask'.kind = "disable" /\ pushTask'.at = "unregister" /\ subscription' = 0
             /\ subscription # 0 /\ subscribed' = subscribed
    BY <2>1, <2>3 DEF PushInv, PushShapes
  <2>4. QED
    BY <1>1, <2>2, <2>3
<1>3. PushInPlace'
  BY <1>1 DEF PushInv, PushInPlace, PushShapes
<1>4. OnIsReached'
  BY <1>1 DEF PushInv, OnIsReached, PushInPlace, PushShapes
<1>5. NoneIsLeft'
  <2> SUFFICES ASSUME "left" \notin pushNotes', "overlap" \notin pushNotes', NEW e \in registered'
               PROVE  e = subscription' \/ (pushTask'.kind = "disable" /\ e = pushTask'.endpoint)
    BY DEF NoneIsLeft
  <2>1. "left" \notin pushNotes /\ "overlap" \notin pushNotes
    BY <1>1
  <2>2. QED
    BY <1>1, <2>1 DEF PushInv, PushInPlace, PushShapes, NoneIsLeft
<1>6. QED
  BY <1>2, <1>3, <1>4, <1>5 DEF PushInv

LEMMA UnregisterKeeps == ASSUME PushInv, Unregister PROVE PushInv'
<1>1. /\ pushTask.at = "unregister" /\ pushTask'.kind = "none" /\ pushTask'.at = "done" /\ pushTask' \in PushTasks
      /\ \/ /\ registered' = registered \ {pushTask.endpoint} /\ subscribed' = FALSE /\ UNCHANGED pushNotes
         \/ /\ registered' \in {registered, registered \ {pushTask.endpoint}} /\ UNCHANGED subscribed
            /\ pushNotes' = pushNotes \cup {"failed", "left"}
      /\ UNCHANGED <<subscription, permission, reconcile, rotation, endpoints>>
  BY NoTaskFields DEF Unregister, busy, PushInv, PushShapes
<1>2. PushShapes'
  BY <1>1 DEF PushInv, PushShapes, PushTasks
<1>3. PushInPlace'
  BY <1>1 DEF PushInv, PushInPlace, PushShapes, PushTasks
<1>4. OnIsReached'
  BY <1>1 DEF PushInv, OnIsReached, PushInPlace, PushShapes, PushTasks
<1>5. NoneIsLeft'
  <2> SUFFICES ASSUME "left" \notin pushNotes', "overlap" \notin pushNotes', NEW e \in registered'
               PROVE  e = subscription' \/ (pushTask'.kind = "disable" /\ e = pushTask'.endpoint)
    BY DEF NoneIsLeft
  <2>1. "left" \notin pushNotes /\ "overlap" \notin pushNotes
    BY <1>1
  <2>2. QED
    BY <1>1, <2>1 DEF PushInv, PushInPlace, PushShapes, NoneIsLeft
<1>6. QED
  BY <1>2, <1>3, <1>4, <1>5 DEF PushInv

LEMMA PushSubscriptionChangeKeeps == ASSUME PushInv, PushSubscriptionChange PROVE PushInv'
<1>1. /\ subscription # 0 /\ rotation = 0
      /\ \/ subscription' = endpoints + 1 /\ rotation' = endpoints + 1 /\ endpoints' = endpoints + 1
         \/ subscription' = 0 /\ rotation' = 0 /\ endpoints' = endpoints /\ "dropped" \in pushNotes'
      /\ "left" \in pushNotes' /\ pushNotes \subseteq pushNotes'
      /\ "overlap" \notin pushNotes' => pushTask.kind = "none" /\ reconcile = 0
      /\ UNCHANGED <<registered, permission, subscribed, pushTask, reconcile>>
  BY NoTaskFields DEF PushSubscriptionChange, busy, PushInv, PushShapes
<1>2. PushShapes'
  BY <1>1 DEF PushInv, PushShapes
<1>3. PushInPlace'
  BY <1>1 DEF PushInv, PushInPlace, PushShapes
<1>4. OnIsReached'
  BY <1>1 DEF PushInv, OnIsReached, PushInPlace, PushShapes
<1>5. NoneIsLeft'
  <2> SUFFICES ASSUME "left" \notin pushNotes', "overlap" \notin pushNotes', NEW e \in registered'
               PROVE  e = subscription' \/ (pushTask'.kind = "disable" /\ e = pushTask'.endpoint)
    BY DEF NoneIsLeft
  <2>1. "left" \notin pushNotes /\ "overlap" \notin pushNotes
    BY <1>1
  <2>2. QED
    BY <1>1, <2>1 DEF PushInv, PushInPlace, PushShapes, NoneIsLeft
<1>6. QED
  BY <1>2, <1>3, <1>4, <1>5 DEF PushInv

LEMMA RotationRegisteredKeeps == ASSUME PushInv, RotationRegistered PROVE PushInv'
<1>1. /\ rotation # 0 /\ rotation' = 0 /\ pushNotes \subseteq pushNotes'
      /\ registered' = registered \cup {rotation} \/ (registered' = registered /\ "failed" \in pushNotes')
      /\ UNCHANGED <<subscription, permission, subscribed, pushTask, reconcile, endpoints>>
  BY DEF RotationRegistered, busy, PushInv, PushShapes
<1>2. PushShapes'
  BY <1>1 DEF PushInv, PushShapes
<1>3. PushInPlace'
  BY <1>1 DEF PushInv, PushInPlace, PushShapes
<1>4. OnIsReached'
  BY <1>1 DEF PushInv, OnIsReached, PushInPlace, PushShapes
<1>5. NoneIsLeft'
  <2> SUFFICES ASSUME "left" \notin pushNotes', "overlap" \notin pushNotes', NEW e \in registered'
               PROVE  e = subscription' \/ (pushTask'.kind = "disable" /\ e = pushTask'.endpoint)
    BY DEF NoneIsLeft
  <2>1. "left" \notin pushNotes /\ "overlap" \notin pushNotes
    BY <1>1
  <2>2. rotation = subscription
    BY <1>1, <2>1 DEF PushInv, PushInPlace
  <2>3. e \in registered \/ e = subscription
    BY <1>1, <2>2
  <2>4. QED
    BY <1>1, <2>1, <2>3 DEF PushInv, NoneIsLeft
<1>6. QED
  BY <1>2, <1>3, <1>4, <1>5 DEF PushInv

\* A change is shown, and sent, as the document shown with the changed fields.
LEMMA UpdateKeeps ==
  ASSUME PrefsInv, NEW partial, DOMAIN partial \subseteq Toggles \cup QuietEnds,
         \A p \in DOMAIN partial : partial[p] \in BOOLEAN,
         \/ DOMAIN partial \cap QuietEnds = {}
         \/ QuietEnds \subseteq DOMAIN partial /\ partial["quiet_start"] = partial["quiet_end"],
         Update(partial), UNCHANGED <<prefs, prefsLoad, typedQuiet>>
  PROVE  PrefsInv'
<1> DEFINE With(doc) == [p \in DOMAIN doc |-> IF p \in DOMAIN partial THEN partial[p] ELSE doc[p]]
<1>1. PICK previous0 \in settings :
        /\ settings' = {With(previous0)} /\ asked' = With(asked)
        /\ updates' = updates \cup {[doc |-> With(previous0), previous |-> previous0, phase |-> "asked"]}
        /\ prefsNotes' = IF updates = {} THEN prefsNotes ELSE prefsNotes \cup {"overlap"}
  BY DEF Update
<1>2. \A doc \in Prefs : With(doc) \in Prefs
  BY DEF Prefs
<1>3. \A doc \in Prefs : WindowIsWhole(doc) => WindowIsWhole(With(doc))
  BY DEF Prefs, QuietEnds, WindowIsWhole
<1> HIDE DEF With
<1>4. previous0 \in Prefs /\ With(previous0) \in Prefs /\ asked' \in Prefs
  BY <1>1, <1>2 DEF PrefsInv, PrefsShapes
<1> DEFINE u == [doc |-> With(previous0), previous |-> previous0, phase |-> "asked"]
<1>5. u \in PrefUpdates /\ u.doc = With(previous0) /\ u.previous = previous0 /\ u.phase = "asked"
  BY <1>4 DEF PrefUpdates
<1> HIDE DEF u
<1>6. updates' = updates \cup {u}
  BY <1>1 DEF u
<1>7. PrefsShapes'
  BY <1>1, <1>4, <1>5, <1>6 DEF PrefsInv, PrefsShapes
<1>8. OneUpdate'
  <2> SUFFICES ASSUME prefsNotes' = {} PROVE OneUpdate'
    BY DEF OneUpdate
  <2>1. updates = {} /\ prefsNotes = {} /\ updates' = {u}
    BY <1>1, <1>6
  <2>2. asked = prefs /\ previous0 = prefs /\ WindowIsWhole(prefs)
    BY <1>1, <2>1 DEF PrefsInv, OneUpdate
  <2>3. WindowIsWhole(With(previous0)) /\ asked' = With(previous0)
    BY <1>1, <1>3, <1>4, <2>2
  <2>4. QED
    BY <1>1, <1>5, <2>1, <2>2, <2>3 DEF OneUpdate, WindowIsWhole
<1>9. QED
  BY <1>7, <1>8 DEF PrefsInv

LEMMA LoadPrefsKeeps == ASSUME PrefsInv, LoadPrefs PROVE PrefsInv'
<1>1. QuietOf(prefs) \in [QuietEnds -> BOOLEAN]
  BY DEF QuietOf, PrefsInv, PrefsShapes, Prefs
<1>2. PrefsShapes'
  BY <1>1 DEF PrefsInv, PrefsShapes, LoadPrefs
<1>3. OneUpdate'
  BY DEF PrefsInv, PrefsShapes, OneUpdate, WindowIsWhole, LoadPrefs
<1>4. QED
  BY <1>2, <1>3 DEF PrefsInv

LEMMA HandleTypeToggleKeeps == ASSUME PrefsInv, HandleTypeToggle PROVE PrefsInv'
<1>1. PICK shown0 \in settings, t \in Toggles : Update([p \in {t} |-> ~shown0[p]])
  BY DEF HandleTypeToggle
<1> DEFINE partial == [p \in {t} |-> ~shown0[p]]
<1>2. /\ DOMAIN partial \subseteq Toggles \cup QuietEnds /\ DOMAIN partial \cap QuietEnds = {}
      /\ \A p \in DOMAIN partial : partial[p] \in BOOLEAN
  BY TogglesAssumption
<1>3. Update(partial) /\ UNCHANGED <<prefs, prefsLoad, typedQuiet>>
  BY <1>1 DEF HandleTypeToggle
<1> HIDE DEF partial
<1>4. QED
  BY <1>2, <1>3, UpdateKeeps

LEMMA HandleQuietWindowKeeps == ASSUME PrefsInv, HandleQuietWindow PROVE PrefsInv'
<1>1. DOMAIN typedQuiet = QuietEnds /\ \A q \in QuietEnds : typedQuiet[q] \in BOOLEAN
  BY DEF PrefsInv, PrefsShapes
<1>2. typedQuiet["quiet_start"] = typedQuiet["quiet_end"] /\ Update(typedQuiet)
      /\ UNCHANGED <<prefs, prefsLoad, typedQuiet>>
  BY DEF HandleQuietWindow
<1>3. QED
  BY <1>1, <1>2, UpdateKeeps

LEMMA TypeQuietKeeps == ASSUME PrefsInv, TypeQuiet PROVE PrefsInv'
<1>1. typedQuiet' \in [QuietEnds -> BOOLEAN]
  BY DEF TypeQuiet, PrefsInv, PrefsShapes
<1>2. UNCHANGED <<prefs, asked, settings, prefsLoad, updates, prefsNotes>>
  BY DEF TypeQuiet
<1>3. QED
  BY <1>1, <1>2 DEF PrefsInv, PrefsShapes, OneUpdate, WindowIsWhole

LEMMA ServeUpdateKeeps == ASSUME PrefsInv, ServeUpdate PROVE PrefsInv'
<1>1. PICK u \in updates :
        /\ u.phase = "asked"
        /\ \/ prefs' = u.doc /\ updates' = (updates \ {u}) \cup {[u EXCEPT !.phase = "ok"]}
           \/ prefs' \in {prefs, u.doc} /\ updates' = (updates \ {u}) \cup {[u EXCEPT !.phase = "failed"]}
  BY DEF ServeUpdate
<1>2. UNCHANGED <<asked, settings, typedQuiet, prefsLoad, prefsNotes>>
  BY DEF ServeUpdate
<1>3. u \in PrefUpdates
  BY DEF PrefsInv, PrefsShapes
<1>4. PICK v \in PrefUpdates :
        /\ v.doc = u.doc /\ v.previous = u.previous /\ updates' = (updates \ {u}) \cup {v}
        /\ (v.phase = "ok" /\ prefs' = u.doc) \/ (v.phase = "failed" /\ prefs' \in {prefs, u.doc})
  <2>1. \A ph \in {"ok", "failed"} :
          LET w == [u EXCEPT !.phase = ph]
          IN  w \in PrefUpdates /\ w.doc = u.doc /\ w.previous = u.previous /\ w.phase = ph
    BY <1>3 DEF PrefUpdates
  <2>2. QED
    BY <1>1, <2>1
<1>5. PrefsShapes'
  BY <1>2, <1>3, <1>4 DEF PrefsInv, PrefsShapes, PrefUpdates
<1>6. OneUpdate'
  BY <1>1, <1>2, <1>4 DEF PrefsInv, OneUpdate, WindowIsWhole
<1>7. QED
  BY <1>5, <1>6 DEF PrefsInv

LEMMA UpdateAnsweredKeeps == ASSUME PrefsInv, UpdateAnswered PROVE PrefsInv'
<1> DEFINE Now(u) == IF u.phase = "ok" THEN u.doc ELSE u.previous
<1>1. PICK u \in updates :
        /\ u.phase # "asked" /\ updates' = updates \ {u} /\ settings' = {Now(u)}
        /\ typedQuiet' = [q \in QuietEnds |->
             IF \E s \in settings : s[q] = Now(u)[q] THEN typedQuiet[q] ELSE Now(u)[q]]
        /\ asked' = IF u.phase = "ok" THEN asked ELSE u.previous
        /\ prefsNotes' = IF u.phase = "failed" /\ prefs = u.doc
                         THEN prefsNotes \cup {"lost"} ELSE prefsNotes
        /\ UNCHANGED <<prefs, prefsLoad>>
  BY DEF UpdateAnswered
<1>2. u \in PrefUpdates /\ u.phase \in {"ok", "failed"} /\ Now(u) \in Prefs /\ u.previous \in Prefs
  BY <1>1 DEF PrefsInv, PrefsShapes, PrefUpdates
<1>3. typedQuiet' \in [QuietEnds -> BOOLEAN]
  BY <1>1, <1>2 DEF PrefsInv, PrefsShapes, Prefs
<1>4. PrefsShapes'
  BY <1>1, <1>2, <1>3 DEF PrefsInv, PrefsShapes
<1>5. OneUpdate'
  BY <1>1, <1>2 DEF PrefsInv, OneUpdate, WindowIsWhole
<1>6. QED
  BY <1>4, <1>5 DEF PrefsInv

LEMMA NotifyStarts == ASSUME NotifyInit PROVE NotifyInv
<1>1. PushInv
  <2>1. pushTask \in PushTasks /\ pushTask.kind = "none" /\ pushTask.at = "done"
    BY NoTaskFields DEF NotifyInit
  <2>2. QED
    BY <2>1 DEF NotifyInit, PushInv, PushShapes, PushInPlace, OnIsReached, NoneIsLeft
<1>2. AllOff \in Prefs /\ WindowIsWhole(AllOff) /\ QuietOf(AllOff) \in [QuietEnds -> BOOLEAN]
  BY DEF AllOff, Prefs, WindowIsWhole, QuietOf, QuietEnds
<1>3. PrefsInv
  BY <1>2 DEF NotifyInit, PrefsInv, PrefsShapes, OneUpdate, WindowIsWhole
<1>4. QED
  BY <1>1, <1>3 DEF NotifyInv

LEMMA NotifyStep == ASSUME NotifyInv, [NotifyNext]_notifyVars PROVE NotifyInv'
<1>1. ASSUME UNCHANGED pushVars, PushInv PROVE PushInv'
  BY <1>1 DEF pushVars, PushInv, PushShapes, PushInPlace, OnIsReached, NoneIsLeft
<1>2. ASSUME PushOnly, PrefsInv PROVE PrefsInv'
  BY <1>2 DEF PushOnly, PrefsInv, PrefsShapes, OneUpdate, WindowIsWhole
<1>3. PushInv /\ PrefsInv
  BY DEF NotifyInv
<1>4. CASE LoadPrefs \/ HandleTypeToggle \/ TypeQuiet \/ HandleQuietWindow \/ ServeUpdate \/ UpdateAnswered
  <2>1. UNCHANGED pushVars
    BY <1>4 DEF LoadPrefs, HandleTypeToggle, TypeQuiet, HandleQuietWindow, ServeUpdate,
                UpdateAnswered, pushVars
  <2>2. PrefsInv'
    BY <1>3, <1>4, LoadPrefsKeeps, HandleTypeToggleKeeps, TypeQuietKeeps, HandleQuietWindowKeeps,
       ServeUpdateKeeps, UpdateAnsweredKeeps
  <2>3. QED
    BY <1>1, <1>3, <2>1, <2>2 DEF NotifyInv
<1>5. CASE \/ OpenNotifications \/ Reconciled \/ Enable \/ Subscribe \/ Register \/ Disable \/ Unregister
           \/ PushSubscriptionChange \/ RotationRegistered
  <2>1. PushOnly
    BY <1>5 DEF OpenNotifications, Reconciled, Enable, Subscribe, Register, Disable, Unregister,
                PushSubscriptionChange, RotationRegistered
  <2>2. PushInv'
    BY <1>3, <1>5, OpenNotificationsKeeps, ReconciledKeeps, EnableKeeps, SubscribeKeeps, RegisterKeeps,
       DisableKeeps, UnregisterKeeps, PushSubscriptionChangeKeeps, RotationRegisteredKeeps
  <2>3. QED
    BY <1>2, <1>3, <2>1, <2>2 DEF NotifyInv
<1>6. CASE UNCHANGED notifyVars
  <2>1. UNCHANGED pushVars /\ PushOnly
    BY <1>6 DEF notifyVars, pushVars, PushOnly
  <2>2. QED
    BY <1>1, <1>2, <1>3, <2>1 DEF NotifyInv
<1>7. QED
  BY <1>4, <1>5, <1>6 DEF NotifyNext

LEMMA NotifyInvHolds == NotifyInv => PushIsRegistered /\ PushIsGone /\ PrefsAreAsAsked
<1> SUFFICES ASSUME NotifyInv PROVE PushIsRegistered /\ PushIsGone /\ PrefsAreAsAsked
  OBVIOUS
<1>1. PushIsRegistered
  BY DEF NotifyInv, PushInv, PushShapes, OnIsReached, PushIsRegistered, busy
<1>2. PushIsGone
  BY DEF NotifyInv, PushInv, NoneIsLeft, PushIsGone, busy
<1>3. PrefsAreAsAsked
  BY DEF NotifyInv, PrefsInv, OneUpdate, WindowIsWhole, PrefsAreAsAsked
<1>4. QED
  BY <1>1, <1>2, <1>3

\* A device whose switch is on can be reached, one whose switch is off leaves no endpoint, and
\* the preferences are those asked for, with the exceptions the three properties name (useWebPush.ts, useNotificationPrefs.ts, sw.ts).
THEOREM NotificationsHold == NotifySpec => []((PushIsRegistered /\ PushIsGone /\ PrefsAreAsAsked))
<1>1. NotifyInit => NotifyInv
  BY NotifyStarts
<1>2. NotifyInv /\ [NotifyNext]_notifyVars => NotifyInv'
  BY NotifyStep
<1>3. NotifyInv => (PushIsRegistered /\ PushIsGone /\ PrefsAreAsAsked)
  BY NotifyInvHolds
<1>4. QED
  BY <1>1, <1>2, <1>3, PTL DEF NotifySpec

\* The notification settings are of their type: every endpoint they know was given out.
EndpointsGiven ==
  /\ endpoints \in 0..MaxEndpoints /\ \A e \in registered : e \in 1..endpoints
  /\ subscription \in 0..endpoints /\ reconcile \in 0..endpoints /\ rotation \in 0..endpoints
  /\ pushTask.endpoint \in 0..endpoints

LEMMA EndpointsGivenKept == ASSUME NotifyInv, EndpointsGiven, [NotifyNext]_notifyVars PROVE EndpointsGiven'
<1>1. /\ endpoints \in Nat /\ MaxEndpoints \in Nat /\ registered \subseteq Nat \ {0} /\ pushTask \in PushTasks
      /\ subscription \in Nat /\ reconcile \in Nat /\ rotation \in Nat
      /\ (pushTask.at = "register" => pushTask.endpoint # 0) /\ NoTask.endpoint = 0
  BY NotifyAssumption DEF NotifyInv, PushInv, PushShapes, NoTask
<1>2. ASSUME UNCHANGED pushVars PROVE EndpointsGiven'
  BY <1>2 DEF EndpointsGiven, pushVars
<1>3. CASE LoadPrefs \/ HandleTypeToggle \/ TypeQuiet \/ HandleQuietWindow \/ ServeUpdate \/ UpdateAnswered
  BY <1>2, <1>3 DEF LoadPrefs, HandleTypeToggle, TypeQuiet, HandleQuietWindow, ServeUpdate, UpdateAnswered
<1>4. CASE OpenNotifications
  BY <1>1, <1>4 DEF OpenNotifications, EndpointsGiven
<1>5. CASE Reconciled \/ RotationRegistered
  <2>1. ASSUME Reconciled PROVE EndpointsGiven'
    <3>1. /\ registered' \subseteq registered \cup {reconcile} /\ reconcile # 0 /\ reconcile' = 0
          /\ UNCHANGED <<subscription, pushTask, rotation, endpoints>>
      BY <2>1 DEF Reconciled
    <3>2. QED
      BY <1>1, <3>1 DEF EndpointsGiven
  <2>2. ASSUME RotationRegistered PROVE EndpointsGiven'
    <3>1. /\ registered' \subseteq registered \cup {rotation} /\ rotation # 0 /\ rotation' = 0
          /\ UNCHANGED <<subscription, pushTask, reconcile, endpoints>>
      BY <2>2 DEF RotationRegistered
    <3>2. QED
      BY <1>1, <3>1 DEF EndpointsGiven
  <2>3. QED
    BY <1>5, <2>1, <2>2
<1>6. CASE Enable
  <2>1. pushTask'.endpoint = 0
    BY <1>6 DEF Enable, NoTask
  <2>2. QED
    BY <1>1, <1>6, <2>1 DEF Enable, EndpointsGiven
<1>7. CASE Subscribe
  <2>1. CASE UNCHANGED <<subscription, endpoints>> /\ pushTask' = NoTask
    BY <1>1, <1>7, <2>1 DEF Subscribe, EndpointsGiven
  <2>2. CASE UNCHANGED <<subscription, endpoints>>
             /\ pushTask' = [pushTask EXCEPT !.at = "register", !.endpoint = subscription]
    <3>1. pushTask'.endpoint = subscription
      BY <1>1, <2>2 DEF PushTasks
    <3>2. QED
      BY <1>1, <1>7, <2>2, <3>1 DEF Subscribe, EndpointsGiven
  <2>3. CASE /\ endpoints < MaxEndpoints /\ endpoints' = endpoints + 1 /\ subscription' = endpoints'
             /\ pushTask' = [pushTask EXCEPT !.at = "register", !.endpoint = endpoints']
    <3>1. pushTask'.endpoint = endpoints + 1
      BY <1>1, <2>3 DEF PushTasks
    <3>2. registered' = registered /\ reconcile' = reconcile /\ rotation' = rotation
      BY <1>7 DEF Subscribe
    <3>3. QED
      BY <1>1, <2>3, <3>1, <3>2 DEF EndpointsGiven
  <2>4. QED
    BY <1>7, <2>1, <2>2, <2>3 DEF Subscribe
<1>8. CASE Register
  <2>1. registered' \subseteq registered \cup {pushTask.endpoint} /\ pushTask.at = "register" /\ pushTask'.endpoint = 0
        /\ UNCHANGED <<subscription, reconcile, rotation, endpoints>>
    BY <1>8 DEF Register, NoTask
  <2>2. QED
    BY <1>1, <2>1 DEF EndpointsGiven
<1>9. CASE Disable
  <2>1. UNCHANGED <<registered, reconcile, rotation, endpoints>>
    BY <1>9 DEF Disable
  <2>2. CASE UNCHANGED <<subscription, pushTask>>
    BY <2>1, <2>2 DEF EndpointsGiven
  <2>3. CASE /\ subscription' = 0
             /\ pushTask' = [kind |-> "disable", at |-> "unregister", endpoint |-> subscription]
    <3>1. pushTask'.endpoint = subscription
      BY <2>3
    <3>2. QED
      BY <1>1, <2>1, <2>3, <3>1 DEF EndpointsGiven
  <2>4. QED
    BY <1>9, <2>2, <2>3 DEF Disable
<1>10. CASE Unregister
  <2>1. registered' \subseteq registered /\ pushTask'.endpoint = 0
        /\ UNCHANGED <<subscription, reconcile, rotation, endpoints>>
    BY <1>10 DEF Unregister, NoTask
  <2>2. QED
    BY <1>1, <2>1 DEF EndpointsGiven
<1>11. CASE PushSubscriptionChange
  <2>1. UNCHANGED <<registered, pushTask, reconcile>>
    BY <1>11 DEF PushSubscriptionChange
  <2>2. CASE /\ endpoints < MaxEndpoints /\ endpoints' = endpoints + 1 /\ subscription' = endpoints'
             /\ rotation' = endpoints'
    BY <1>1, <2>1, <2>2 DEF EndpointsGiven
  <2>3. CASE subscription' = 0 /\ UNCHANGED <<rotation, endpoints>>
    BY <1>1, <2>1, <2>3 DEF EndpointsGiven
  <2>4. QED
    BY <1>11, <2>2, <2>3 DEF PushSubscriptionChange
<1>12. CASE UNCHANGED notifyVars
  BY <1>2, <1>12 DEF notifyVars, pushVars
<1>13. QED
  BY <1>3, <1>4, <1>5, <1>6, <1>7, <1>8, <1>9, <1>10, <1>11, <1>12 DEF NotifyNext

LEMMA NotificationsTyped == NotifySpec => []NotifyTypeOK
<1>1. NotifyInit => NotifyInv /\ EndpointsGiven
  <2>1. NotifyInit => NotifyInv
    BY NotifyStarts
  <2>2. NotifyInit => EndpointsGiven
    BY NotifyAssumption DEF NotifyInit, EndpointsGiven, NoTask
  <2>3. QED
    BY <2>1, <2>2
<1>2. NotifyInv /\ EndpointsGiven /\ [NotifyNext]_notifyVars => NotifyInv' /\ EndpointsGiven'
  BY NotifyStep, EndpointsGivenKept
<1>3. NotifyInv /\ EndpointsGiven => NotifyTypeOK
  <2> SUFFICES ASSUME NotifyInv, EndpointsGiven PROVE NotifyTypeOK
    OBVIOUS
  <2>1. {prefs, asked} \subseteq Prefs /\ settings \subseteq Prefs
    BY DEF NotifyInv, PrefsInv, PrefsShapes
  <2>2. permission \in {"default", "granted", "denied"} /\ subscribed \in BOOLEAN
    BY DEF NotifyInv, PushInv, PushShapes
  <2>3. registered \subseteq Endpoints /\ {subscription, reconcile, rotation} \subseteq {0} \cup Endpoints
    BY NotifyAssumption DEF EndpointsGiven, Endpoints
  <2>4. QED
    BY <2>1, <2>2, <2>3 DEF NotifyTypeOK
<1>4. QED
  BY <1>1, <1>2, <1>3, PTL DEF NotifySpec

(***************************************************************************)
(* The household.                                                          *)
(***************************************************************************)
\* A part of the household behaves as its own module specifies it.
LEMMA EachIsPart ==
  HouseholdSpec =>
    /\ ListSpec /\ CategorySpec /\ RateSpec /\ UserSpec /\ TokenSpec /\ NotifySpec
    /\ BackupSpec /\ MigrationSpec /\ AlertSpec /\ LimiterSpec
<1>1. HouseholdInit =>
        /\ ListInit /\ CategoriesInit /\ RateInit /\ UserInit /\ TokenInit /\ NotifyInit
        /\ BackupInit /\ MigrationInit /\ AlertInit /\ RateLimitInit
  BY DEF HouseholdInit
<1>2. [HouseholdNext]_householdVars => [ListNext]_listVars
  BY DEF HouseholdNext, householdVars
<1>3. [HouseholdNext]_householdVars => [CategoriesNext]_categoryVars
  BY DEF HouseholdNext, householdVars
<1>4. [HouseholdNext]_householdVars => [RateNext]_rateVars
  BY DEF HouseholdNext, householdVars
<1>5. [HouseholdNext]_householdVars => [UserNext]_userVars
  BY DEF HouseholdNext, householdVars
<1>6. [HouseholdNext]_householdVars => [TokenNext]_tokenVars
  BY DEF HouseholdNext, householdVars
<1>7. [HouseholdNext]_householdVars => [NotifyNext]_notifyVars
  BY DEF HouseholdNext, householdVars
<1>8. [HouseholdNext]_householdVars => [BackupNext]_backupVars
  BY DEF HouseholdNext, householdVars
<1>9. [HouseholdNext]_householdVars => [MigrationNext]_migrationVars
  BY DEF HouseholdNext, householdVars
<1>10. [HouseholdNext]_householdVars => [AlertNext]_alertVars
  BY DEF HouseholdNext, householdVars
<1>11. [HouseholdNext]_householdVars => [RateLimitNext]_rateLimitVars
  BY DEF HouseholdNext, householdVars
<1>12. QED
  BY <1>1, <1>2, <1>3, <1>4, <1>5, <1>6, <1>7, <1>8, <1>9, <1>10, <1>11,
     PTL DEF HouseholdSpec, ListSpec, CategorySpec, RateSpec, UserSpec, TokenSpec, NotifySpec, BackupSpec,
             MigrationSpec, AlertSpec, LimiterSpec

\* In a household of any size, a write by filter goes out with the filter of the rows on screen
\* when it was confirmed (bulk delete, edit and rename in Transactions.tsx).
THEOREM FilterWritesReachTheShown == HouseholdSpec => []FilterWriteIsWhatWasShown
BY EachIsPart, ListsHold, PTL

\* In a household of any size, a list with nothing under way is the server's, but for a load
\* that failed and a notice that overtook an answer on its way (the query cache and the
\* notices of other members' changes).
THEOREM ListsCatchUp == HouseholdSpec => []ListCatchesUp
BY EachIsPart, ListsHold, PTL

\* A token's plaintext stays on screen until the user says it is saved (onCreateToken).
THEOREM PlaintextStays == HouseholdSpec => []TokenShownUntilSaved
BY EachIsPart, TokensHold, PTL

\* The sections of the settings show what the server holds, for any number of categories,
\* currencies, accounts, tokens and toggles, and any number of acts, unless a list failed, an
\* answer was lost, or lists or updates overlapped, as each section's property says.
THEOREM SectionsShowTheTruth == HouseholdSpec => []ShownIsTrue
<1>1. CategoriesShownAreTrue /\ RatesSavedAsShown /\ RatesShownAreTrue /\ UsersShownAreTrue
      /\ LiveTokensListed /\ PrefsAreAsAsked => ShownIsTrue
  BY DEF ShownIsTrue
<1>2. QED
  BY <1>1, EachIsPart, CategoriesHold, RatesHold, UsersHold, TokensHold, NotificationsHold, PTL

\* Keyboard focus is not lost when the settings' dialogs close or hand over, but for lists that
\* are emptied or read out of order, rows gone under a dialog, lost answers and rotations that
\* answer to a section that is gone (focusRowTrigger, focusAfterConfirmClose,
\* focusAfterManageClose, the reveal of a token).
THEOREM FocusIsNeverLost == HouseholdSpec => []FocusIsKept
<1>1. CategoryFocusKept /\ UserFocusKept /\ RevealKeepsFocus => FocusIsKept
  BY DEF FocusIsKept
<1>2. QED
  BY <1>1, EachIsPart, CategoriesHold, UsersHold, TokensHold, PTL

\* The endpoints the server holds follow the switches, for any number of endpoints and
\* rotations, but for requests that failed, endpoints replaced or dropped, and tasks that
\* overlapped (useWebPush.ts, sw.ts).
THEOREM PushFollows == HouseholdSpec => []PushFollowsTheSwitch
<1>1. PushIsRegistered /\ PushIsGone => PushFollowsTheSwitch
  BY DEF PushFollowsTheSwitch
<1>2. QED
  BY <1>1, EachIsPart, NotificationsHold, PTL

\* The household's backups are safe as those of Backups are (internal/backup: tick, prune).
THEOREM HouseholdIsBackedUp == HouseholdSpec => []BackupsHold
BY EachIsPart, BackupsAreSafe, PTL

\* The household's upgrades can be undone as those of MigrationSnapshots can (RunMigrations).
THEOREM HouseholdCanGoBack == HouseholdSpec => []UpgradeCanBeUndone
BY EachIsPart, UpgradesCanBeUndone, PTL

\* In a household of any size a crossing of a budget is told once, but for the exceptions
\* AlertOnce names (evaluateBudgetAlerts).
THEOREM HouseholdIsToldOnce == HouseholdSpec => []AlertOnce
BY EachIsPart, CrossingsAreToldOnce, PTL

\* However many requests sign in at once, no window holds more failures than the limit and those
\* past the gate, and a refused request is told when it is let in, too early only where requests
\* that overlap had taken the log above the limit (Consume, Exhausted, RetryAfter).
THEOREM SignInsAreLimited == HouseholdSpec => []RateLimitHolds
BY EachIsPart, LimiterHolds, PTL

\* Every part of the household stays of its type, and within its bounds: no page the query cache
\* holds has more rows than a page has (Transactions.tsx), what is selected or can be undone are
\* rows, focus stands on a row or button the section has, tokens, endpoints and pushes are ones
\* given out, and the backup scheduler has one snapshot of its status at most.
THEOREM HouseholdTyped == HouseholdSpec => []HouseholdTypeOK
<1>1. HouseholdInit => part \in Parts
  BY DEF HouseholdInit
<1>2. part \in Parts /\ [HouseholdNext]_householdVars => (part \in Parts)'
  BY DEF HouseholdNext, householdVars
<1>3. /\ ListTypeOK /\ CategoriesTypeOK /\ RateTypeOK /\ UserTypeOK /\ TokenTypeOK /\ NotifyTypeOK
      /\ BackupTypeOK /\ MigrationTypeOK /\ RateLimitTypeOK /\ AlertTypeOK
      /\ part \in Parts
      => HouseholdTypeOK
  BY DEF HouseholdTypeOK
<1>4. HouseholdSpec => [](part \in Parts)
  BY <1>1, <1>2, PTL DEF HouseholdSpec
<1>5. QED
  BY <1>3, <1>4, EachIsPart, ListTyped, CategoriesTyped, RatesTyped, UsersTyped, TokensTyped, NotificationsTyped,
     BackupsTyped, MigrationTyped, LimiterHolds, AlertsTyped, PTL
=============================================================================
