------------------------------ MODULE TrashPage ------------------------------
(***************************************************************************)
(* The trash: a paginated list fetched by hand (no query cache, no live    *)
(* updates), with restore and purge of one row, restore of a selection,    *)
(* restore all and purge all.  Every operation ends with a refetch of the  *)
(* page the handler was created on; a request carries no sequence number,  *)
(* so that the last answer to arrive is what the page shows.               *)
(***************************************************************************)
EXTENDS Integers, Sequences, FiniteSets

CONSTANTS TrashCount, TrashPerPage,
          MaxTrashActs,    \* operations and page changes, and the faults, together
          MaxTrashFaults   \* failed requests, conflicts and changes by others

TrashIds == 1..TrashCount
TrashPages == 1..((TrashCount + TrashPerPage - 1) \div TrashPerPage)

ASSUME TrashAssumption == /\ TrashCount \in Nat \ {0} /\ TrashPerPage \in Nat \ {0}
                          /\ {MaxTrashActs, MaxTrashFaults} \subseteq Nat

VARIABLES
    trash,         \* server: "trash", "live" or "gone" for each transaction
    trashRows, trashTotal, trashPage, trashSelected,
    pendingPurge,  \* the dialog: 0, a row, or -1 for the whole trash
    ops,           \* operations under way, in the order they were sent
    gets,          \* list requests under way, in the order they were sent
    trashBudget, trashNotes

trashVars == <<trash, trashRows, trashTotal, trashPage, trashSelected, pendingPurge,
               ops, gets, trashBudget, trashNotes>>

TrashWithin == trashBudget.acts + trashBudget.faults < MaxTrashActs
TrashAct   == TrashWithin /\ trashBudget' = [trashBudget EXCEPT !.acts = @ + 1]
TrashFault == /\ TrashWithin /\ trashBudget.faults < MaxTrashFaults
              /\ trashBudget' = [trashBudget EXCEPT !.faults = @ + 1]

Trashed == {t \in TrashIds : trash[t] = "trash"}
Without(i, s) == SubSeq(s, 1, i - 1) \o SubSeq(s, i + 1, Len(s))

\* mutant: the server ignores the page it is asked for
TrashOnAnyPage(p) == Trashed

\* ListDeletedTransactions: newest first, one page of it.
TrashOnPage(p) ==
    {t \in Trashed : Cardinality({u \in Trashed : u > t}) \div TrashPerPage = p - 1}

\* what a list request was sent after: an operation stays under way until its
\* refetch has ended
FetchAfter(p, kind, ids) ==
    [page |-> p, phase |-> "asked", rows |-> {}, total |-> 0, kind |-> kind, ids |-> ids]

FetchTrash(p) == FetchAfter(p, "none", {})

TrashInit ==
    /\ trash = [t \in TrashIds |-> "trash"]
    /\ trashRows = {} /\ trashTotal = 0 /\ trashPage = 1 /\ trashSelected = {}
    /\ pendingPurge = 0 /\ ops = <<>> /\ gets = <<FetchTrash(1)>>
    /\ trashBudget = [acts |-> 0, faults |-> 0] /\ trashNotes = {}

ServeTrash ==
    \E i \in DOMAIN gets :
        /\ gets[i].phase = "asked"
        /\ gets' = [gets EXCEPT ![i] = [@ EXCEPT !.phase = "served",
                       !.rows = TrashOnPage(gets[i].page), !.total = Cardinality(Trashed)]]
        /\ UNCHANGED <<trash, trashRows, trashTotal, trashPage, trashSelected, pendingPurge,
                       ops, trashBudget, trashNotes>>

\* mutant: an emptied last page stays on screen
StepsBackNever(get) == FALSE

\* a page that came back empty is left for the one before it
StepsBack(get) == get.rows = {} /\ get.page > 1 /\ trashPage > 1

\* The selection keeps only rows that are still listed; a page that came back
\* empty sends the reader one page back, which fetches again.
TrashAnswer ==
    \E i \in DOMAIN gets :
        LET get == gets[i]
            back == StepsBack(get)
        IN  /\ get.phase = "served"
            /\ trashRows' = get.rows /\ trashTotal' = get.total
            /\ trashSelected' = trashSelected \cap get.rows
            /\ trashPage' = IF back THEN trashPage - 1 ELSE trashPage
            /\ gets' = IF back THEN Append(Without(i, gets), FetchTrash(trashPage - 1))
                               ELSE Without(i, gets)
            /\ trashNotes' = IF i > 1 THEN trashNotes \cup {"crossed"} ELSE trashNotes
            /\ UNCHANGED <<trash, pendingPurge, ops, trashBudget>>

TrashGetFails ==
    \E i \in DOMAIN gets :
        /\ TrashFault
        /\ gets' = Without(i, gets)
        /\ trashNotes' = trashNotes \cup {"failed"}
        /\ UNCHANGED <<trash, trashRows, trashTotal, trashPage, trashSelected, pendingPurge, ops>>

ChangePage ==
    /\ TrashAct /\ pendingPurge = 0
    /\ \E p \in TrashPages \ {trashPage} :
          /\ (p - 1) * TrashPerPage < trashTotal
          /\ trashPage' = p
          /\ gets' = Append(gets, FetchTrash(p))
    /\ UNCHANGED <<trash, trashRows, trashTotal, trashSelected, pendingPurge, ops, trashNotes>>

UnderWayIn(s, kinds) == {i \in DOMAIN s : s[i].kind \in kinds}

RowBusy(t) ==
    \/ \E i \in UnderWayIn(ops, {"restore", "purge"}) : t \in ops[i].ids
    \/ \E i \in UnderWayIn(gets, {"restore", "purge"}) : t \in gets[i].ids

SelectTrash ==
    /\ pendingPurge = 0
    /\ \/ \E t \in trashRows : ~RowBusy(t) /\ trashSelected' = trashSelected \cup {t}
       \/ trashSelected # {} /\ trashSelected' = {}
    /\ UNCHANGED <<trash, trashRows, trashTotal, trashPage, pendingPurge, ops, gets, trashBudget,
                   trashNotes>>

SendOp(kind, ids) ==
    ops' = Append(ops, [kind |-> kind, ids |-> ids, page |-> trashPage, phase |-> "sent", ok |-> FALSE])

Busy(kinds) == UnderWayIn(ops, kinds) # {} \/ UnderWayIn(gets, kinds) # {}

HandleRestore ==
    /\ TrashAct /\ pendingPurge = 0
    /\ \E t \in trashRows : ~RowBusy(t) /\ SendOp("restore", {t})
    /\ UNCHANGED <<trash, trashRows, trashTotal, trashPage, trashSelected, pendingPurge, gets,
                   trashNotes>>

HandleBatchRestore ==
    /\ TrashAct /\ pendingPurge = 0 /\ trashSelected # {} /\ ~Busy({"batch"})
    /\ SendOp("batch", trashSelected)
    /\ UNCHANGED <<trash, trashRows, trashTotal, trashPage, trashSelected, pendingPurge, gets,
                   trashNotes>>

HandleRestoreAll ==
    /\ TrashAct /\ pendingPurge = 0 /\ trashRows # {} /\ ~Busy({"restoreAll", "purgeAll"})
    /\ SendOp("restoreAll", {})
    /\ UNCHANGED <<trash, trashRows, trashTotal, trashPage, trashSelected, pendingPurge, gets,
                   trashNotes>>

OpenPurge ==
    /\ TrashAct /\ pendingPurge = 0
    /\ \/ \E t \in trashRows : ~RowBusy(t) /\ pendingPurge' = t
       \/ trashRows # {} /\ ~Busy({"restoreAll", "purgeAll"}) /\ pendingPurge' = -1
    /\ UNCHANGED <<trash, trashRows, trashTotal, trashPage, trashSelected, ops, gets, trashNotes>>

PurgeKind == IF pendingPurge = -1 THEN "purgeAll" ELSE "purge"

\* The dialog stays until the purge is answered, and cannot be closed before; each of the
\* two waits for purges of its own kind alone.
ConfirmPurge ==
    /\ pendingPurge # 0 /\ ~Busy({PurgeKind})
    /\ IF pendingPurge = -1 THEN SendOp("purgeAll", {}) ELSE SendOp("purge", {pendingPurge})
    /\ UNCHANGED <<trash, trashRows, trashTotal, trashPage, trashSelected, pendingPurge, gets,
                   trashBudget, trashNotes>>

CancelPurge ==
    /\ pendingPurge # 0 /\ ~Busy({PurgeKind})
    /\ pendingPurge' = 0
    /\ UNCHANGED <<trash, trashRows, trashTotal, trashPage, trashSelected, ops, gets,
                   trashBudget, trashNotes>>

\* The server restores and purges only what is in the trash; a single row that
\* is not there is an error, and a batch skips what it cannot restore.
ServeOp ==
    \E i \in DOMAIN ops :
        LET op == ops[i]
            asked == (IF op.kind \in {"restoreAll", "purgeAll"} THEN TrashIds ELSE op.ids) \cap Trashed
            single == op.kind \in {"restore", "purge"}
            to == IF op.kind \in {"purge", "purgeAll"} THEN "gone" ELSE "live"
            Serve(done, ok) ==
                /\ trash' = [t \in TrashIds |-> IF t \in done THEN to ELSE trash[t]]
                /\ ops' = [ops EXCEPT ![i].phase = "answered", ![i].ok = ok]
        IN  /\ op.phase = "sent"
            /\ \/ Serve(asked, single => asked # {}) /\ UNCHANGED trashBudget
               \/ Serve({}, FALSE) /\ TrashFault
               \/ ~single /\ asked # {} /\ to = "live" /\ TrashFault   \* a newer copy of one exists
                  /\ \E t \in asked : Serve(asked \ {t}, TRUE)
            /\ UNCHANGED <<trashRows, trashTotal, trashPage, trashSelected, pendingPurge, gets,
                           trashNotes>>

OpAnswer ==
    \E i \in DOMAIN ops :
        LET op == ops[i]
        IN  /\ op.phase = "answered"
            /\ ops' = Without(i, ops)
            /\ IF op.ok
               THEN /\ pendingPurge' = IF op.kind \in {"purge", "purgeAll"} THEN 0 ELSE pendingPurge
                    /\ trashSelected' = IF op.kind \in {"restore", "purge"} THEN trashSelected ELSE {}
                    /\ gets' = Append(gets, FetchAfter(op.page, op.kind, op.ids))
                    /\ trashNotes' = IF op.page = trashPage THEN trashNotes
                                     ELSE trashNotes \cup {"otherPage"}
               ELSE /\ trashNotes' = trashNotes \cup {"failed"}
                    /\ UNCHANGED <<pendingPurge, trashSelected, gets>>
            /\ UNCHANGED <<trash, trashRows, trashTotal, trashPage, trashBudget>>

OthersTrash ==
    /\ TrashFault
    /\ \E t \in TrashIds : /\ trash[t] # "gone"
                           /\ trash' = [trash EXCEPT ![t] = IF @ = "trash" THEN "live" ELSE "trash"]
    /\ trashNotes' = trashNotes \cup {"others"}
    /\ UNCHANGED <<trashRows, trashTotal, trashPage, trashSelected, pendingPurge, ops, gets>>

TrashNext ==
    \/ ServeTrash \/ TrashAnswer \/ TrashGetFails \/ ChangePage \/ SelectTrash
    \/ HandleRestore \/ HandleBatchRestore \/ HandleRestoreAll
    \/ OpenPurge \/ ConfirmPurge \/ CancelPurge \/ ServeOp \/ OpAnswer \/ OthersTrash

----------------------------------------------------------------------------
TrashTypeOK ==
    /\ trash \in [TrashIds -> {"trash", "live", "gone"}]
    /\ trashRows \subseteq TrashIds /\ trashPage \in TrashPages
    /\ trashTotal \in 0..TrashCount /\ Cardinality(trashRows) <= TrashPerPage
    /\ pendingPurge \in {-1} \cup 0..TrashCount

TrashIdle == ops = <<>> /\ gets = <<>>

\* At rest the page shows what is in the trash on the page it names, and is
\* never an empty page of a trash that is not empty; unless answers arrived
\* out of order, an operation answered after the reader had left its page,
\* a request failed, or someone else used the trash.
TrashScreenIsTrue ==
    TrashIdle /\ trashNotes = {} => /\ trashRows = TrashOnPage(trashPage)
                                    /\ trashTotal = Cardinality(Trashed)
                                    /\ trashRows = {} => trashTotal = 0

\* A batch is sent for ticked rows, and a tick is only ever on a row the page
\* lists: what another page or another member took away is not restored unseen.
TicksAreOnScreen == trashSelected \subseteq trashRows
=============================================================================
