------------------------------- MODULE EntryForm -------------------------------
(***************************************************************************)
(* The entry row above the transactions: one form, one request per Add     *)
(* under a client key of its own, one toast per request that offers Retry  *)
(* while the outcome is unknown and Undo once it is saved.  What is typed  *)
(* is a number (each change of the form is a new one) and 0 the empty      *)
(* form, so two entries agree only when they are the same one; the fields  *)
(* that survive a save (date, currency, category) are left out.            *)
(***************************************************************************)
EXTENDS Integers, FiniteSets

CONSTANTS MaxTyped, MaxEntryKeys, MaxEntryActs, MaxEntryFaults

ASSUME EntryAssumption ==
    {MaxTyped, MaxEntryKeys, MaxEntryActs, MaxEntryFaults} \subseteq Nat

EntryKeys == 1..MaxEntryKeys

VARIABLES
    entry, entryDefaults,   \* the form, and what form.reset() goes back to
    sendingEntry,           \* sendingRef and isSending
    entrySends,             \* key -> its request, if one is under way
    entryOf,                \* key -> the entry it was made for (0: a key not used)
    entryToast,             \* key -> the toast with that id
    undoBuffer,             \* undoBufferRef: a key, or 0
    undos,                  \* deletes under way
    entryRows,              \* server: key -> "none", "live" or "trashed"
    typedCount, discarded,  \* what was typed so far, and what of it the user gave up
    crossed,                \* entries exposed to one of the races named in EntryKept
    resent,                 \* entries added again without knowing the first outcome
    entryBudget

entryVars == <<entry, entryDefaults, sendingEntry, entrySends, entryOf, entryToast, undoBuffer,
               undos, entryRows, typedCount, discarded, crossed, resent, entryBudget>>

EntryAct   == entryBudget.acts < MaxEntryActs /\ entryBudget' = [entryBudget EXCEPT !.acts = @ + 1]
EntryFault == /\ entryBudget.faults < MaxEntryFaults
              /\ entryBudget' = [entryBudget EXCEPT !.faults = @ + 1]

NoSend == [phase |-> "none", retry |-> FALSE]
UnderWay(e) == \E k \in EntryKeys : entryOf[k] = e /\ entrySends[k].phase # "none"
FirstUnderWay == \E k \in EntryKeys : entrySends[k].phase # "none" /\ ~entrySends[k].retry
Filled(e) == IF e = 0 THEN {} ELSE {e}

EntryInit ==
    /\ entry = 0 /\ entryDefaults = 0 /\ sendingEntry = FALSE
    /\ entrySends = [k \in EntryKeys |-> NoSend] /\ entryOf = [k \in EntryKeys |-> 0]
    /\ entryToast = [k \in EntryKeys |-> "none"] /\ undoBuffer = 0 /\ undos = {}
    /\ entryRows = [k \in EntryKeys |-> "none"]
    /\ typedCount = 0 /\ discarded = {} /\ crossed = {} /\ resent = {}
    /\ entryBudget = [acts |-> 0, faults |-> 0]

\* The fields stay editable while the entry is being sent.
TypeEntry ==
    /\ EntryAct /\ typedCount < MaxTyped
    /\ typedCount' = typedCount + 1 /\ entry' = typedCount + 1
    /\ IF FirstUnderWay
       THEN crossed' = crossed \cup Filled(entry) \cup {typedCount + 1} /\ UNCHANGED discarded
       ELSE discarded' = discarded \cup Filled(entry) /\ UNCHANGED crossed
    /\ UNCHANGED <<entryDefaults, sendingEntry, entrySends, entryOf, entryToast, undoBuffer, undos,
                   entryRows, resent>>

SavedAgain(e) == \E k \in EntryKeys : /\ entryOf[k] = e
                                      /\ entryRows[k] = "live" \/ \E u \in undos : u.key = k

\* What an undo has brought back stays what Escape goes back to, also when a retry has
\* saved it again meanwhile.
EscapeEntry ==
    /\ EntryAct /\ entry # entryDefaults
    /\ discarded' = discarded \cup Filled(entry)
    /\ entry' = entryDefaults
    /\ resent' = IF SavedAgain(entryDefaults) THEN resent \cup {entryDefaults} ELSE resent
    /\ UNCHANGED <<entryDefaults, sendingEntry, entrySends, entryOf, entryToast, undoBuffer, undos,
                   entryRows, typedCount, crossed>>

\* mutant: Enter adds again while the first request is under way
MayAddAlways == TRUE

MayAdd == ~sendingEntry

\* The user cannot tell that this key has no row: its outcome is unknown, or its
\* retry was refused for a reason of the moment (a session that ended, a category
\* that went) after the first request had landed.
Unsure(k) == \/ entryToast[k] \in {"retry", "loading"}
             \/ entryToast[k] = "refused" /\ entryRows[k] = "live"

\* A form that was sent before may be added again: with a new key.
AddEntry ==
    /\ MayAdd /\ entry # 0 /\ EntryAct
    /\ \E k \in EntryKeys :
          /\ entryOf[k] = 0 /\ \A j \in 1..(k - 1) : entryOf[j] # 0
          /\ entryOf' = [entryOf EXCEPT ![k] = entry]
          /\ entrySends' = [entrySends EXCEPT ![k] = [phase |-> "asked", retry |-> FALSE]]
    /\ sendingEntry' = TRUE
    /\ resent' = IF \E k \in EntryKeys : entryOf[k] = entry /\ Unsure(k)
                 THEN resent \cup {entry} ELSE resent
    /\ UNCHANGED <<entry, entryDefaults, entryToast, undoBuffer, undos, entryRows, typedCount,
                   discarded, crossed>>

\* The server answers a key it knows with the row it has -- but only past its
\* checks: a refusal (4xx) does not ask whether the key has one.  A refusal is not
\* worth a retry; a lost request or answer is.
ServeEntry ==
    \E k \in EntryKeys :
        /\ entrySends[k].phase = "asked"
        /\ LET stored == [entryRows EXCEPT ![k] = IF @ = "none" THEN "live" ELSE @]
           IN  \/ /\ entryRows' = stored
                  /\ entrySends' = [entrySends EXCEPT ![k].phase = "ok"]
                  /\ UNCHANGED entryBudget
               \/ /\ EntryFault /\ entryRows' \in {entryRows, stored}
                  /\ entrySends' = [entrySends EXCEPT ![k].phase = "unknown"]
               \/ /\ EntryFault /\ UNCHANGED entryRows
                  /\ entrySends' = [entrySends EXCEPT ![k].phase = "refused"]
        /\ UNCHANGED <<entry, entryDefaults, sendingEntry, entryOf, entryToast, undoBuffer, undos,
                       typedCount, discarded, crossed, resent>>

\* The finally block enables Add, also for an entry whose request is still under way.
Sent(k) ==
    /\ entrySends' = [entrySends EXCEPT ![k] = NoSend] /\ sendingEntry' = FALSE
    /\ resent' = resent \cup {entryOf[j] : j \in {i \in EntryKeys \ {k} : entrySends[i].phase # "none"}}

\* mutant: the success of a retry empties the form too
KeepsFormNever(k) == FALSE

KeepsForm(k) == entrySends[k].retry /\ entry # entryOf[k]

EntrySaved ==
    \E k \in EntryKeys :
        /\ entrySends[k].phase = "ok" /\ Sent(k)
        /\ undoBuffer' = k /\ entryToast' = [entryToast EXCEPT ![k] = "saved"]
        /\ IF KeepsForm(k) THEN UNCHANGED <<entry, entryDefaults>>
           ELSE entry' = 0 /\ entryDefaults' = 0
        /\ UNCHANGED <<entryOf, undos, entryRows, typedCount, discarded, crossed, entryBudget>>

EntryFailed ==
    \E k \in EntryKeys :
        /\ entrySends[k].phase \in {"unknown", "refused"} /\ Sent(k)
        /\ entryToast' = [entryToast EXCEPT ![k] = IF entrySends[k].phase = "unknown" THEN "retry"
                                                   ELSE "refused"]
        \* A refused retry of an entry the form has moved on from leaves no way back to it.
        /\ crossed' = IF entrySends[k].phase = "refused" /\ entrySends[k].retry
                      THEN crossed \cup {entryOf[k]} ELSE crossed
        /\ UNCHANGED <<entry, entryDefaults, entryOf, undoBuffer, undos, entryRows, typedCount,
                       discarded, entryBudget>>

\* Not held back by sendingRef: another entry may be under way.
RetryEntry ==
    \E k \in EntryKeys :
        /\ entryToast[k] = "retry" /\ EntryAct
        /\ entryToast' = [entryToast EXCEPT ![k] = "loading"]
        /\ entrySends' = [entrySends EXCEPT ![k] = [phase |-> "asked", retry |-> TRUE]]
        /\ sendingEntry' = TRUE
        /\ UNCHANGED <<entry, entryDefaults, entryOf, undoBuffer, undos, entryRows, typedCount,
                       discarded, crossed, resent>>

\* The close button of a failure, which stays up until it is used.
DismissFailure ==
    \E k \in EntryKeys :
        /\ entryToast[k] \in {"retry", "refused"} /\ EntryAct
        /\ entryToast' = [entryToast EXCEPT ![k] = "none"]
        /\ discarded' = IF entry = entryOf[k] THEN discarded ELSE discarded \cup {entryOf[k]}
        /\ resent' = IF Unsure(k) THEN resent \cup {entryOf[k]} ELSE resent
        /\ UNCHANGED <<entry, entryDefaults, sendingEntry, entrySends, entryOf, undoBuffer, undos,
                       entryRows, typedCount, crossed>>

\* Four seconds later; whichever entry the buffer holds by then, it is dropped.
SavedToastCloses ==
    \E k \in EntryKeys :
        /\ entryToast[k] = "saved"
        /\ entryToast' = [entryToast EXCEPT ![k] = "none"] /\ undoBuffer' = 0
        /\ UNCHANGED <<entry, entryDefaults, sendingEntry, entrySends, entryOf, undos, entryRows,
                       typedCount, discarded, crossed, resent, entryBudget>>

\* Any saved toast's Undo, or the shortcut: always the entry saved last.
UndoLastSave ==
    /\ undoBuffer # 0 /\ EntryAct
    /\ undos' = undos \cup {[key |-> undoBuffer, phase |-> "asked"]} /\ undoBuffer' = 0
    /\ entryToast' \in {entryToast} \cup
          {[entryToast EXCEPT ![k] = "none"] : k \in {j \in EntryKeys : entryToast[j] = "saved"}}
    /\ UNCHANGED <<entry, entryDefaults, sendingEntry, entrySends, entryOf, entryRows, typedCount,
                   discarded, crossed, resent>>

ServeUndo ==
    \E u \in undos :
        /\ u.phase = "asked"
        /\ LET gone == [entryRows EXCEPT ![u.key] = "trashed"]
               Answered(p) == undos' = (undos \ {u}) \cup {[u EXCEPT !.phase = p]}
           IN  \/ /\ entryRows[u.key] = "live" /\ entryRows' = gone /\ Answered("ok")
                  /\ UNCHANGED <<entryBudget, crossed>>
               \/ /\ entryRows[u.key] = "trashed" /\ Answered("failed")
                  /\ UNCHANGED <<entryRows, entryBudget, crossed>>
               \/ /\ EntryFault /\ entryRows' \in {entryRows, gone} /\ Answered("failed")
                  /\ crossed' = IF entryRows' = gone THEN crossed \cup {entryOf[u.key]} ELSE crossed
        /\ UNCHANGED <<entry, entryDefaults, sendingEntry, entrySends, entryOf, entryToast,
                       undoBuffer, typedCount, discarded, resent>>

\* A success brings the entry back into the form, over whatever is typed there.
UndoAnswered ==
    \E u \in undos :
        /\ u.phase # "asked" /\ undos' = undos \ {u}
        /\ IF u.phase = "ok"
           THEN /\ entry' = entryOf[u.key] /\ entryDefaults' = entryOf[u.key]
                /\ crossed' = crossed \cup (IF entry = entry' THEN {} ELSE Filled(entry))
                                      \cup (IF FirstUnderWay THEN {entryOf[u.key]} ELSE {})
                /\ discarded' = discarded \ {entryOf[u.key]} /\ UNCHANGED undoBuffer
           ELSE undoBuffer' = u.key /\ UNCHANGED <<entry, entryDefaults, crossed, discarded>>
        /\ UNCHANGED <<sendingEntry, entrySends, entryOf, entryToast, entryRows, typedCount, resent,
                       entryBudget>>

EntryNext == \/ TypeEntry \/ EscapeEntry \/ AddEntry \/ ServeEntry \/ EntrySaved \/ EntryFailed
             \/ RetryEntry \/ DismissFailure \/ SavedToastCloses
             \/ UndoLastSave \/ ServeUndo \/ UndoAnswered

-----------------------------------------------------------------------------
(* TypedEntry, the form's values (TransactionEntryRow.tsx:160).              *)
EntryTypeOK ==
    /\ {entry, entryDefaults} \subseteq 0..MaxTyped /\ sendingEntry \in BOOLEAN
    /\ entrySends \in [EntryKeys -> [phase : {"none", "asked", "ok", "unknown", "refused"},
                                     retry : BOOLEAN]]
    /\ entryOf \in [EntryKeys -> 0..MaxTyped]
    /\ entryToast \in [EntryKeys -> {"none", "retry", "refused", "loading", "saved"}]
    /\ undoBuffer \in 0..MaxEntryKeys /\ undos \subseteq [key : EntryKeys, phase : {"asked", "ok", "failed"}]
    /\ entryRows \in [EntryKeys -> {"none", "live", "trashed"}]
    /\ typedCount \in 0..MaxTyped /\ discarded \cup crossed \cup resent \subseteq 1..MaxTyped

LiveEntries(e) == {k \in EntryKeys : entryOf[k] = e /\ entryRows[k] = "live"}

(* What was typed is never lost: it is in the form, being sent, offered for a
   retry, taken back, or in the ledger, until the user gives it up.  Exposed are
   an entry typed over, typed or brought back while a first request is under way
   (its success empties the form), what an undo overwrites, a refused retry, and an undo whose
   answer was lost (TransactionEntryRow.tsx, send and undoLastSave).          *)
EntryKept ==
    \A e \in 1..typedCount :
        \/ e \in discarded \cup crossed \/ e = entry \/ UnderWay(e) \/ LiveEntries(e) # {}
        \/ \E k \in EntryKeys : entryOf[k] = e /\ entryToast[k] = "retry"
        \/ \E u \in undos : entryOf[u.key] = e

(* An entry is one row, however often Add and Retry are used, unless the user
   adds it again while its outcome is unknown or after the refusal of a retry
   whose first request had landed, when the answer for another entry has enabled
   Add again, or when Escape brought it back after it was saved
   (TransactionEntryRow.tsx, sendingRef and form.reset).                      *)
OneRowPerEntry == \A e \in 1..typedCount : Cardinality(LiveEntries(e)) <= 1 \/ e \in resent

(* "An `ApiError` means the server answered and refused, so nothing was written":
   an entry whose save is told refused has no row (save-failure.ts).          *)
RefusedIsUnwritten == \A k \in EntryKeys : entryToast[k] = "refused" => entryRows[k] = "none"

EntrySpec == EntryInit /\ [][EntryNext]_entryVars
=============================================================================
