-------------------------------- MODULE EditForm --------------------------------
(***************************************************************************)
(* Editing a transaction, in the sheet a card opens on a phone or in its   *)
(* own row of the table.  The form is filled when it opens and not again;  *)
(* Cancel stays enabled while it saves, and a save's answer closes the     *)
(* sheet, or the row, as it finds it.  A transaction is a number standing  *)
(* for its fields, 0 when it is gone; the list loads again now and then    *)
(* (TransactionsPage has its details).                                     *)
(***************************************************************************)
EXTENDS Integers, FiniteSets

CONSTANTS EditTxnCount, EditValues, MaxEditActs, MaxEditFaults

ASSUME EditAssumption ==
    /\ EditTxnCount \in Nat \ {0} /\ EditValues \subseteq Nat \ {0} /\ EditValues # {}
    /\ {MaxEditActs, MaxEditFaults} \subseteq Nat

EditTxns == 1..EditTxnCount
FirstValue == CHOOSE v \in EditValues : \A w \in EditValues : v <= w

VARIABLES
    inSheet,                 \* a phone: one sheet at a time; otherwise rows
    storedTxn, listedTxn,    \* what the server has, and the list on screen
    editForms,               \* the forms that are open: txn -> value, opened on, sent
    savingForms,             \* transactions whose form shows "Saving"
    editSaves,               \* PUTs under way, numbered
    editDeletes,             \* DELETEs of the sheet under way
    savedLast,               \* ghost: what the user saved last, by transaction
    lostEdits,               \* ghost: transactions whose unsaved edit was closed
    editBudget, editNotes

editVars == <<inSheet, storedTxn, listedTxn, editForms, savingForms, editSaves, editDeletes,
              savedLast, lostEdits, editBudget, editNotes>>

EditAct   == editBudget.acts < MaxEditActs /\ editBudget' = [editBudget EXCEPT !.acts = @ + 1]
EditFault == /\ editBudget.faults < MaxEditFaults
             /\ editBudget' = [editBudget EXCEPT !.faults = @ + 1]

Shut == [value |-> 0, from |-> 0, sent |-> 0]
OpenForms == {t \in EditTxns : editForms[t] # Shut}
Unsaved(t) == t \in OpenForms /\ editForms[t].value \notin {editForms[t].from, editForms[t].sent}
SavesOf(t) == {s \in editSaves : s.txn = t}

EditInit ==
    /\ inSheet \in BOOLEAN
    /\ storedTxn = [t \in EditTxns |-> FirstValue] /\ listedTxn = storedTxn
    /\ editForms = [t \in EditTxns |-> Shut] /\ savingForms = {} /\ editSaves = {}
    /\ editDeletes = {} /\ savedLast = [t \in EditTxns |-> 0] /\ lostEdits = {}
    /\ editBudget = [acts |-> 0, faults |-> 0] /\ editNotes = {}

\* A form whose transaction left the list goes with it: the sheet by an effect of
\* the page, the row because it is not rendered.
ListLoadedAgain ==
    /\ listedTxn # storedTxn /\ listedTxn' = storedTxn
    /\ editForms' = [t \in EditTxns |-> IF storedTxn[t] = 0 THEN Shut ELSE editForms[t]]
    /\ savingForms' = {t \in savingForms : storedTxn[t] # 0}
    /\ UNCHANGED <<inSheet, storedTxn, editSaves, editDeletes, savedLast, lostEdits, editBudget, editNotes>>

\* Another device edits or deletes a transaction.
ChangedElsewhere ==
    /\ EditFault
    /\ \E t \in EditTxns, v \in EditValues \cup {0} :
          /\ storedTxn[t] \notin {0, v} /\ storedTxn' = [storedTxn EXCEPT ![t] = v]
          /\ editNotes' = editNotes \cup {<<"elsewhere", t>>}
    /\ UNCHANGED <<inSheet, listedTxn, editForms, savingForms, editSaves, editDeletes, savedLast, lostEdits>>

\* resetEditFields, or the first render of the sheet's form: the row in the list.
StartEditing ==
    /\ EditAct
    /\ \E t \in EditTxns \ OpenForms :
          /\ listedTxn[t] # 0 /\ (inSheet => OpenForms = {})
          /\ editForms' = [editForms EXCEPT ![t] = [value |-> listedTxn[t], from |-> listedTxn[t], sent |-> 0]]
          \* The sheet's form is a new one; the row's keeps its saving flag.
          /\ savingForms' = IF inSheet THEN {} ELSE savingForms
          /\ editNotes' = editNotes \cup
                {<<"reopened", u>> : u \in {v \in {t} : IF inSheet THEN editSaves # {} ELSE SavesOf(t) # {}}}
    /\ UNCHANGED <<inSheet, storedTxn, listedTxn, editSaves, editDeletes, savedLast, lostEdits>>

\* The fields stay enabled while the form saves.
TypeEdit ==
    /\ EditAct
    /\ \E t \in OpenForms, v \in EditValues :
          /\ v # editForms[t].value /\ editForms' = [editForms EXCEPT ![t].value = v]
          /\ editNotes' = IF SavesOf(t) # {} THEN editNotes \cup {<<"typed", t>>} ELSE editNotes
    /\ UNCHANGED <<inSheet, storedTxn, listedTxn, savingForms, editSaves, editDeletes, savedLast, lostEdits>>

\* Cancel, Escape, or a tap outside the sheet.
CancelEdit ==
    /\ \E t \in OpenForms :
          /\ editForms' = [editForms EXCEPT ![t] = Shut]
          /\ savingForms' = IF inSheet THEN savingForms \ {t} ELSE savingForms
    /\ UNCHANGED <<inSheet, storedTxn, listedTxn, editSaves, editDeletes, savedLast, lostEdits,
                   editBudget, editNotes>>

SaveDisabled(t) == t \in savingForms

SendEdit(t) ==
    LET free == CHOOSE n \in 1..(MaxEditActs + 1) : \A s \in editSaves : s.number # n
    IN  /\ editSaves' = editSaves \cup {[number |-> free, txn |-> t, value |-> editForms[t].value,
                                         phase |-> "asked"]}
        /\ savedLast' = [savedLast EXCEPT ![t] = editForms[t].value]
        /\ savingForms' = savingForms \cup {t}
        /\ editForms' = [editForms EXCEPT ![t].sent = editForms[t].value]

SaveEdit ==
    /\ EditAct
    /\ \E t \in OpenForms : ~SaveDisabled(t) /\ SendEdit(t)
    /\ UNCHANGED <<inSheet, storedTxn, listedTxn, editDeletes, lostEdits, editNotes>>

\* The row's key handler saves without looking at the button.
EnterInRow ==
    /\ ~inSheet /\ EditAct
    /\ \E t \in OpenForms \cap savingForms :
          SendEdit(t) /\ editNotes' = editNotes \cup {<<"entered", t>>}
    /\ UNCHANGED <<inSheet, storedTxn, listedTxn, editDeletes, lostEdits>>

ServeEdit ==
    \E s \in editSaves :
        /\ s.phase = "asked"
        /\ LET put == [storedTxn EXCEPT ![s.txn] = s.value]
               Answered(p) == editSaves' = (editSaves \ {s}) \cup {[s EXCEPT !.phase = p]}
           IN  \/ /\ storedTxn[s.txn] # 0 /\ storedTxn' = put /\ Answered("ok")
                  /\ UNCHANGED <<editBudget, editNotes>>
               \/ storedTxn[s.txn] = 0 /\ Answered("failed") /\ UNCHANGED <<storedTxn, editBudget, editNotes>>
               \/ /\ EditFault /\ Answered("failed")
                  /\ storedTxn' \in {storedTxn} \cup (IF storedTxn[s.txn] = 0 THEN {} ELSE {put})
                  /\ editNotes' = editNotes \cup {<<"failed", s.txn>>}
        /\ UNCHANGED <<inSheet, listedTxn, editForms, savingForms, editDeletes, savedLast, lostEdits>>

\* What an answer closes: the sheet, whoever is in it, or the row it was sent from.
ClosedBy(s) == IF s.phase # "ok" THEN {} ELSE IF inSheet THEN OpenForms ELSE {s.txn} \cap OpenForms

EditSaved ==
    \E s \in editSaves :
        /\ s.phase # "asked" /\ editSaves' = editSaves \ {s}
        /\ editForms' = [t \in EditTxns |-> IF t \in ClosedBy(s) THEN Shut ELSE editForms[t]]
        /\ savingForms' = savingForms \ (ClosedBy(s) \cup {s.txn})
        /\ lostEdits' = lostEdits \cup {t \in ClosedBy(s) :
                                           Unsaved(t) \/ (s.phase = "failed" /\ t = s.txn)}
        /\ UNCHANGED <<inSheet, storedTxn, listedTxn, editDeletes, savedLast, editBudget, editNotes>>

\* The sheet closes first; its Undo is the list's (TransactionsPage).
DeleteInSheet ==
    /\ inSheet /\ EditAct
    /\ \E t \in OpenForms :
          /\ editForms' = [editForms EXCEPT ![t] = Shut] /\ savingForms' = savingForms \ {t}
          /\ editDeletes' = editDeletes \cup {t}
          /\ editNotes' = editNotes \cup {<<"elsewhere", t>>}
    /\ UNCHANGED <<inSheet, storedTxn, listedTxn, editSaves, savedLast, lostEdits>>

DeleteServed ==
    \E t \in editDeletes :
        /\ editDeletes' = editDeletes \ {t}
        /\ \/ storedTxn' = [storedTxn EXCEPT ![t] = 0] /\ UNCHANGED editBudget
           \/ EditFault /\ UNCHANGED storedTxn
        /\ UNCHANGED <<inSheet, listedTxn, editForms, savingForms, editSaves, savedLast, lostEdits, editNotes>>

EditNext == \/ ListLoadedAgain \/ ChangedElsewhere \/ StartEditing \/ TypeEdit \/ CancelEdit
            \/ SaveEdit \/ EnterInRow \/ ServeEdit \/ EditSaved \/ DeleteInSheet \/ DeleteServed

-----------------------------------------------------------------------------
\* The forms of the page (useTransactionEditForm.ts:137).
EditTypeOK ==
    /\ {storedTxn, listedTxn, savedLast} \subseteq [EditTxns -> EditValues \cup {0}]
    /\ \A t \in EditTxns : editForms[t].value \in EditValues \cup {0}
    /\ savingForms \cup editDeletes \cup lostEdits \subseteq EditTxns
    /\ inSheet => Cardinality(OpenForms) <= 1

\* An answer closes a form only with what was saved, unless the user typed on, or
\* cancelled and opened a form again, while the save was under way
\* (useTransactionEditForm.ts:201, onSaved).
EditKept ==
    \A t \in lostEdits : {<<"typed", t>>, <<"reopened", t>>} \cap editNotes # {}

\* With every answer in, a transaction is what the user saved last, unless its save
\* failed, it was changed elsewhere, or it was saved again before the first answer
\* by reopening the form or with Enter in its row (useTransactionEditForm.ts:347).
LastSaveStands ==
    editSaves = {} => \A t \in EditTxns :
        savedLast[t] # 0 /\ ~(\E k \in {"failed", "elsewhere", "reopened", "entered"} : <<k, t>> \in editNotes)
        => storedTxn[t] = savedLast[t]
=============================================================================
