------------------------------ MODULE QuickAddPage ------------------------------
(***************************************************************************)
(* The quick-add screen's form: a kind, two ways of typing with a draft    *)
(* each, a category that is picked or read out of the text, and the sign   *)
(* of a refund.  OfflineCapture has what happens to a capture once it is   *)
(* made (the queue, the identity it is held under); here a send is         *)
(* answered, online or by the queue, or fails.  A draft is a number, each  *)
(* change of it a new one, 0 empty; the odd ones name a category.          *)
(***************************************************************************)
EXTENDS Integers, FiniteSets

CONSTANTS MaxDrafts, MaxQuickKeys, MaxQuickActs, MaxQuickFaults

ASSUME QuickAssumption == {MaxDrafts, MaxQuickKeys, MaxQuickActs, MaxQuickFaults} \subseteq Nat

Kinds == {"expense", "income"}
Modes == {"freeform", "tap"}
QuickKeys == 1..MaxQuickKeys
\* One category of each kind, named after it.
QuickCategories == Kinds \cup {"none"}

VARIABLES
    quickMode, quickKind, drafts,     \* drafts: mode -> draft
    pickedCategory, isRefund,
    quickSaving,
    quickSends,                       \* key -> its request
    quickPayload,                     \* key -> the form it was made from
    quickToast, quickUndos,
    quickRows,                        \* key -> "none", "live", "undone"
    draftCount, quickDiscarded, quickCrossed, quickResent, quickBudget

quickVars == <<quickMode, quickKind, drafts, pickedCategory, isRefund, quickSaving, quickSends,
               quickPayload, quickToast, quickUndos, quickRows, draftCount, quickDiscarded,
               quickCrossed, quickResent, quickBudget>>
quickForm == <<quickMode, quickKind, drafts, pickedCategory, isRefund>>
quickGhosts == <<draftCount, quickDiscarded, quickCrossed, quickResent>>

QuickAct   == quickBudget.acts < MaxQuickActs /\ quickBudget' = [quickBudget EXCEPT !.acts = @ + 1]
QuickFault == /\ quickBudget.faults < MaxQuickFaults
              /\ quickBudget' = [quickBudget EXCEPT !.faults = @ + 1]

NoQuickSend == [phase |-> "none", retry |-> FALSE]
NoPayload == [draft |-> 0, category |-> "none", refund |-> FALSE, kind |-> "expense"]

\* The text's category is looked up among the categories of the kind on screen.
Parsed == IF drafts["freeform"] % 2 = 1 THEN quickKind ELSE "none"

\* effective, and formSnapshot: what the preview shows and a submission takes.
Effective == [draft |-> drafts[quickMode], refund |-> isRefund, kind |-> quickKind,
              category |-> IF quickMode = "freeform" /\ pickedCategory = "none" THEN Parsed
                           ELSE pickedCategory]

QuickAddInit ==
    /\ quickMode \in Modes /\ quickKind \in Kinds /\ drafts = [m \in Modes |-> 0]
    /\ pickedCategory = "none" /\ isRefund = FALSE /\ quickSaving = FALSE
    /\ quickSends = [k \in QuickKeys |-> NoQuickSend]
    /\ quickPayload = [k \in QuickKeys |-> NoPayload]
    /\ quickToast = [k \in QuickKeys |-> "none"] /\ quickUndos = {}
    /\ quickRows = [k \in QuickKeys |-> "none"]
    /\ draftCount = 0 /\ quickDiscarded = {} /\ quickCrossed = {} /\ quickResent = {}
    /\ quickBudget = [acts |-> 0, faults |-> 0]

SendsUnderWay == {k \in QuickKeys : quickSends[k].phase # "none"}

TypeDraft ==
    /\ QuickAct /\ draftCount < MaxDrafts
    /\ draftCount' = draftCount + 1 /\ drafts' = [drafts EXCEPT ![quickMode] = draftCount + 1]
    /\ LET old == {drafts[quickMode]} \ {0}
       IN  IF \E k \in SendsUnderWay : ~quickSends[k].retry
           THEN quickCrossed' = quickCrossed \cup old \cup {draftCount + 1} /\ UNCHANGED quickDiscarded
           ELSE quickDiscarded' = quickDiscarded \cup old /\ UNCHANGED quickCrossed
    /\ UNCHANGED <<quickMode, quickKind, pickedCategory, isRefund, quickSaving, quickSends, quickPayload,
                   quickToast, quickUndos, quickRows, quickResent>>

\* The other draft and the picked category stay.
OnModeChange ==
    /\ QuickAct /\ \E m \in Modes \ {quickMode} : quickMode' = m
    /\ UNCHANGED <<quickKind, drafts, pickedCategory, isRefund, quickSaving, quickSends, quickPayload,
                   quickToast, quickUndos, quickRows, quickGhosts>>

OnKindChange ==
    /\ QuickAct /\ \E k \in Kinds \ {quickKind} : quickKind' = k
    /\ pickedCategory' = "none" /\ isRefund' = FALSE
    /\ UNCHANGED <<quickMode, drafts, quickSaving, quickSends, quickPayload, quickToast, quickUndos,
                   quickRows, quickGhosts>>

\* The chips are the categories of the kind.
PickCategory ==
    /\ QuickAct /\ pickedCategory = "none" /\ pickedCategory' = quickKind
    /\ UNCHANGED <<quickMode, quickKind, drafts, isRefund, quickSaving, quickSends, quickPayload,
                   quickToast, quickUndos, quickRows, quickGhosts>>

ToggleRefund ==
    /\ QuickAct /\ isRefund' = ~isRefund
    /\ UNCHANGED <<quickMode, quickKind, drafts, pickedCategory, quickSaving, quickSends, quickPayload,
                   quickToast, quickUndos, quickRows, quickGhosts>>

CanSubmit == Effective.draft # 0 /\ Effective.category # "none" /\ ~quickSaving

QuickSubmit ==
    /\ CanSubmit /\ QuickAct
    /\ \E k \in QuickKeys :
          /\ quickPayload[k] = NoPayload /\ \A j \in 1..(k - 1) : quickPayload[j] # NoPayload
          /\ quickPayload' = [quickPayload EXCEPT ![k] = Effective]
          /\ quickSends' = [quickSends EXCEPT ![k] = [phase |-> "asked", retry |-> FALSE]]
    /\ quickSaving' = TRUE
    /\ quickResent' = IF \E k \in QuickKeys : quickPayload[k].draft = Effective.draft
                                             /\ (quickSends[k].phase = "none" \/ quickSends[k].retry)
                      THEN quickResent \cup {Effective.draft} ELSE quickResent
    /\ UNCHANGED <<quickForm, quickToast, quickUndos, quickRows, draftCount, quickDiscarded, quickCrossed>>

\* The server knows the key of an entry it has; a capture queued offline is a row
\* as far as this screen can tell.
ServeQuickSend ==
    \E k \in QuickKeys :
        /\ quickSends[k].phase = "asked"
        /\ LET stored == [quickRows EXCEPT ![k] = IF @ = "none" THEN "live" ELSE @]
           IN  \/ /\ quickRows' = stored /\ quickSends' = [quickSends EXCEPT ![k].phase = "ok"]
                  /\ UNCHANGED quickBudget
               \/ /\ QuickFault /\ quickRows' \in {quickRows, stored}
                  /\ quickSends' = [quickSends EXCEPT ![k].phase = "unknown"]
               \/ /\ QuickFault /\ UNCHANGED quickRows
                  /\ quickSends' = [quickSends EXCEPT ![k].phase = "refused"]
        /\ UNCHANGED <<quickForm, quickSaving, quickPayload, quickToast, quickUndos, quickGhosts>>

\* The finally block enables the button, also when another send is under way.
QuickAnswered(k) ==
    /\ quickSends' = [quickSends EXCEPT ![k] = NoQuickSend] /\ quickSaving' = FALSE
    /\ quickResent' = quickResent \cup {quickPayload[j].draft : j \in SendsUnderWay \ {k}}

\* resetForNext: both drafts, whichever was sent, unless a retry answers to a form
\* that has moved on.
QuickKeepsForm(k) == quickSends[k].retry /\ quickPayload[k] # Effective

QuickSaved ==
    \E k \in QuickKeys :
        /\ quickSends[k].phase = "ok" /\ QuickAnswered(k)
        /\ quickToast' = [quickToast EXCEPT ![k] = "saved"]
        /\ IF QuickKeepsForm(k) THEN UNCHANGED <<drafts, pickedCategory, isRefund, quickCrossed>>
           ELSE /\ drafts' = [m \in Modes |-> 0] /\ pickedCategory' = "none" /\ isRefund' = FALSE
                /\ quickCrossed' = quickCrossed \cup
                      ({drafts[m] : m \in IF quickSends[k].retry THEN Modes \ {quickMode} ELSE Modes}
                         \ {0, quickPayload[k].draft})
        /\ UNCHANGED <<quickMode, quickKind, quickPayload, quickUndos, quickRows, draftCount,
                       quickDiscarded, quickBudget>>

\* Only an unknown outcome offers a retry; a refused retry leaves no way back to an
\* entry the form has moved on from.
QuickFailed ==
    \E k \in QuickKeys :
        LET refused == quickSends[k].phase = "refused"
        IN  /\ quickSends[k].phase \in {"unknown", "refused"} /\ QuickAnswered(k)
            /\ quickToast' = [quickToast EXCEPT ![k] = IF refused THEN "refused" ELSE "retry"]
            /\ quickCrossed' = IF refused /\ quickSends[k].retry
                               THEN quickCrossed \cup {quickPayload[k].draft} ELSE quickCrossed
            /\ UNCHANGED <<quickForm, quickPayload, quickUndos, quickRows, draftCount, quickDiscarded,
                           quickBudget>>

\* Under the key, and with the payload, of the first send.
QuickRetry ==
    \E k \in QuickKeys :
        /\ quickToast[k] = "retry" /\ QuickAct
        /\ quickToast' = [quickToast EXCEPT ![k] = "loading"]
        /\ quickSends' = [quickSends EXCEPT ![k] = [phase |-> "asked", retry |-> TRUE]]
        /\ quickSaving' = TRUE
        /\ UNCHANGED <<quickForm, quickPayload, quickUndos, quickRows, quickGhosts>>

DismissQuickToast ==
    \E k \in QuickKeys :
        /\ quickToast[k] \in {"retry", "refused", "saved"} /\ QuickAct
        /\ quickToast' = [quickToast EXCEPT ![k] = "none"]
        /\ IF quickToast[k] # "saved"
           THEN /\ quickDiscarded' = quickDiscarded \cup ({quickPayload[k].draft} \ {drafts[m] : m \in Modes})
                /\ quickResent' = quickResent \cup {quickPayload[k].draft}
           ELSE UNCHANGED <<quickDiscarded, quickResent>>
        /\ UNCHANGED <<quickForm, quickSaving, quickSends, quickPayload, quickUndos, quickRows,
                       draftCount, quickCrossed>>

\* Each toast takes its own entry back, and the form stays as it is.
QuickUndo ==
    \E k \in QuickKeys :
        /\ quickToast[k] = "saved" /\ QuickAct
        /\ quickToast' = [quickToast EXCEPT ![k] = "none"] /\ quickUndos' = quickUndos \cup {k}
        /\ UNCHANGED <<quickForm, quickSaving, quickSends, quickPayload, quickRows, quickGhosts>>

ServeQuickUndo ==
    \E k \in quickUndos :
        /\ quickUndos' = quickUndos \ {k}
        /\ \/ quickRows' = [quickRows EXCEPT ![k] = "undone"] /\ UNCHANGED quickBudget
           \/ QuickFault /\ UNCHANGED quickRows
        /\ UNCHANGED <<quickForm, quickSaving, quickSends, quickPayload, quickToast, quickGhosts>>

QuickAddNext ==
    \/ TypeDraft \/ OnModeChange \/ OnKindChange \/ PickCategory \/ ToggleRefund \/ QuickSubmit
    \/ ServeQuickSend \/ QuickSaved \/ QuickFailed \/ QuickRetry \/ DismissQuickToast
    \/ QuickUndo \/ ServeQuickUndo

-----------------------------------------------------------------------------
\* The form and its submissions (QuickAdd.tsx:124).
QuickAddTypeOK ==
    /\ quickMode \in Modes /\ quickKind \in Kinds /\ pickedCategory \in QuickCategories
    /\ drafts \in [Modes -> 0..MaxDrafts] /\ {isRefund, quickSaving} \subseteq BOOLEAN
    /\ quickRows \in [QuickKeys -> {"none", "live", "undone"}]
    /\ quickToast \in [QuickKeys -> {"none", "retry", "refused", "loading", "saved"}]
    /\ quickDiscarded \cup quickCrossed \cup quickResent \subseteq 1..MaxDrafts

MadeFrom(d) == {k \in QuickKeys : quickPayload[k].draft = d}

\* What is typed is in a draft, being sent, offered for a retry, or in the ledger,
\* until the user gives it up or takes it back.  Exposed are drafts typed, or typed
\* over, while a first send is under way, and the draft of the other mode when an
\* entry is saved (QuickAdd.tsx:345 and 443), and a refused retry.
DraftKept ==
    \A d \in 1..draftCount :
        \/ d \in quickDiscarded \cup quickCrossed \/ \E m \in Modes : drafts[m] = d
        \/ \E k \in MadeFrom(d) : quickSends[k].phase # "none" \/ quickToast[k] = "retry"
                                 \/ quickRows[k] # "none"

\* One draft is one row, unless it is added again when its first send has been
\* answered or is being retried, or when the answer for another entry has enabled
\* the button meanwhile (QuickAdd.tsx:323).
OneRowPerDraft ==
    \A d \in 1..draftCount :
        Cardinality({k \in MadeFrom(d) : quickRows[k] = "live"}) <= 1 \/ d \in quickResent

\* An entry is filed under a category of the kind that was on screen, whatever was
\* switched between picking it and submitting (QuickAdd.tsx:256).
CategoryIsOfKind == \A k \in QuickKeys : quickPayload[k].category \in {"none", quickPayload[k].kind}
=============================================================================
