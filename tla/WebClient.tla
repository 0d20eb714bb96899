----------------------------- MODULE WebClient -----------------------------
(* The pages of the web client where a member imports, types, corrects and plans, behind one
   router (app.tsx).  The router keeps one page mounted, and the sections below share no state
   with one another: each is a component with hooks of its own and its own requests.  So a behaviour of the
   client is a behaviour of the section that `section` names, the others standing where they
   start.  What the sections promise is stated here, one property for each kind of promise,
   over all the sections that make it. *)
EXTENDS ImportSession, EntryForm, EditForm, TrashPage, BudgetsPage, BudgetsGuard,
        CategoryLimits, SavingsPage, QuickAddPage, Heatmap,
        AmountBox

Sections ==
    {"import", "entry", "edit", "trash", "budgets", "guard", "limits", "savings", "quick",
     "heatmap", "amount"}

VARIABLE section

clientVars ==
    <<importVars, entryVars, editVars, trashVars, budgetVars, guardVars, limitVars, goalVars,
      quickVars, heatVars, boxVars, section>>

SomeMoney ==
    LET rates == CHOOSE r \in AllRates : TRUE
    IN  <<rates, CHOOSE row \in Rows(rates) : TRUE>>

\* a section that is not mounted stands at one of its starting states
Unmounted ==
    /\ section # "edit" => ~inSheet
    /\ section # "guard" => Len(entries) = 1
    /\ section # "savings" => serverGoals = NoGoals
    /\ section # "quick" => quickMode = "freeform" /\ quickKind = "expense"
    /\ section # "amount" => <<serverRates, storedMoney>> = SomeMoney
    /\ section # "heatmap" => ~narrow /\ heatYear = TodayYear /\ heatData = <<>>

WebInit ==
    /\ section \in Sections
    /\ ImportInit /\ EntryInit /\ EditInit /\ TrashInit /\ BudgetInit
    /\ GuardInit /\ LimitInit /\ SavingsInit /\ QuickAddInit /\ HeatInit /\ BoxInit
    /\ Unmounted

WebNext ==
    /\ UNCHANGED section
    /\ \/ section = "import" /\ ImportNext
       \/ section # "import" /\ UNCHANGED importVars
    /\ \/ section = "entry" /\ EntryNext
       \/ section # "entry" /\ UNCHANGED entryVars
    /\ \/ section = "edit" /\ EditNext
       \/ section # "edit" /\ UNCHANGED editVars
    /\ \/ section = "trash" /\ TrashNext
       \/ section # "trash" /\ UNCHANGED trashVars
    /\ \/ section = "budgets" /\ BudgetNext
       \/ section # "budgets" /\ UNCHANGED budgetVars
    /\ \/ section = "guard" /\ GuardNext
       \/ section # "guard" /\ UNCHANGED guardVars
    /\ \/ section = "limits" /\ LimitNext
       \/ section # "limits" /\ UNCHANGED limitVars
    /\ \/ section = "savings" /\ SavingsNext
       \/ section # "savings" /\ UNCHANGED goalVars
    /\ \/ section = "quick" /\ QuickAddNext
       \/ section # "quick" /\ UNCHANGED quickVars
    /\ \/ section = "heatmap" /\ HeatNext
       \/ section # "heatmap" /\ UNCHANGED heatVars
    /\ \/ section = "amount" /\ BoxNext
       \/ section # "amount" /\ UNCHANGED boxVars

WebSpec == WebInit /\ [][WebNext]_clientVars

----------------------------------------------------------------------------
\* The state of every section is of its type.
PagesTypeOK ==
    /\ section \in Sections
    /\ ImportTypeOK /\ EntryTypeOK /\ EditTypeOK /\ TrashTypeOK /\ BudgetTypeOK
    /\ GuardTypeOK /\ LimitTypeOK /\ SavingsTypeOK /\ QuickAddTypeOK /\ HeatTypeOK
    /\ BoxTypeOK

\* An import records a row once or tells why not: nothing twice, and nothing the
\* user kept left out by a confirm that succeeds (ImportSession).
ImportRecordsEachRowOnce ==
    section = "import" => NoDoubleImport /\ ConfirmRecordsAll

\* What is imported is what the preview showed, the preview is the session of the
\* server, and localStorage names it for a reload -- but for an edit that reaches the
\* session unseen (its answer lost, or sent by an earlier mount of the card and served
\* late), a cancel with edits in the lane, an upload that races with another session,
\* and an earlier mount's own last write (ImportSession).
ImportShowsWhatItImports ==
    section = "import" => ImportsWhatWasShown /\ PreviewTracksServer /\ PreviewIsResumable

\* The page of the trash and the ticks on it are the trash of the server, but for
\* operations that crossed a load or another page's (TrashPage).
TrashScreenHolds == section = "trash" => TrashScreenIsTrue /\ TicksAreOnScreen

\* A form that saves leaves the server with what it showed: the year's budgets, the
\* month's limits, a savings goal, a transaction, a quick entry's category, the worth of
\* foreign money.  A month, category or goal another device wrote after the form was
\* loaded is sent only where the user changed it, and keeps the other's value elsewhere.
SavedIsWhatWasShown ==
    /\ section = "budgets" => SavedYearIsWhatWasShown
    /\ section = "limits" => SavedLimitsAreWhatWasShown /\ LimitsFormComesBack
    /\ section = "savings" => GoalReplacementIsTold /\ GoalsShownAreTrue
    /\ section = "edit" => LastSaveStands
    /\ section = "quick" => CategoryIsOfKind
    /\ section = "amount" => MoneyIsAsShown

\* What was typed is not lost to an answer: in the entry row, in Quick add, in the
\* edit sheet and the edited row; and the amount box says what its form holds.  The entry
\* row empties itself under an entry typed while the first was being sent
\* (TransactionEntryRow.tsx:355-357), and a currency that arrives refills the form.
TypedIsKept ==
    /\ section = "entry" => EntryKept
    /\ section = "quick" => DraftKept
    /\ section = "edit" => EditKept
    /\ section = "amount" => BoxSaysWhatItHolds

\* However often it is sent, retried and undone, what was typed once is one row, unless
\* the user adds it again while its outcome is not known, or after a refusal that followed
\* a request that had landed.
OneRowPerWrite ==
    /\ section = "entry" => OneRowPerEntry
    /\ section = "quick" => OneRowPerDraft

\* The year's grid shows its days where the calendar has them, in the order of what
\* they spent, and the keyboard reaches each of them and keeps its place.
HeatmapIsTrue ==
    section = "heatmap" =>
        GridIsTrue /\ OneTabStop /\ ColoursRankDays /\ SheetTellsItsCell /\ HeatFocusKept
=============================================================================
