----------------------------- MODULE BudgetsPage -----------------------------
(***************************************************************************)
(* The monthly budgets form.  The budgets of a year are loaded into the    *)
(* form together with a baseline; a save sends one request per month that  *)
(* differs from the baseline (the amounts first, then the cleared months), *)
(* stops at the first failure, and loads the year again.  Loads carry no   *)
(* sequence number.  An amount is a number; 0 is a month without a budget  *)
(* and Invalid an amount the form refuses.  Other devices write budgets too. *)
(***************************************************************************)
EXTENDS Integers, Sequences, FiniteSets

CONSTANTS BudgetYears, MonthCount, Amounts, Invalid,
          MaxBudgetActs, MaxBudgetFaults

Months == 1..MonthCount
NoBudgets == [m \in Months |-> 0]
FormValues == [Months -> Amounts \cup {0, Invalid}]

\* The year selector lists the years without a gap.
ASSUME BudgetAssumption ==
    /\ BudgetYears \subseteq Nat /\ BudgetYears # {} /\ IsFiniteSet(BudgetYears)
    /\ \A y, z \in BudgetYears : y..z \subseteq BudgetYears
    /\ MonthCount \in Nat \ {0}
    /\ Amounts \subseteq Nat \ {0} /\ 1 \in Amounts /\ Invalid \in Int \ Nat
    /\ {MaxBudgetActs, MaxBudgetFaults} \subseteq Nat

VARIABLES
    budgets,       \* server: the amount of each month of each year
    year, editAmounts, baseline,
    preBulk,       \* the form before the bulk actions, or {}
    pendingYear,   \* the year the discard dialog asks about, or 0
    saving,        \* the save under way
    loads,         \* GETs under way, in the order they were sent
    elsewhere,     \* months another device wrote since the form was loaded or wrote them
    budgetBudget, budgetNotes

budgetVars == <<budgets, year, editAmounts, baseline, preBulk, pendingYear, saving, loads,
                elsewhere, budgetBudget, budgetNotes>>

BudgetWithin == budgetBudget.acts + budgetBudget.faults < MaxBudgetActs
BudgetAct   == BudgetWithin /\ budgetBudget' = [budgetBudget EXCEPT !.acts = @ + 1]
BudgetFault == /\ BudgetWithin /\ budgetBudget.faults < MaxBudgetFaults
               /\ budgetBudget' = [budgetBudget EXCEPT !.faults = @ + 1]

NotSaving == [on |-> FALSE, puts |-> {}, clears |-> {}, shown |-> NoBudgets, ok |-> FALSE, phase |-> "none"]
Load(kind, y) == [kind |-> kind, year |-> y, phase |-> "asked", data |-> NoBudgets]
MinYear == CHOOSE y \in BudgetYears : \A z \in BudgetYears : y <= z
MaxYear == CHOOSE y \in BudgetYears : \A z \in BudgetYears : y >= z
But(i, s) == SubSeq(s, 1, i - 1) \o SubSeq(s, i + 1, Len(s))

\* Invalid amounts are not counted as unsaved changes.
dirtyMonths == {m \in Months : editAmounts[m] # baseline[m] /\ editAmounts[m] # Invalid}

BudgetInit ==
    /\ budgets = [y \in BudgetYears |-> [m \in Months |-> IF m = 1 THEN 1 ELSE 0]]
    /\ year = MaxYear /\ editAmounts = NoBudgets /\ baseline = NoBudgets
    /\ preBulk = {} /\ pendingYear = 0 /\ saving = NotSaving
    /\ loads = <<Load("load", MaxYear)>> /\ elsewhere = {}
    /\ budgetBudget = [acts |-> 0, faults |-> 0] /\ budgetNotes = {}

ServeLoad ==
    \E i \in DOMAIN loads :
        /\ loads[i].phase = "asked"
        /\ \/ loads' = [loads EXCEPT ![i].phase = "served", ![i].data = budgets[loads[i].year]]
              /\ UNCHANGED budgetBudget
           \/ loads' = [loads EXCEPT ![i].phase = "failed"] /\ BudgetFault
        /\ UNCHANGED <<budgets, year, editAmounts, baseline, preBulk, pendingYear, saving, elsewhere,
                       budgetNotes>>

\* fetchBudgets: the answer replaces the form and its baseline.  A failed load
\* empties both; a failed refresh after a save leaves them.
LoadAnswer ==
    \E i \in DOMAIN loads :
        LET load == loads[i]
            crossed == i > 1 \/ load.year # year \/ (load.kind = "load" /\ dirtyMonths # {})
        IN  /\ load.kind # "copy" /\ load.phase # "asked"
            /\ loads' = But(i, loads)
            /\ IF load.phase = "failed" /\ load.kind = "refresh"
               THEN UNCHANGED <<editAmounts, baseline, preBulk, elsewhere>>
               ELSE /\ editAmounts' = load.data
                    /\ baseline' = load.data
                    /\ preBulk' = {} /\ elsewhere' = {}
            /\ saving' = IF load.kind = "refresh" THEN NotSaving ELSE saving
            /\ budgetNotes' = (IF crossed THEN budgetNotes \cup {"crossed"} ELSE budgetNotes)
                              \cup (IF load.phase = "failed" THEN {"failed"} ELSE {})
            /\ UNCHANGED <<budgets, year, pendingYear, budgetBudget>>

Editable == ~saving.on /\ pendingYear = 0

EditAmount ==
    /\ Editable /\ BudgetAct
    /\ \E m \in Months, v \in Amounts \cup {0, Invalid} :
          v # editAmounts[m] /\ editAmounts' = [editAmounts EXCEPT ![m] = v]
    /\ UNCHANGED <<budgets, year, baseline, preBulk, pendingYear, saving, loads, elsewhere,
                   budgetNotes>>

\* The bulk actions keep the form as it was before the first of them.
Snapshot == preBulk' = IF preBulk = {} THEN {editAmounts} ELSE preBulk

HandleApplyBulk ==
    /\ Editable /\ BudgetAct
    /\ \E v \in Amounts : editAmounts' = [m \in Months |-> v]
    /\ Snapshot
    /\ UNCHANGED <<budgets, year, baseline, pendingYear, saving, loads, elsewhere, budgetNotes>>

HandleUndoBulk ==
    /\ Editable /\ preBulk # {}
    /\ editAmounts' \in preBulk
    /\ preBulk' = {}
    /\ UNCHANGED <<budgets, year, baseline, pendingYear, saving, loads, elsewhere, budgetBudget,
                   budgetNotes>>

HandleCopyFromPrev ==
    /\ Editable /\ year > MinYear /\ BudgetAct
    /\ loads' = Append(loads, Load("copy", year - 1))
    /\ UNCHANGED <<budgets, year, editAmounts, baseline, preBulk, pendingYear, saving, elsewhere,
                   budgetNotes>>

\* Last year's amounts replace the form, whatever year it shows by now.
CopyAnswer ==
    \E i \in DOMAIN loads :
        LET load == loads[i]
        IN  /\ load.kind = "copy" /\ load.phase # "asked"
            /\ loads' = But(i, loads)
            /\ IF load.phase = "failed" \/ load.data = NoBudgets
               THEN UNCHANGED <<editAmounts, preBulk>>
               ELSE editAmounts' = load.data /\ Snapshot
            /\ budgetNotes' = IF load.year + 1 = year /\ ~saving.on THEN budgetNotes
                              ELSE budgetNotes \cup {"crossed"}
            /\ UNCHANGED <<budgets, year, baseline, pendingYear, saving, elsewhere, budgetBudget>>

Puts == {m \in Months : editAmounts[m] \in Amounts /\ editAmounts[m] # baseline[m]}

\* mutant: a month whose amount was cleared is not sent
ClearsNone == {}

Clears == {m \in Months : editAmounts[m] = 0 /\ baseline[m] # 0}

HandleSave ==
    /\ Editable /\ BudgetAct
    /\ \A m \in Months : editAmounts[m] # Invalid
    /\ Puts \cup Clears # {}
    /\ saving' = [on |-> TRUE, puts |-> Puts, clears |-> Clears, shown |-> editAmounts,
                  ok |-> TRUE, phase |-> "sending"]
    /\ budgetNotes' = IF loads = <<>> THEN budgetNotes ELSE budgetNotes \cup {"early"}
    /\ UNCHANGED <<budgets, year, editAmounts, baseline, preBulk, pendingYear, loads, elsewhere>>

\* Months in calendar order, those with an amount before the cleared ones.
NextMonth ==
    LET left == IF saving.puts # {} THEN saving.puts ELSE saving.clears
    IN  CHOOSE m \in left : \A n \in left : m <= n

\* One PUT or DELETE of the save; a failure ends it, what was sent stays.
SaveMonth ==
    /\ saving.phase = "sending" /\ saving.puts \cup saving.clears # {}
    /\ LET sent == [budgets EXCEPT ![year][NextMonth] = saving.shown[NextMonth]]
       IN  \/ /\ budgets' = sent
              /\ saving' = [saving EXCEPT !.puts = @ \ {NextMonth}, !.clears = @ \ {NextMonth}]
              /\ elsewhere' = elsewhere \ {NextMonth} /\ UNCHANGED budgetBudget
           \/ /\ BudgetFault /\ budgets' \in {budgets, sent}
              /\ saving' = [saving EXCEPT !.puts = {}, !.clears = {}, !.ok = FALSE]
              /\ UNCHANGED elsewhere
    /\ UNCHANGED <<year, editAmounts, baseline, preBulk, pendingYear, loads, budgetNotes>>

\* The toast, and the refresh in the finally block.
SaveEnds ==
    /\ saving.phase = "sending" /\ saving.puts \cup saving.clears = {}
    /\ saving' = [saving EXCEPT !.phase = "refreshing"]
    /\ loads' = Append(loads, Load("refresh", year))
    /\ UNCHANGED <<budgets, year, editAmounts, baseline, preBulk, pendingYear, elsewhere, budgetBudget,
                   budgetNotes>>

SwitchTo(y) ==
    /\ year' = y /\ pendingYear' = 0
    /\ loads' = Append(loads, Load("load", y))

HandleYearSelect ==
    /\ Editable /\ BudgetAct
    /\ \E y \in BudgetYears \ {year} :
          IF dirtyMonths # {} THEN pendingYear' = y /\ UNCHANGED <<year, loads>> ELSE SwitchTo(y)
    /\ UNCHANGED <<budgets, editAmounts, baseline, preBulk, saving, elsewhere, budgetNotes>>

AnswerDiscard ==
    /\ pendingYear # 0
    /\ \/ SwitchTo(pendingYear)
       \/ pendingYear' = 0 /\ UNCHANGED <<year, loads>>
    /\ budgetNotes' = IF year' # year THEN budgetNotes \cup {"discarded"} ELSE budgetNotes
    /\ UNCHANGED <<budgets, editAmounts, baseline, preBulk, saving, elsewhere, budgetBudget>>

\* Another device sets or clears a month; the form hears nothing of it.
BudgetsElsewhere ==
    /\ BudgetFault
    /\ \E y \in BudgetYears, m \in Months, v \in Amounts \cup {0} :
          /\ v # budgets[y][m] /\ budgets' = [budgets EXCEPT ![y][m] = v]
          /\ elsewhere' = IF y = year THEN elsewhere \cup {m} ELSE elsewhere
          /\ budgetNotes' = IF \E i \in DOMAIN loads : loads[i].phase = "served" /\ loads[i].year = y
                            THEN budgetNotes \cup {"outrun"} ELSE budgetNotes
    /\ UNCHANGED <<year, editAmounts, baseline, preBulk, pendingYear, saving, loads>>

BudgetNext ==
    \/ ServeLoad \/ LoadAnswer \/ CopyAnswer \/ EditAmount \/ HandleApplyBulk \/ HandleUndoBulk
    \/ HandleCopyFromPrev \/ HandleSave \/ SaveMonth \/ SaveEnds \/ HandleYearSelect \/ AnswerDiscard
    \/ BudgetsElsewhere

----------------------------------------------------------------------------
BudgetTypeOK ==
    /\ budgets \in [BudgetYears -> [Months -> Amounts \cup {0}]]
    /\ year \in BudgetYears /\ pendingYear \in {0} \cup BudgetYears
    /\ editAmounts \in FormValues /\ baseline \in FormValues
    /\ saving.phase \in {"none", "sending", "refreshing"}

\* A save whose every request succeeded leaves the year as the form showed it
\* when Save was pressed, cleared months included, and the months it sent nothing
\* for too -- but for those another device wrote after the form was loaded: of
\* these the form sends only the ones the user changed.  Set aside: a load that
\* arrived out of order, for another year, over edits, after another device's
\* write, or failed; Save pressed with a load under way, or with the edits
\* discarded for another year still on screen.
SavedYearIsWhatWasShown ==
    saving.phase = "refreshing" /\ saving.ok /\ budgetNotes = {}
    => \A m \in Months \ elsewhere : budgets[year][m] = saving.shown[m]
=============================================================================
