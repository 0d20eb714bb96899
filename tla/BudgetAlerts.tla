---------------------------- MODULE BudgetAlerts ----------------------------
(* The over-budget push (evaluateBudgetAlerts, internal/api/budget_alert.go). Every write
   commits first and then evaluates the cells it touched: a cell is read, and on what was
   read its latch row is set or cleared; the one evaluation whose insert took effect sends
   the push. Writers overlap, so a cell may change between its reading and the latch. A cell
   is a category's month. Its spending is a number of equal purchases; a limit is the number
   of them it admits, and one that no spending reaches stands for having no limit. *)
EXTENDS Integers, FiniteSets, Sequences

CONSTANTS AlertCells, AlertWriters, SpendLimits, MaxAlertWrites, MaxAlertChanges

ASSUME AlertAssumption ==
    /\ IsFiniteSet(AlertCells) /\ IsFiniteSet(AlertWriters) /\ AlertCells # {}
    /\ SpendLimits \subseteq Nat /\ \E l \in SpendLimits : \A k \in SpendLimits : l <= k
    /\ {MaxAlertWrites, MaxAlertChanges} \subseteq Nat

VARIABLES
    spent, spendLimit,    \* by cell
    latched,              \* rows of budget_alert_state
    evaluations,          \* by writer: where it is, the cells to do, what it has read
    quietHours,           \* whether over-budget pushes are silenced at this time of day
    pushed,               \* pushes that named the cell since it last went over its limit
    alertNotes,           \* by cell: what came between a crossing and its push
    alertBudget

alertVars ==
    <<spent, spendLimit, latched, evaluations, quietHours, pushed, alertNotes, alertBudget>>

NoEvaluation == [step |-> "none", todo |-> <<>>, quiet |-> FALSE, over |-> FALSE, crossed |-> {}]
Over(c) == spent[c] > spendLimit[c]
OverAt(c, amounts) == amounts[c] > spendLimit[c]
Pending(c) ==
    \E w \in AlertWriters :
        \/ c \in {evaluations[w].todo[i] : i \in DOMAIN evaluations[w].todo}
        \/ c \in evaluations[w].crossed
AlertChange == alertBudget.changes < MaxAlertChanges
               /\ alertBudget' = [alertBudget EXCEPT !.changes = @ + 1]
Noted(C, note) == [c \in AlertCells |-> alertNotes[c] \cup (IF c \in C THEN {note} ELSE {})]

\* what a crossing of its own finds of the one before: its latch, or its push still to go out
AtCrossing(c) ==
    (IF c \in latched THEN {"latched"} ELSE {})
      \cup (IF \E w \in AlertWriters : c \in evaluations[w].crossed THEN {"stale"} ELSE {})

AlertInit ==
    /\ spent = [c \in AlertCells |-> 0]
    /\ spendLimit = [c \in AlertCells |-> CHOOSE l \in SpendLimits : \A k \in SpendLimits : l <= k]
    /\ latched = {} /\ evaluations = [w \in AlertWriters |-> NoEvaluation] /\ quietHours = FALSE
    /\ pushed = [c \in AlertCells |-> 0] /\ alertNotes = [c \in AlertCells |-> {}]
    /\ alertBudget = [writes |-> 0, changes |-> 0]

Crossing(amounts) == {c \in AlertCells : ~Over(c) /\ OverAt(c, amounts)}

\* a write commits, and goes on to evaluate its cells: cellsForCreate, -Delete, -Update
WriteSpending(w) ==
    /\ evaluations[w] = NoEvaluation /\ alertBudget.writes < MaxAlertWrites
    /\ \E c, d \in AlertCells, kind \in {"create", "delete", "move"} :
          /\ kind = "move" <=> c # d
          /\ kind \in {"delete", "move"} => spent[c] > 0
          /\ spent' = CASE kind = "create" -> [spent EXCEPT ![c] = @ + 1]
                        [] kind = "delete" -> [spent EXCEPT ![c] = @ - 1]
                        [] kind = "move" -> [spent EXCEPT ![c] = @ - 1, ![d] = @ + 1]
          /\ evaluations' = [evaluations EXCEPT ![w] =
                [NoEvaluation EXCEPT !.step = "settings",
                                     !.todo = IF c = d THEN <<c>> ELSE <<c, d>>]]
    /\ pushed' = [c \in AlertCells |-> IF c \in Crossing(spent') THEN 0 ELSE pushed[c]]
    /\ alertNotes' = [c \in AlertCells |-> alertNotes[c]
                          \cup (IF c \in Crossing(spent') THEN AtCrossing(c) ELSE {})]
    /\ alertBudget' = [alertBudget EXCEPT !.writes = @ + 1]
    /\ UNCHANGED <<spendLimit, latched, quietHours>>

\* the quiet-hours gate, read once for all the cells; settings that cannot be read silence nothing
ReadSettings(w) ==
    /\ evaluations[w].step = "settings"
    /\ \/ /\ evaluations' = [evaluations EXCEPT ![w].step = "read", ![w].quiet = quietHours]
          /\ UNCHANGED alertBudget
       \/ /\ quietHours /\ AlertChange
          /\ evaluations' = [evaluations EXCEPT ![w].step = "read"]
    /\ UNCHANGED <<spent, spendLimit, latched, quietHours, pushed, alertNotes>>

\* cellOverBudget; a cell that cannot be read is skipped
CellOverBudget(w) ==
    LET e == evaluations[w]
        c == Head(e.todo)
    IN  /\ e.step = "read" /\ e.todo # <<>>
        /\ \/ /\ evaluations' = [evaluations EXCEPT ![w].step = "act", ![w].over = Over(c)]
              /\ UNCHANGED <<alertNotes, alertBudget>>
           \/ /\ AlertChange /\ alertNotes' = Noted({c}, "skipped")
              /\ evaluations' = [evaluations EXCEPT ![w].todo = Tail(@)]
        /\ UNCHANGED <<spent, spendLimit, latched, quietHours, pushed>>

\* mutant: the latch is set without looking whether it was
FreshlyLatchedAlways(c) == TRUE

\* INSERT ... ON CONFLICT DO NOTHING: whether this evaluation's row is a new one
FreshlyLatched(c) == c \notin latched

\* the latch: cleared when the cell was read under, left alone in quiet hours, else set;
\* a statement that fails leaves it as it was
ActOnCell(w) ==
    LET e == evaluations[w]
        c == Head(e.todo)
        done == [e EXCEPT !.step = "read", !.todo = Tail(e.todo)]
        stale == IF e.over # Over(c) THEN {"stale"} ELSE {}
        settled == alertNotes[c] \ {"skipped"}
    IN  /\ e.step = "act"
        /\ \/ /\ ~e.over /\ latched' = latched \ {c}
              /\ alertNotes' = [alertNotes EXCEPT ![c] = (settled \ {"latched"}) \cup stale]
              /\ evaluations' = [evaluations EXCEPT ![w] = done] /\ UNCHANGED alertBudget
           \/ /\ e.over /\ e.quiet /\ alertNotes' = Noted({c}, "skipped")
              /\ evaluations' = [evaluations EXCEPT ![w] = done] /\ UNCHANGED <<latched, alertBudget>>
           \/ /\ e.over /\ ~e.quiet /\ latched' = latched \cup {c}
              /\ alertNotes' = [alertNotes EXCEPT ![c] = settled \cup stale]
              /\ evaluations' = [evaluations EXCEPT ![w] =
                    [done EXCEPT !.crossed = @ \cup (IF FreshlyLatched(c) THEN {c} ELSE {})]]
              /\ UNCHANGED alertBudget
           \/ /\ AlertChange /\ alertNotes' = Noted({c}, "skipped")
              /\ evaluations' = [evaluations EXCEPT ![w] = done] /\ UNCHANGED latched
        /\ UNCHANGED <<spent, spendLimit, quietHours, pushed>>

\* One push for all that crossed; fanOutPush looks at the time again, and may drop it.
SendAlert(w) ==
    LET e == evaluations[w]
    IN  /\ e.step = "read" /\ e.todo = <<>>
        /\ \/ /\ ~quietHours
              /\ pushed' = [c \in AlertCells |-> pushed[c] + (IF c \in e.crossed THEN 1 ELSE 0)]
              /\ UNCHANGED <<alertNotes, alertBudget>>
           \/ /\ quietHours /\ alertNotes' = Noted(e.crossed, "dropped")
              /\ UNCHANGED <<pushed, alertBudget>>
           \/ /\ e.crossed # {} /\ AlertChange /\ alertNotes' = Noted(e.crossed, "dropped")
              /\ UNCHANGED pushed
        /\ evaluations' = [evaluations EXCEPT ![w] = NoEvaluation]
        /\ UNCHANGED <<spent, spendLimit, latched, quietHours>>

\* A limit is put, or taken away, without evaluating its cell.
PutLimit ==
    /\ AlertChange
    /\ \E c \in AlertCells : \E l \in SpendLimits \ {spendLimit[c]} :
          LET rises == spent[c] > l /\ ~Over(c)
          IN  /\ spendLimit' = [spendLimit EXCEPT ![c] = l]
              /\ pushed' = [pushed EXCEPT ![c] = IF rises THEN 0 ELSE @]
              /\ alertNotes' = [alertNotes EXCEPT ![c] =
                                   @ \cup (IF rises THEN AtCrossing(c) \cup {"skipped"} ELSE {})]
    /\ UNCHANGED <<spent, latched, evaluations, quietHours>>

QuietHoursTurn ==
    /\ AlertChange /\ quietHours' = ~quietHours
    /\ UNCHANGED <<spent, spendLimit, latched, evaluations, pushed, alertNotes>>

\* The process dies: the latches are stored, what was to be evaluated or sent is not.
KillEvaluations ==
    /\ AlertChange
    /\ alertNotes' = [c \in AlertCells |-> alertNotes[c] \cup
            (IF Pending(c) THEN {IF c \in latched THEN "dropped" ELSE "skipped"} ELSE {})]
    /\ evaluations' = [w \in AlertWriters |-> NoEvaluation]
    /\ UNCHANGED <<spent, spendLimit, latched, quietHours, pushed>>

AlertNext ==
    \/ \E w \in AlertWriters :
          WriteSpending(w) \/ ReadSettings(w) \/ CellOverBudget(w) \/ ActOnCell(w) \/ SendAlert(w)
    \/ PutLimit \/ QuietHoursTurn \/ KillEvaluations

AlertTypeOK ==
    /\ spent \in [AlertCells -> 0..MaxAlertWrites] /\ spendLimit \in [AlertCells -> SpendLimits]
    /\ latched \subseteq AlertCells /\ quietHours \in BOOLEAN
    /\ \A w \in AlertWriters : evaluations[w].step \in {"none", "settings", "read", "act"}
                               /\ evaluations[w].crossed \subseteq AlertCells
    /\ pushed \in [AlertCells -> 0..MaxAlertWrites]
    /\ \A c \in AlertCells : alertNotes[c] \subseteq {"latched", "skipped", "stale", "dropped"}

(* A crossing is pushed once: a cell over its limit that no evaluation is looking at any more
   has had its one push, however many writers crossed together and whatever was silenced or
   skipped before; except when it was not looked at since, when an earlier crossing's latch
   had not been cleared or its push was still to go out, when an evaluation acted on a reading that
   was outdated, or when the push itself was dropped (the latch semantics of evaluateBudgetAlerts). *)
AlertOnce ==
    \A c \in AlertCells :
        /\ pushed[c] <= 1 \/ "stale" \in alertNotes[c]
        /\ Over(c) /\ ~Pending(c) /\ alertNotes[c] = {} => pushed[c] = 1
=============================================================================
