------------------------------ MODULE SavingsPage ------------------------------
(***************************************************************************)
(* The savings goals, one per year: a dialog that adds one or, when it     *)
(* says so, replaces the one the year has, and a confirmed deletion.       *)
(* Every change loads the list again, without waiting for it, and the      *)
(* answers are taken as they come.  A target is a positive number, 0 none. *)
(* Other devices set and delete goals too.                                 *)
(***************************************************************************)
EXTENDS Integers, Sequences

CONSTANTS GoalYears, GoalTargets, MaxGoalActs, MaxGoalFaults

ASSUME GoalAssumption ==
    /\ GoalTargets \subseteq Nat \ {0} /\ GoalTargets # {}
    /\ GoalYears \subseteq Nat \ {0} /\ GoalYears # {}
    /\ {MaxGoalActs, MaxGoalFaults} \subseteq Nat

VARIABLES
    serverGoals, goals,
    goalForm,         \* the dialog: open, its year (0: left empty) and target
    goalPuts,         \* PUTs under way, with what the dialog said of them
    confirmGoal,      \* confirmDelete: a year, or 0
    goalDeletes,      \* DELETEs under way
    goalLoads,        \* GETs under way, in the order they were sent
    goalsElsewhere,   \* goals another device wrote since the list was loaded
    untold,           \* a goal was replaced by a dialog that said it was new
    goalBudget, goalNotes

goalVars == <<serverGoals, goals, goalForm, goalPuts, confirmGoal, goalDeletes, goalLoads,
              goalsElsewhere, untold, goalBudget, goalNotes>>

GoalAct   == goalBudget.acts < MaxGoalActs /\ goalBudget' = [goalBudget EXCEPT !.acts = @ + 1]
GoalFault == /\ goalBudget.faults < MaxGoalFaults
             /\ goalBudget' = [goalBudget EXCEPT !.faults = @ + 1]

NoGoals == [y \in GoalYears |-> 0]
ThisYear == CHOOSE y \in GoalYears : \A x \in GoalYears : y <= x
EmptyForm == [open |-> FALSE, year |-> ThisYear, target |-> 0]
GoalLoad == [phase |-> "asked", data |-> NoGoals]

SavingsInit ==
    /\ serverGoals \in {NoGoals, [NoGoals EXCEPT ![ThisYear] = CHOOSE t \in GoalTargets : TRUE]}
    /\ goals = NoGoals /\ goalForm = EmptyForm /\ goalPuts = {} /\ confirmGoal = 0
    /\ goalDeletes = {} /\ goalLoads = <<GoalLoad>> /\ goalsElsewhere = {} /\ untold = FALSE
    /\ goalBudget = [acts |-> 0, faults |-> 0] /\ goalNotes = {}

ServeGoalLoad ==
    \E i \in DOMAIN goalLoads :
        /\ goalLoads[i].phase = "asked"
        /\ \/ /\ goalLoads' = [goalLoads EXCEPT ![i] = [phase |-> "ok", data |-> serverGoals]]
              /\ UNCHANGED goalBudget
           \/ GoalFault /\ goalLoads' = [goalLoads EXCEPT ![i].phase = "failed"]
        /\ UNCHANGED <<serverGoals, goals, goalForm, goalPuts, confirmGoal, goalDeletes, goalsElsewhere,
                       untold, goalNotes>>

\* A failed load keeps the list.
FetchGoals ==
    \E i \in DOMAIN goalLoads :
        /\ goalLoads[i].phase # "asked"
        /\ goalLoads' = SubSeq(goalLoads, 1, i - 1) \o SubSeq(goalLoads, i + 1, Len(goalLoads))
        /\ IF goalLoads[i].phase = "ok" THEN goals' = goalLoads[i].data /\ goalsElsewhere' = {}
           ELSE UNCHANGED <<goals, goalsElsewhere>>
        /\ goalNotes' = goalNotes \cup (IF goalLoads[i].phase = "ok" THEN {} ELSE {"failed"})
                                  \cup (IF i = 1 THEN {} ELSE {"crossed"})
        /\ UNCHANGED <<serverGoals, goalForm, goalPuts, confirmGoal, goalDeletes, untold, goalBudget>>

OpenGoalDialog ==
    /\ ~goalForm.open /\ confirmGoal = 0 /\ GoalAct /\ goalForm' = [goalForm EXCEPT !.open = TRUE]
    /\ UNCHANGED <<serverGoals, goals, goalPuts, confirmGoal, goalDeletes, goalLoads, goalsElsewhere,
                   untold, goalNotes>>

TypeGoal ==
    /\ goalForm.open
    /\ \E y \in GoalYears \cup {0}, t \in GoalTargets \cup {0} :
          /\ <<y, t>> # <<goalForm.year, goalForm.target>>
          /\ goalForm' = [goalForm EXCEPT !.year = y, !.target = t]
    /\ UNCHANGED <<serverGoals, goals, goalPuts, confirmGoal, goalDeletes, goalLoads, goalsElsewhere,
                   untold, goalBudget, goalNotes>>

CloseGoalDialog ==
    /\ goalForm.open /\ goalForm' = EmptyForm
    /\ UNCHANGED <<serverGoals, goals, goalPuts, confirmGoal, goalDeletes, goalLoads, goalsElsewhere,
                   untold, goalBudget, goalNotes>>

\* What the dialog's title, warning and button say: Replace, or Add.
ExistingGoal(year) == year # 0 /\ goals[year] # 0

\* The button is not disabled meanwhile, so there may be several.
OnAddGoal ==
    /\ goalForm.open /\ goalForm.year # 0 /\ goalForm.target # 0 /\ GoalAct
    /\ goalPuts' = goalPuts \cup {[year |-> goalForm.year, target |-> goalForm.target,
                                   replaces |-> ExistingGoal(goalForm.year), phase |-> "asked"]}
    /\ goalNotes' = goalNotes \cup (IF goalLoads = <<>> /\ goalPuts = {} THEN {} ELSE {"early"})
                              \cup (IF goalForm.year \in goalsElsewhere THEN {"outdated"} ELSE {})
    /\ UNCHANGED <<serverGoals, goals, goalForm, confirmGoal, goalDeletes, goalLoads, goalsElsewhere,
                   untold>>

ServeGoalPut ==
    \E p \in goalPuts :
        /\ p.phase = "asked"
        /\ LET put == [serverGoals EXCEPT ![p.year] = p.target]
               Answered(ph) == goalPuts' = (goalPuts \ {p}) \cup {[p EXCEPT !.phase = ph]}
           IN  \/ /\ serverGoals' = put /\ Answered("ok") /\ UNCHANGED <<goalBudget, goalNotes>>
                  /\ untold' = (untold \/ (serverGoals[p.year] # 0 /\ ~p.replaces))
               \/ /\ GoalFault /\ serverGoals' \in {serverGoals, put} /\ Answered("failed")
                  /\ goalNotes' = goalNotes \cup {"unanswered"} /\ UNCHANGED untold
        /\ UNCHANGED <<goals, goalForm, confirmGoal, goalDeletes, goalLoads, goalsElsewhere>>

\* Success resets and closes the dialog that is open by then.
GoalSaved ==
    \E p \in goalPuts :
        /\ p.phase # "asked" /\ goalPuts' = goalPuts \ {p}
        /\ IF p.phase = "ok"
           THEN goalForm' = EmptyForm /\ goalLoads' = Append(goalLoads, GoalLoad)
           ELSE UNCHANGED <<goalForm, goalLoads>>
        /\ UNCHANGED <<serverGoals, goals, confirmGoal, goalDeletes, goalsElsewhere, untold, goalBudget,
                       goalNotes>>

AskDeleteGoal ==
    /\ ~goalForm.open /\ confirmGoal = 0 /\ GoalAct
    /\ \E y \in GoalYears : goals[y] # 0 /\ confirmGoal' = y
    /\ UNCHANGED <<serverGoals, goals, goalForm, goalPuts, goalDeletes, goalLoads, goalsElsewhere, untold,
                   goalNotes>>

\* Cancel, or Delete: the dialog closes before the request is made.
CloseDeleteGoal ==
    /\ confirmGoal # 0 /\ confirmGoal' = 0
    /\ goalDeletes' \in {goalDeletes, goalDeletes \cup {[year |-> confirmGoal, phase |-> "asked"]}}
    /\ UNCHANGED <<serverGoals, goals, goalForm, goalPuts, goalLoads, goalsElsewhere, untold, goalBudget,
                   goalNotes>>

ServeGoalDelete ==
    \E d \in goalDeletes :
        /\ d.phase = "asked"
        /\ LET gone == [serverGoals EXCEPT ![d.year] = 0]
               Answered(ph) == goalDeletes' = (goalDeletes \ {d}) \cup {[d EXCEPT !.phase = ph]}
           IN  \/ /\ serverGoals' = gone /\ UNCHANGED <<goalBudget, goalNotes>>
                  /\ Answered(IF serverGoals[d.year] = 0 THEN "failed" ELSE "ok")
               \/ /\ GoalFault /\ serverGoals' \in {serverGoals, gone} /\ Answered("failed")
                  /\ goalNotes' = goalNotes \cup {"unanswered"}
        /\ UNCHANGED <<goals, goalForm, goalPuts, confirmGoal, goalLoads, goalsElsewhere, untold>>

GoalDeleted ==
    \E d \in goalDeletes :
        /\ d.phase # "asked" /\ goalDeletes' = goalDeletes \ {d}
        /\ goalLoads' = IF d.phase = "ok" THEN Append(goalLoads, GoalLoad) ELSE goalLoads
        /\ UNCHANGED <<serverGoals, goals, goalForm, goalPuts, confirmGoal, goalsElsewhere, untold, goalBudget,
                       goalNotes>>

\* Another device sets or deletes a goal; the list hears nothing of it.
GoalsElsewhere ==
    /\ GoalFault
    /\ \E y \in GoalYears, t \in GoalTargets \cup {0} :
          /\ t # serverGoals[y] /\ serverGoals' = [serverGoals EXCEPT ![y] = t]
          /\ goalsElsewhere' = goalsElsewhere \cup {y}
          /\ goalNotes' = IF \/ \E i \in DOMAIN goalLoads : goalLoads[i].phase = "ok"
                             \/ \E p \in goalPuts : p.phase = "asked" /\ p.year = y
                          THEN goalNotes \cup {"outrun"} ELSE goalNotes
    /\ UNCHANGED <<goals, goalForm, goalPuts, confirmGoal, goalDeletes, goalLoads, untold>>

SavingsNext ==
    \/ ServeGoalLoad \/ FetchGoals \/ OpenGoalDialog \/ TypeGoal \/ CloseGoalDialog \/ OnAddGoal
    \/ ServeGoalPut \/ GoalSaved \/ AskDeleteGoal \/ CloseDeleteGoal \/ ServeGoalDelete \/ GoalDeleted
    \/ GoalsElsewhere

-----------------------------------------------------------------------------
\* The page's state (Savings.tsx:76).
SavingsTypeOK ==
    /\ {serverGoals, goals} \subseteq [GoalYears -> GoalTargets \cup {0}]
    /\ goalForm.year \in GoalYears \cup {0} /\ goalForm.target \in GoalTargets \cup {0}
    /\ confirmGoal \in GoalYears \cup {0} /\ {goalForm.open, untold} \subseteq BOOLEAN
    /\ \A i \in DOMAIN goalLoads : goalLoads[i].phase \in {"asked", "ok", "failed"}

\* With nothing under way the list is the server's, but for the goals another
\* device wrote since it was loaded; unless a load failed, came out of order or
\* was outrun by such a write, or an answer was lost (Savings.tsx:117).
GoalsShownAreTrue ==
    goalLoads = <<>> /\ goalPuts = {} /\ goalDeletes = {}
    /\ goalNotes \cap {"failed", "crossed", "unanswered", "outrun"} = {}
    => \A y \in GoalYears \ goalsElsewhere : goals[y] = serverGoals[y]

\* A goal is replaced only by a dialog that said so, unless it was sent while
\* another goal or the list was under way, from a list that is not the server's
\* for a reason above, or about a goal another device wrote meanwhile
\* (Savings.tsx:99).
GoalReplacementIsTold == untold => goalNotes # {}
=============================================================================
