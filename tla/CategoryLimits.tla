---------------------------- MODULE CategoryLimits ----------------------------
(***************************************************************************)
(* The category limits form: the limits of one month of one year, chosen   *)
(* by two selectors.  The form is hidden while it loads; a save sends the  *)
(* limits that were set, then those that were cleared, stops at the first  *)
(* failure and waits for a refresh.  A limit is a number, 0 for none;      *)
(* LimitInvalid stands for an amount the form refuses.  Other devices set  *)
(* limits too.                                                             *)
(***************************************************************************)
EXTENDS Integers, Sequences, FiniteSets

CONSTANTS LimitYears, LimitMonths, LimitCategories, Limits, LimitInvalid,
          MaxLimitActs, MaxLimitFaults

ASSUME LimitAssumption ==
    /\ \A S \in {LimitYears, LimitMonths, LimitCategories, Limits} : S \subseteq Nat \ {0} /\ S # {}
    /\ LimitInvalid \in Int \ Nat /\ {MaxLimitActs, MaxLimitFaults} \subseteq Nat

Periods == LimitYears \X LimitMonths
LimitForms == [LimitCategories -> Limits \cup {0, LimitInvalid}]
NoLimits == [c \in LimitCategories |-> 0]

VARIABLES
    categoryLimits,              \* server
    period, editLimits, limitBaseline, loading,
    pendingPeriod,               \* what the discard dialog asks about, or {}
    limitSave,                   \* requests left, the form as saved, whether all went well
    limitLoads,                  \* fetches under way, in the order they were sent
    limitsElsewhere,             \* categories another device wrote since the form was loaded or wrote them
    limitBudget, limitNotes

limitVars == <<categoryLimits, period, editLimits, limitBaseline, loading, pendingPeriod,
               limitSave, limitLoads, limitsElsewhere, limitBudget, limitNotes>>

LimitAct   == limitBudget.acts < MaxLimitActs /\ limitBudget' = [limitBudget EXCEPT !.acts = @ + 1]
LimitFault == /\ limitBudget.faults < MaxLimitFaults
              /\ limitBudget' = [limitBudget EXCEPT !.faults = @ + 1]

NoSave == [phase |-> "none", puts |-> {}, deletes |-> {}, shown |-> NoLimits, ok |-> FALSE]
LimitLoad(kind, p) == [kind |-> kind, period |-> p, phase |-> "asked", data |-> NoLimits]
FirstPeriod == CHOOSE p \in Periods : \A q \in Periods : p[1] <= q[1] /\ p[2] <= q[2]

LimitInit ==
    /\ categoryLimits \in [Periods -> {[c \in LimitCategories |-> CHOOSE l \in Limits : TRUE]}]
    /\ period = FirstPeriod /\ editLimits = NoLimits /\ limitBaseline = NoLimits /\ loading = TRUE
    /\ pendingPeriod = {} /\ limitSave = NoSave /\ limitLoads = <<LimitLoad("load", period)>>
    /\ limitsElsewhere = {}
    /\ limitBudget = [acts |-> 0, faults |-> 0] /\ limitNotes = {}

ServeLimits ==
    \E i \in DOMAIN limitLoads :
        /\ limitLoads[i].phase = "asked"
        /\ \/ /\ limitLoads' = [limitLoads EXCEPT ![i].phase = "ok",
                                                  ![i].data = categoryLimits[limitLoads[i].period]]
              /\ UNCHANGED limitBudget
           \/ LimitFault /\ limitLoads' = [limitLoads EXCEPT ![i].phase = "failed"]
        /\ UNCHANGED <<categoryLimits, period, editLimits, limitBaseline, loading, pendingPeriod,
                       limitSave, limitsElsewhere, limitNotes>>

\* A failed load empties the form; a failed refresh leaves it, still hidden.
FetchLimits ==
    \E i \in DOMAIN limitLoads :
        LET load == limitLoads[i]
        IN  /\ load.phase # "asked"
            /\ limitLoads' = SubSeq(limitLoads, 1, i - 1) \o SubSeq(limitLoads, i + 1, Len(limitLoads))
            /\ IF load.phase = "failed" /\ load.kind = "refresh"
               THEN UNCHANGED <<editLimits, limitBaseline, loading, limitsElsewhere>>
               ELSE /\ editLimits' = load.data /\ limitBaseline' = load.data /\ loading' = FALSE
                    /\ limitsElsewhere' = {}
            /\ limitSave' = IF load.kind = "refresh" THEN NoSave ELSE limitSave
            /\ limitNotes' = limitNotes \cup (IF Len(limitLoads) > 1 THEN {"crossed"} ELSE {})
                                        \cup (IF load.phase = "failed" THEN {"failed"} ELSE {})
            /\ UNCHANGED <<categoryLimits, period, pendingPeriod, limitBudget>>

Fillable == ~loading /\ limitSave = NoSave /\ pendingPeriod = {}

EditLimit ==
    /\ Fillable /\ LimitAct
    /\ \E c \in LimitCategories, l \in Limits \cup {0, LimitInvalid} :
          l # editLimits[c] /\ editLimits' = [editLimits EXCEPT ![c] = l]
    /\ UNCHANGED <<categoryLimits, period, limitBaseline, loading, pendingPeriod, limitSave,
                   limitLoads, limitsElsewhere, limitNotes>>

LimitChanged == {c \in LimitCategories : editLimits[c] # limitBaseline[c]}
\* Invalid amounts are not counted.
LimitDirty == {c \in LimitChanged : editLimits[c] # LimitInvalid}

SaveLimits ==
    /\ Fillable /\ LimitAct
    /\ LimitChanged # {} /\ LimitChanged = LimitDirty
    /\ limitSave' = [phase |-> "sending", shown |-> editLimits, ok |-> TRUE,
                     puts |-> {c \in LimitChanged : editLimits[c] # 0},
                     deletes |-> {c \in LimitChanged : editLimits[c] = 0}]
    /\ UNCHANGED <<categoryLimits, period, editLimits, limitBaseline, loading, pendingPeriod,
                   limitLoads, limitsElsewhere, limitNotes>>

\* The limits set before the limits cleared; a failure ends the save.
SaveLimit ==
    /\ limitSave.phase = "sending"
    /\ LET todo == IF limitSave.puts # {} THEN limitSave.puts ELSE limitSave.deletes
       IN  \E c \in todo :
             LET done == [categoryLimits EXCEPT ![period][c] = limitSave.shown[c]]
             IN  \/ /\ categoryLimits' = done
                    /\ limitSave' = [limitSave EXCEPT !.puts = @ \ {c}, !.deletes = @ \ {c}]
                    /\ limitsElsewhere' = limitsElsewhere \ {c} /\ UNCHANGED limitBudget
                 \/ /\ LimitFault /\ categoryLimits' \in {categoryLimits, done}
                    /\ limitSave' = [limitSave EXCEPT !.puts = {}, !.deletes = {}, !.ok = FALSE]
                    /\ UNCHANGED limitsElsewhere
    /\ UNCHANGED <<period, editLimits, limitBaseline, loading, pendingPeriod, limitLoads, limitNotes>>

SaveLimitsEnds ==
    /\ limitSave.phase = "sending" /\ limitSave.puts \cup limitSave.deletes = {}
    /\ limitSave' = [limitSave EXCEPT !.phase = "refreshing"]
    /\ loading' = TRUE /\ limitLoads' = Append(limitLoads, LimitLoad("refresh", period))
    /\ UNCHANGED <<categoryLimits, period, editLimits, limitBaseline, pendingPeriod, limitsElsewhere,
                   limitBudget, limitNotes>>

SwitchPeriod(p) ==
    period' = p /\ loading' = TRUE /\ limitLoads' = Append(limitLoads, LimitLoad("load", p))

\* One selector at a time; unsaved limits ask first.
SelectPeriod ==
    /\ limitSave = NoSave /\ pendingPeriod = {} /\ LimitAct
    /\ \E p \in Periods \ {period} :
          /\ p[1] = period[1] \/ p[2] = period[2]
          /\ IF LimitDirty # {}
             THEN pendingPeriod' = {p} /\ UNCHANGED <<period, loading, limitLoads>>
             ELSE SwitchPeriod(p) /\ UNCHANGED pendingPeriod
    /\ UNCHANGED <<categoryLimits, editLimits, limitBaseline, limitSave, limitsElsewhere, limitNotes>>

AnswerSwitch ==
    /\ pendingPeriod # {}
    /\ pendingPeriod' = {}
    /\ \/ \E p \in pendingPeriod : SwitchPeriod(p)
       \/ UNCHANGED <<period, loading, limitLoads>>
    /\ UNCHANGED <<categoryLimits, editLimits, limitBaseline, limitSave, limitsElsewhere, limitBudget,
                   limitNotes>>

\* Another device sets or clears a limit; the form hears nothing of it.
LimitsElsewhere ==
    /\ LimitFault
    /\ \E p \in Periods, c \in LimitCategories, l \in Limits \cup {0} :
          /\ l # categoryLimits[p][c] /\ categoryLimits' = [categoryLimits EXCEPT ![p][c] = l]
          /\ limitsElsewhere' = IF p = period THEN limitsElsewhere \cup {c} ELSE limitsElsewhere
          /\ limitNotes' = IF \E i \in DOMAIN limitLoads : limitLoads[i].phase = "ok" /\ limitLoads[i].period = p
                           THEN limitNotes \cup {"outrun"} ELSE limitNotes
    /\ UNCHANGED <<period, editLimits, limitBaseline, loading, pendingPeriod, limitSave, limitLoads>>

LimitNext ==
    \/ ServeLimits \/ FetchLimits \/ EditLimit \/ SaveLimits \/ SaveLimit \/ SaveLimitsEnds
    \/ SelectPeriod \/ AnswerSwitch \/ LimitsElsewhere

----------------------------------------------------------------------------
LimitTypeOK ==
    /\ \A p \in Periods : categoryLimits[p] \in LimitForms
    /\ period \in Periods /\ editLimits \in LimitForms /\ limitBaseline \in LimitForms
    /\ limitSave.phase \in {"none", "sending", "refreshing"} /\ loading \in BOOLEAN

\* A save whose every request succeeded leaves the month's limits as the form
\* showed them, cleared ones included -- but for those another device wrote after
\* the form was loaded: of these the form sends only the ones the user changed.
\* Set aside: two loads under way at once, one that failed, and one that another
\* device's write outran.
SavedLimitsAreWhatWasShown ==
    limitSave.phase = "refreshing" /\ limitSave.ok /\ limitNotes = {}
    => \A c \in LimitCategories \ limitsElsewhere : categoryLimits[period][c] = limitSave.shown[c]

\* With nothing under way the form is on screen, and its baseline is the month it
\* names, after a save that failed half way too, but for what another device wrote
\* since.  Set aside: the same loads (a refresh that fails leaves the form hidden).
LimitsFormComesBack ==
    limitSave = NoSave /\ limitLoads = <<>> /\ limitNotes = {} =>
        /\ ~loading
        /\ \A c \in LimitCategories \ limitsElsewhere : limitBaseline[c] = categoryLimits[period][c]
=============================================================================
