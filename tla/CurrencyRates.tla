---------------------------- MODULE CurrencyRates ----------------------------
(***************************************************************************)
(* The currencies of the settings page.  The list is loaded with the rates *)
(* into one editable text each; saving sends one PUT per rate that differs *)
(* from the list, stops at the first failure and loads the list again      *)
(* without waiting for it; adding a currency loads it again too, and every *)
(* load replaces the rates being typed.  A rate is a number, 0 an empty    *)
(* field; names and symbols are left out, and the base currency with them. *)
(***************************************************************************)
EXTENDS Integers, Sequences, FiniteSets

CONSTANTS CurrencyCount, Rates, MaxRateActs, MaxRateFaults

ASSUME RateAssumption ==
    /\ CurrencyCount \in Nat \ {0} /\ Rates \subseteq Nat \ {0} /\ Rates # {}
    /\ {MaxRateActs, MaxRateFaults} \subseteq Nat

Codes == 1..CurrencyCount
FirstRate == CHOOSE r \in Rates : \A q \in Rates : r <= q
\* A rate of 0: the currency does not exist, or its field is empty.
RateLists == [Codes -> Rates \cup {0}]

VARIABLES
    rates,          \* server
    currencies,     \* the list on screen
    editRates,
    rateSave,       \* handleSaveRates: what it captured, the codes left to look at
    addition,       \* onAddCurrency: the code and rate asked for, and the answer
    rateLoads,      \* GETs under way, in the order they were sent
    rateBudget, rateNotes

rateVars == <<rates, currencies, editRates, rateSave, addition, rateLoads, rateBudget, rateNotes>>

RateAct   == rateBudget.acts < MaxRateActs /\ rateBudget' = [rateBudget EXCEPT !.acts = @ + 1]
RateFault == /\ rateBudget.faults < MaxRateFaults
             /\ rateBudget' = [rateBudget EXCEPT !.faults = @ + 1]

NoCurrencies == [c \in Codes |-> 0]
RateLoad == [phase |-> "asked", data |-> NoCurrencies]
NotSavingRates == [on |-> FALSE, at |-> 1, list |-> NoCurrencies, shown |-> NoCurrencies, ok |-> FALSE]
NoAddition == [code |-> 0, rate |-> 0, phase |-> "none"]
WithoutLoad(i) == SubSeq(rateLoads, 1, i - 1) \o SubSeq(rateLoads, i + 1, Len(rateLoads))

RateInit ==
    /\ rates = [c \in Codes |-> IF c = CurrencyCount THEN 0 ELSE FirstRate]
    /\ currencies = NoCurrencies /\ editRates = NoCurrencies
    /\ rateSave = NotSavingRates /\ addition = NoAddition /\ rateLoads = <<RateLoad>>
    /\ rateBudget = [acts |-> 0, faults |-> 0] /\ rateNotes = {}

ServeRateLoad ==
    \E i \in DOMAIN rateLoads :
        /\ rateLoads[i].phase = "asked"
        /\ \/ /\ rateLoads' = [rateLoads EXCEPT ![i] = [phase |-> "ok", data |-> rates]]
              /\ UNCHANGED rateBudget
           \/ RateFault /\ rateLoads' = [rateLoads EXCEPT ![i].phase = "failed"]
        /\ UNCHANGED <<rates, currencies, editRates, rateSave, addition, rateNotes>>

\* The list and the typed rates are replaced; a failed load changes neither.
FetchCurrencies ==
    \E i \in DOMAIN rateLoads :
        /\ rateLoads[i].phase # "asked"
        /\ rateLoads' = WithoutLoad(i)
        /\ IF rateLoads[i].phase = "failed"
           THEN UNCHANGED <<currencies, editRates>> /\ rateNotes' = rateNotes \cup {"failed"}
           ELSE /\ currencies' = rateLoads[i].data
                /\ editRates' = rateLoads[i].data
                /\ rateNotes' = IF i = 1 THEN rateNotes ELSE rateNotes \cup {"crossed"}
        /\ UNCHANGED <<rates, rateSave, addition, rateBudget>>

\* The fields stay editable while a save is under way.
OnRateChange ==
    /\ RateAct
    /\ \E c \in Codes, r \in Rates \cup {0} :
          currencies[c] # 0 /\ r # editRates[c] /\ editRates' = [editRates EXCEPT ![c] = r]
    /\ UNCHANGED <<rates, currencies, rateSave, addition, rateLoads, rateNotes>>

HandleSaveRates ==
    /\ ~rateSave.on /\ RateAct
    /\ rateSave' = [on |-> TRUE, at |-> 1, list |-> currencies, shown |-> editRates, ok |-> TRUE]
    /\ rateNotes' = IF rateLoads = <<>> /\ addition = NoAddition THEN rateNotes
                    ELSE rateNotes \cup {"early"}
    /\ UNCHANGED <<rates, currencies, editRates, addition, rateLoads>>

\* An empty field, or one that agrees with the list, is not sent.
Differs(c) == rateSave.shown[c] # 0 /\ rateSave.shown[c] # rateSave.list[c]

SaveRate ==
    /\ rateSave.on /\ rateSave.at \in Codes
    /\ LET c == rateSave.at
           put == [rates EXCEPT ![c] = rateSave.shown[c]]
       IN  \/ /\ rates' = IF Differs(c) THEN put ELSE rates
              /\ rateSave' = [rateSave EXCEPT !.at = c + 1]
              /\ UNCHANGED rateBudget
           \/ /\ Differs(c) /\ RateFault
              /\ rates' \in {rates, put}
              /\ rateSave' = [rateSave EXCEPT !.at = CurrencyCount + 1, !.ok = FALSE]
    /\ UNCHANGED <<currencies, editRates, addition, rateLoads, rateNotes>>

\* The finally block: Save is enabled again before the list is read.
SaveRatesEnds ==
    /\ rateSave.on /\ rateSave.at \notin Codes
    /\ rateSave' = NotSavingRates
    /\ rateLoads' = Append(rateLoads, RateLoad)
    /\ UNCHANGED <<rates, currencies, editRates, addition, rateBudget, rateNotes>>

\* One at a time here: the form has no busy state.
OnAddCurrency ==
    /\ addition = NoAddition /\ RateAct
    /\ \E c \in Codes, r \in Rates : addition' = [code |-> c, rate |-> r, phase |-> "asked"]
    /\ rateNotes' = IF rateSave.on THEN rateNotes \cup {"early"} ELSE rateNotes
    /\ UNCHANGED <<rates, currencies, editRates, rateSave, rateLoads>>

\* A code that exists is overwritten.
ServeAddition ==
    /\ addition.phase = "asked"
    /\ LET added == [rates EXCEPT ![addition.code] = addition.rate]
       IN  \/ /\ rates' = added /\ addition' = [addition EXCEPT !.phase = "ok"]
              /\ UNCHANGED rateBudget
              /\ UNCHANGED rateNotes
           \/ /\ RateFault /\ addition' = [addition EXCEPT !.phase = "failed"]
              /\ \/ UNCHANGED <<rates, rateNotes>>
                 \/ rates' = added /\ rateNotes' = rateNotes \cup {"lost"}
    /\ UNCHANGED <<currencies, editRates, rateSave, rateLoads>>

\* Only a success reads the list again.
AdditionAnswered ==
    /\ addition.phase \in {"ok", "failed"}
    /\ rateLoads' = IF addition.phase = "ok" THEN Append(rateLoads, RateLoad) ELSE rateLoads
    /\ addition' = NoAddition
    /\ UNCHANGED <<rates, currencies, editRates, rateSave, rateBudget, rateNotes>>

RateNext ==
    \/ ServeRateLoad \/ FetchCurrencies \/ OnRateChange \/ HandleSaveRates \/ SaveRate
    \/ SaveRatesEnds \/ OnAddCurrency \/ ServeAddition \/ AdditionAnswered

----------------------------------------------------------------------------
RateTypeOK ==
    /\ {rates, currencies, editRates} \subseteq RateLists
    /\ rateSave.at \in 1..(CurrencyCount + 1)
    /\ addition.code \in {0} \cup Codes

\* A save none of whose requests failed leaves every rate the form showed with
\* a value as the server's, those it did not send included; unless Save was
\* pressed while the list was being read or a currency added, or a list came
\* out of order or not at all.
RatesSavedAsShown ==
    rateSave.on /\ rateSave.ok /\ rateSave.at \notin Codes /\ rateNotes = {}
    => \A c \in Codes : rateSave.shown[c] # 0 => rates[c] = rateSave.shown[c]

\* With nothing under way the list is the server's, after a save that failed
\* half way too; with the same exceptions, and an addition whose answer was lost.
RatesShownAreTrue ==
    ~rateSave.on /\ addition = NoAddition /\ rateLoads = <<>> /\ rateNotes = {}
    => currencies = rates
=============================================================================
