------------------------------ MODULE AmountBox ------------------------------
(***************************************************************************)
(* The amount box of an edit or entry form (AmountCurrencyInput): the text *)
(* the user types, the number the form holds, a currency, a refund toggle, *)
(* and below it what the money is worth in the base currency, which has to *)
(* say what the server will store.  The server prices foreign money at its *)
(* rate of the moment, unless the edit restates the foreign amount the row *)
(* has; the box mirrors both rules on a row and rates it loaded earlier.   *)
(* Typed amounts are counted in half cents, stored ones in signed cents.   *)
(***************************************************************************)
EXTENDS Integers, FiniteSets

CONSTANTS BoxAmounts, ForeignCodes, BoxRates, MaxBoxActs, MaxBoxFaults

ASSUME BoxAssumption ==
    /\ BoxAmounts \subseteq Nat \ {0} /\ BoxRates \subseteq Nat \ {0} /\ BoxRates # {}
    /\ IsFiniteSet(ForeignCodes) /\ ForeignCodes # {} /\ "base" \notin ForeignCodes
    /\ {MaxBoxActs, MaxBoxFaults} \subseteq Nat

VARIABLES
    storedMoney,      \* the server's row: cents, orig (0 for none), code, booked rate
    listedMoney,      \* the row as the page last loaded it
    serverRates, listedRates,
    currencies,       \* "loading", "loaded" or "failed"
    box,              \* the form's fields and the box's text and focus
    boxSave,          \* the save under way
    lastStored,       \* what the last save served was shown to store, and what it did
    boxNotes, boxBudget

boxVars == <<storedMoney, listedMoney, serverRates, listedRates, currencies, box, boxSave,
             lastStored, boxNotes, boxBudget>>

BoxAct == boxBudget.acts < MaxBoxActs /\ boxBudget' = [boxBudget EXCEPT !.acts = @ + 1]
BoxFault == boxBudget.faults < MaxBoxFaults /\ boxBudget' = [boxBudget EXCEPT !.faults = @ + 1]

-----------------------------------------------------------------------------
\* Both sides round a half away from zero; magnitudes here, the sign apart.
Rounded(n, d) == (2 * n + d) \div (2 * d)
Magnitude(c) == IF c < 0 THEN -c ELSE c
Signed(c, negative) == IF negative THEN -c ELSE c

\* resolveCurrency and convertForeignMoney: the original is put on the cents grid
\* before it is divided; an amount worth no cents is refused.
Priced(typed, code, negative, rates) ==
    LET grid == Rounded(typed, 2)
        worth == IF code = "base" THEN grid ELSE Rounded(grid, rates[code])
    IN  IF grid = 0 \/ worth = 0 THEN {}
        ELSE {[cents |-> Signed(worth, negative),
               orig |-> IF code = "base" THEN 0 ELSE Signed(grid, negative),
               code |-> code, booked |-> IF code = "base" THEN 0 ELSE rates[code]]}

SameDirection(value, ref) == IF ref = 0 \/ (value < 0) = (ref < 0) THEN value ELSE -value

\* TransactionStore.Update: restated foreign money keeps its base magnitude and its
\* rate, and takes the requested direction.
MagnitudeUnchanged(before, after) ==
    /\ before.orig # 0 /\ after.orig # 0 /\ before.code = after.code
    /\ Magnitude(before.orig) = Magnitude(after.orig)
Kept(before, after) ==
    IF MagnitudeUnchanged(before, after)
    THEN [after EXCEPT !.cents = SameDirection(before.cents, after.orig), !.booked = before.booked]
    ELSE after

-----------------------------------------------------------------------------
\* mutant: the mirror compares what the toggle would make of the amount
FrozenSigned(b, row) ==
    /\ b.code # "base" /\ row.orig # 0 /\ b.code = row.code
    /\ Signed(Rounded(b.typed, 2), b.negative) = row.orig

\* foreignMagnitudeUnchanged, the box's mirror of the store's predicate
Frozen(b, row) ==
    /\ b.code # "base" /\ row.orig # 0 /\ b.code = row.code
    /\ Rounded(b.typed, 2) = Magnitude(row.orig)

\* What the line below the box says, to the cent it is rendered with.
previewValue(b) ==
    IF b.mode = "edit" /\ Frozen(b, listedMoney) THEN Magnitude(listedMoney.cents)
    ELSE Rounded(b.typed, 2 * listedRates[b.code])
ShowsPreview(b) == currencies = "loaded" /\ b.code \in ForeignCodes /\ listedRates[b.code] # 0

\* baseCode: until the list is there the base currency is taken to be "USD".
baseCode == IF currencies = "loaded" THEN "base" ELSE "USD"

\* toEditDefaults split into a magnitude and a direction.
Defaults(row, base) ==
    IF row.orig # 0 THEN [typed |-> 2 * Magnitude(row.orig), code |-> row.code, negative |-> row.orig < 0]
    ELSE [typed |-> 2 * Magnitude(row.cents), code |-> base, negative |-> row.cents < 0]

\* `from` and `base` are the row and the base currency the fields were filled from, `touched`
\* whether the user has changed the amount or the currency since.
FilledBox(b, row, base, text) ==
    LET d == Defaults(row, base)
    IN  [b EXCEPT !.mode = "edit", !.typed = d.typed, !.code = d.code, !.negative = d.negative,
                  !.text = text, !.from = row, !.base = base, !.touched = FALSE]
Cleared(b) == [b EXCEPT !.typed = 0, !.negative = FALSE, !.focused = FALSE, !.text = 0]
ClosedBox == [mode |-> "closed", typed |-> 0, text |-> 0, code |-> "base", negative |-> FALSE,
              focused |-> FALSE, hydrated |-> FALSE, touched |-> FALSE, from |-> <<>>, base |-> "base"]
NoBoxSave == [phase |-> "none"]
NothingStored == [served |-> FALSE]

AllRates == [ForeignCodes -> BoxRates]
Rows(rates) == UNION {Priced(t, c, n, rates) : t \in BoxAmounts, c \in ForeignCodes \cup {"base"},
                                               n \in BOOLEAN}

BoxInit ==
    /\ serverRates \in AllRates /\ storedMoney \in Rows(serverRates)
    /\ listedMoney = storedMoney /\ listedRates = [c \in ForeignCodes |-> 0] /\ currencies = "loading"
    /\ box = ClosedBox /\ boxSave = NoBoxSave /\ lastStored = NothingStored
    /\ boxNotes = {} /\ boxBudget = [acts |-> 0, faults |-> 0]

-----------------------------------------------------------------------------
\* The server, as other devices use it.
SetRate ==
    /\ BoxAct
    /\ \E c \in ForeignCodes, r \in BoxRates :
          r # serverRates[c] /\ serverRates' = [serverRates EXCEPT ![c] = r]
    /\ UNCHANGED <<storedMoney, listedMoney, listedRates, currencies, box, boxSave, lastStored, boxNotes>>

EditedElsewhere ==
    /\ BoxAct
    /\ \E row \in Rows(serverRates) : storedMoney' = Kept(storedMoney, row) /\ storedMoney' # storedMoney
    /\ UNCHANGED <<listedMoney, serverRates, listedRates, currencies, box, boxSave, lastStored, boxNotes>>

RowRefetched ==
    /\ listedMoney # storedMoney /\ listedMoney' = storedMoney
    /\ UNCHANGED <<storedMoney, serverRates, listedRates, currencies, box, boxSave, lastStored,
                   boxNotes, boxBudget>>

\* The first answer to the request for the currencies, good or bad, fills an open edit form
\* again, whatever was typed into it since; the box keeps its text while it has the focus.
Hydrate(base) ==
    IF box.mode = "edit" /\ ~box.hydrated
    THEN LET d == Defaults(listedMoney, base)
         IN  /\ box' = [FilledBox(box, listedMoney, base, IF box.focused THEN box.text ELSE d.typed)
                           EXCEPT !.hydrated = TRUE]
             /\ boxNotes' = boxNotes \cup (IF box.typed # d.typed THEN {"refilled"} ELSE {})
    ELSE UNCHANGED <<box, boxNotes>>

CurrenciesLoaded ==
    /\ listedRates # serverRates \/ currencies # "loaded"
    /\ listedRates' = serverRates /\ currencies' = "loaded" /\ Hydrate("base")
    /\ UNCHANGED <<storedMoney, listedMoney, serverRates, boxSave, lastStored, boxBudget>>

CurrenciesFailed ==
    /\ currencies = "loading" /\ BoxFault /\ currencies' = "failed" /\ Hydrate("USD")
    /\ UNCHANGED <<storedMoney, listedMoney, serverRates, listedRates, boxSave, lastStored>>

-----------------------------------------------------------------------------
\* The form; an entry form is taken to open once the list is there.
OpenBox(mode) ==
    /\ BoxAct /\ box.mode = "closed"
    /\ \/ /\ mode = "edit"
          /\ box' = [FilledBox(ClosedBox, listedMoney, baseCode, Defaults(listedMoney, baseCode).typed)
                        EXCEPT !.hydrated = currencies # "loading"]
       \/ mode = "entry" /\ currencies = "loaded" /\ box' = [ClosedBox EXCEPT !.mode = "entry"]
    /\ boxNotes' = {}
    /\ UNCHANGED <<storedMoney, listedMoney, serverRates, listedRates, currencies, boxSave, lastStored>>

\* 0 is the empty box; "1e" and the like are kept as text and held as 0.
TypeAmount ==
    /\ BoxAct /\ box.mode # "closed" /\ box.focused
    /\ \E text \in BoxAmounts \cup {0, -1} :
          text # box.text /\ box' = [box EXCEPT !.text = text, !.typed = IF text = -1 THEN 0 ELSE text,
                                             !.touched = TRUE]
    /\ boxNotes' = {}
    /\ UNCHANGED <<storedMoney, listedMoney, serverRates, listedRates, currencies, boxSave,
                   lastStored>>

FocusBox ==
    /\ box.mode # "closed" /\ ~box.focused /\ BoxAct /\ box' = [box EXCEPT !.focused = TRUE]
    /\ UNCHANGED <<storedMoney, listedMoney, serverRates, listedRates, currencies, boxSave,
                   lastStored, boxNotes>>

\* mutant: leaving the box leaves its text
BlurBoxKeepsText ==
    /\ box.mode # "closed" /\ box.focused /\ box' = [box EXCEPT !.focused = FALSE]
    /\ UNCHANGED <<storedMoney, listedMoney, serverRates, listedRates, currencies, boxSave,
                   lastStored, boxNotes, boxBudget>>

BlurBox ==
    /\ box.mode # "closed" /\ box.focused /\ box' = [box EXCEPT !.focused = FALSE, !.text = box.typed]
    /\ boxNotes' = {}
    /\ UNCHANGED <<storedMoney, listedMoney, serverRates, listedRates, currencies, boxSave,
                   lastStored, boxBudget>>

FlipRefund ==
    /\ box.mode # "closed" /\ BoxAct /\ box' = [box EXCEPT !.negative = ~@]
    /\ UNCHANGED <<storedMoney, listedMoney, serverRates, listedRates, currencies, boxSave,
                   lastStored, boxNotes>>

\* The picker offers no currency without a rate, and nothing while the list loads.
PickCurrency ==
    /\ box.mode # "closed" /\ currencies = "loaded" /\ BoxAct
    /\ \E c \in {"base"} \cup {f \in ForeignCodes : listedRates[f] # 0} :
          /\ c # box.code
          /\ box' = [box EXCEPT !.code = c, !.focused = FALSE, !.text = box.typed, !.touched = TRUE]
    /\ boxNotes' = {}
    /\ UNCHANGED <<storedMoney, listedMoney, serverRates, listedRates, currencies, boxSave,
                   lastStored>>

CancelBox ==
    /\ box.mode # "closed" /\ boxSave = NoBoxSave /\ box' = ClosedBox
    /\ UNCHANGED <<storedMoney, listedMoney, serverRates, listedRates, currencies, boxSave,
                   lastStored, boxNotes, boxBudget>>

\* the row's currency is not what its form takes it for
Misread ==
    \/ box.from.code = "USD" /\ baseCode = "USD"
    \/ box.from.code = "base" /\ box.base # baseCode

\* Saving takes the fields as they are; an empty box, a list still loading and a
\* currency without a rate refuse.
SaveBox ==
    /\ box.mode # "closed" /\ boxSave = NoBoxSave /\ BoxAct
    /\ box.typed # 0 /\ currencies # "loading" /\ (box.code # baseCode => ShowsPreview(box))
    /\ boxSave' = [phase |-> "asked", mode |-> box.mode, typed |-> box.typed, negative |-> box.negative,
                   code |-> IF box.code = baseCode THEN "base" ELSE box.code,
                   untouched |-> box.mode = "edit" /\ ~box.touched, from |-> box.from,
                   misread |-> box.mode = "edit" /\ Misread,
                   says |-> IF ShowsPreview(box) THEN previewValue(box) ELSE Rounded(box.typed, 2),
                   row |-> listedMoney, rates |-> listedRates]
    /\ UNCHANGED <<storedMoney, listedMoney, serverRates, listedRates, currencies, box,
                   lastStored, boxNotes>>

ServeBoxSave ==
    /\ boxSave.phase = "asked"
    /\ LET s == boxSave
           priced == Priced(s.typed, s.code, s.negative, serverRates)
           Answer(ok) == boxSave' = [s EXCEPT !.phase = IF ok THEN "ok" ELSE "failed"]
           Store(row) ==
               lastStored' = [served |-> TRUE, save |-> s, before |-> storedMoney, after |-> row,
                              frozen |-> s.mode = "edit" /\ Frozen(s, s.row),
                              stale |-> \/ s.mode = "edit" /\ s.row # storedMoney
                                        \/ /\ s.code # "base" /\ ~(s.mode = "edit" /\ Frozen(s, s.row))
                                           /\ s.rates[s.code] # serverRates[s.code]]
       IN  \/ /\ priced = {} /\ Answer(FALSE) /\ UNCHANGED <<storedMoney, lastStored, boxBudget>>
           \/ /\ BoxFault /\ Answer(FALSE) /\ UNCHANGED <<storedMoney, lastStored>>
           \/ \E p \in priced :
                 LET row == IF s.mode = "edit" THEN Kept(storedMoney, p) ELSE p
                 IN  /\ storedMoney' = (IF s.mode = "edit" THEN row ELSE storedMoney)
                     /\ Store(row) /\ Answer(TRUE) /\ UNCHANGED boxBudget
    /\ UNCHANGED <<listedMoney, serverRates, listedRates, currencies, box, boxNotes>>

\* A saved edit closes; a saved entry empties the form and takes the focus off the box first.
BoxSaveAnswered ==
    /\ boxSave.phase \in {"ok", "failed"} /\ boxSave' = NoBoxSave
    /\ box' = CASE boxSave.phase = "failed" -> box
                [] boxSave.mode = "edit"    -> ClosedBox
                [] OTHER                    -> Cleared(box)
    /\ UNCHANGED <<storedMoney, listedMoney, serverRates, listedRates, currencies, lastStored,
                   boxNotes, boxBudget>>

BoxNext ==
    \/ SetRate \/ EditedElsewhere \/ RowRefetched \/ CurrenciesLoaded \/ CurrenciesFailed \/ TypeAmount \/ FocusBox
    \/ BlurBox \/ FlipRefund \/ PickCurrency \/ CancelBox \/ SaveBox \/ ServeBoxSave \/ BoxSaveAnswered
    \/ \E mode \in {"edit", "entry"} : OpenBox(mode)

-----------------------------------------------------------------------------
BoxTypeOK ==
    /\ storedMoney.cents # 0 /\ listedMoney.code \in ForeignCodes \cup {"base"}
    /\ box.mode \in {"closed", "edit", "entry"} /\ box.text \in Int /\ box.typed \in Nat
    /\ box.code \in ForeignCodes \cup {"base", "USD"}
    /\ boxSave.phase \in {"none", "asked", "ok", "failed"} /\ boxNotes \subseteq {"refilled"}

(* What the box says is what the form holds and would save: its text while it is not
   focused, and the text the user is typing while it is, unless the currency list came
   and filled the form again under the user's hands (AmountCurrencyInput.tsx:127,
   useTransactionEditForm.ts:172). *)
BoxSaysWhatItHolds ==
    box.mode # "closed" /\ boxNotes = {} =>
        IF box.focused THEN box.typed = (IF box.text = -1 THEN 0 ELSE box.text)
        ELSE box.text = box.typed

(* The value shown below the box is the one the save stores, to the cent, unless the row
   moved on the server since it was loaded, or, where the row's own money is not restated,
   the rate did, or the amount typed is not on the cents grid: the box divides it as it is,
   and the server rounds it first (foreignMagnitudeUnchanged on both sides,
   convertForeignMoney). *)
PreviewIsStored ==
    /\ lastStored.served /\ ~lastStored.stale
    /\ lastStored.frozen \/ lastStored.save.code = "base" \/ lastStored.save.typed % 2 = 0
    => Magnitude(lastStored.after.cents) = lastStored.save.says

(* The two halves of the money pair always point the way that was asked.  An edit that
   touched neither the amount nor the currency never moves the row's money, whatever the rate
   is by now and whichever way the refund toggle points, unless the row was edited elsewhere
   since the form was filled, or the base currency was "USD" for want of a list and is not, at
   either end of the edit (TransactionStore.Update, withSignOf, useCurrencies). *)
UntouchedMoneyStays ==
    lastStored.served =>
        LET s == lastStored.save
            b == lastStored.before
            a == lastStored.after
        IN  /\ (a.cents < 0) = s.negative
            /\ a.orig # 0 => (a.orig < 0) = s.negative
            /\ s.untouched /\ s.from = b /\ ~s.misread
               => Magnitude(a.cents) = Magnitude(b.cents) /\ a.code = b.code /\ a.booked = b.booked

MoneyIsAsShown == PreviewIsStored /\ UntouchedMoneyStays
=============================================================================
