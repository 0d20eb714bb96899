-------------------------------- MODULE Heatmap --------------------------------
(***************************************************************************)
(* The spending heatmap: a grid of a year's days (one row per weekday) or, *)
(* on a phone, of a month's (one row per week), one tab stop that follows  *)
(* the arrow keys, a colour per day by the rank of its spending, and a     *)
(* sheet for the day that is opened.  A date is its number in the year, 0  *)
(* a cell without a day; labels and money formats are left out.            *)
(***************************************************************************)
EXTENDS Integers, Sequences, FiniteSets, FiniteSetsExt

CONSTANTS HeatYears, TodayYear, TodayDate, HeatDays, HeatTotals, MaxHeatActs

ASSUME HeatAssumption ==
    /\ HeatYears \subseteq Nat \ {0} /\ TodayYear \in Nat /\ HeatDays \subseteq 1..365
    /\ HeatTotals \subseteq Int /\ (\E t \in HeatTotals : t > 0) /\ MaxHeatActs \in Nat

VARIABLES
    heatYear, narrow,             \* props: the year, and the viewport
    monthFor,                     \* the month on show, and the year it was chosen for
    heatData,                     \* day -> its total; days not in it have no rows
    focusedDate,                  \* <<year, date>>, or <<0, 0>>
    openDay, openedFrom,          \* the sheet's day as it was when opened, and the cell's date
    heatFocus,                    \* "page", "sheet", "lost", or "cell": the focused date's
    heatBudget, heatNotes

heatVars == <<heatYear, narrow, monthFor, heatData, focusedDate, openDay, openedFrom, heatFocus,
              heatBudget, heatNotes>>

HeatAct == heatBudget < MaxHeatActs /\ heatBudget' = heatBudget + 1

-----------------------------------------------------------------------------
\* The calendar (JavaScript's Date): 0 is Sunday.
Leap(y) == y % 4 = 0 /\ (y % 100 # 0 \/ y % 400 = 0)
YearLength(y) == IF Leap(y) THEN 366 ELSE 365
UTCDay(y, d) == (y + (y - 1) \div 4 - (y - 1) \div 100 + (y - 1) \div 400 + d - 1) % 7
MonthLength(y, m) == IF m = 2 THEN (IF Leap(y) THEN 29 ELSE 28)
                     ELSE IF m \in {4, 6, 9, 11} THEN 30 ELSE 31
DaysBefore == <<0, 31, 59, 90, 120, 151, 181, 212, 243, 273, 304, 334>>
FirstOf(y, m) == DaysBefore[m] + (IF m > 2 /\ Leap(y) THEN 2 ELSE 1)
MonthOf(y, d) == CHOOSE m \in 1..12 : d \in FirstOf(y, m)..(FirstOf(y, m) + MonthLength(y, m) - 1)

ASSUME TodayAssumption == TodayDate \in 1..YearLength(TodayYear)

WeekdayCount == 7
StartWeekday(y, first) == (UTCDay(y, first) + 6) % WeekdayCount

\* The days first..last, padded to whole weeks that start on Monday.
GenerateDates(y, first, last) ==
    LET lead == StartWeekday(y, first)
        len == last - first + 1
        weeks == (lead + len + WeekdayCount - 1) \div WeekdayCount
    IN  [i \in 1..(weeks * WeekdayCount) |-> IF i - lead \in 1..len THEN first + i - lead - 1 ELSE 0]

ToWeekdayRows(cells) ==
    [r \in 1..WeekdayCount |-> [c \in 1..(Len(cells) \div WeekdayCount) |->
                                   cells[(c - 1) * WeekdayCount + r]]]
ToWeekRows(cells) ==
    [r \in 1..(Len(cells) \div WeekdayCount) |-> [c \in 1..WeekdayCount |->
                                                     cells[(r - 1) * WeekdayCount + c]]]

YearCells == [y \in HeatYears |-> GenerateDates(y, 1, YearLength(y))]
MonthCells == [y \in HeatYears |-> [m \in 1..12 |->
                  GenerateDates(y, FirstOf(y, m), FirstOf(y, m) + MonthLength(y, m) - 1)]]
YearGrids == [y \in HeatYears |-> ToWeekdayRows(YearCells[y])]
MonthGrids == [y \in HeatYears |-> [m \in 1..12 |-> ToWeekRows(MonthCells[y][m])]]

\* What is rendered: a month chosen for another year gives way to the default.
DefaultMonth(y) == IF y = TodayYear THEN MonthOf(y, TodayDate) ELSE 1
Month == IF monthFor[1] = heatYear THEN monthFor[2] ELSE DefaultMonth(heatYear)
Cells == IF narrow THEN MonthCells[heatYear][Month] ELSE YearCells[heatYear]
Grid == IF narrow THEN MonthGrids[heatYear][Month] ELSE YearGrids[heatYear]

Places(g) == (DOMAIN g) \X (DOMAIN g[1])
At(g, p) == g[p[1]][p[2]]
DatesOf(g) == {At(g, p) : p \in Places(g)} \ {0}
PlaceOf(g, d) == CHOOSE p \in Places(g) : At(g, p) = d
FirstPlace(g) == CHOOSE p \in Places(g) :
                    At(g, p) # 0 /\ \A q \in Places(g) : At(g, q) # 0 =>
                        p[1] < q[1] \/ (p[1] = q[1] /\ p[2] <= q[2])
LastPlace(g) == CHOOSE p \in Places(g) :
                    At(g, p) # 0 /\ \A q \in Places(g) : At(g, q) # 0 =>
                        p[1] > q[1] \/ (p[1] = q[1] /\ p[2] >= q[2])

\* The cell with a day nearest to p along a line of the grid, if there is one.
Nearest(g, p, dr, dc) ==
    LET line == {n \in 1..60 : <<p[1] + n * dr, p[2] + n * dc>> \in Places(g)
                               /\ At(g, <<p[1] + n * dr, p[2] + n * dc>>) # 0}
    IN  IF line = {} THEN 0
        ELSE LET n == Min(line) IN At(g, <<p[1] + n * dr, p[2] + n * dc>>)

Row(g, p) == {c \in DOMAIN g[p[1]] : g[p[1]][c] # 0}

KeyTarget(g, p, key) ==
    CASE key = "ArrowRight" -> Nearest(g, p, 0, 1)
      [] key = "ArrowLeft"  -> Nearest(g, p, 0, -1)
      [] key = "ArrowDown"  -> Nearest(g, p, 1, 0)
      [] key = "ArrowUp"    -> Nearest(g, p, -1, 0)
      [] key = "Home"       -> g[p[1]][Min(Row(g, p))]
      [] key = "End"        -> g[p[1]][Max(Row(g, p))]
      [] key = "CtrlHome"   -> At(g, FirstPlace(g))
      [] key = "CtrlEnd"    -> At(g, LastPlace(g))
Arrows == {"ArrowRight", "ArrowLeft", "ArrowDown", "ArrowUp"}
HeatKeys == Arrows \cup {"Home", "End", "CtrlHome", "CtrlEnd"}

InGrid(d) == d # 0 /\ \E i \in DOMAIN Cells : Cells[i] = d

\* The colour, 1 (palest) to 4, by rank among the days with spending.
Spending == {d \in DOMAIN heatData : heatData[d] > 0}
Intensity(total) ==
    LET n == Cardinality(Spending)
        rank == Cardinality({d \in Spending : heatData[d] <= total})
    IN  IF total <= 0 THEN 1 ELSE IF n = 0 THEN 4
        ELSE LET bucket == (4 * rank + n - 1) \div n IN Max({1, Min({4, bucket})})

\* heaviestDay of the days on show: the earliest of the largest, and its ties.
HeaviestDay ==
    LET shown == {d \in Spending : InGrid(d)}
        top == {d \in shown : \A e \in shown : heatData[e] <= heatData[d]}
    IN  IF shown = {} THEN <<0, 0>> ELSE <<Min(top), Cardinality(top) - 1>>

-----------------------------------------------------------------------------
\* mutant: a day that was focused keeps the tab stop in every year and month
OnShowOnceFocused(fd) == fd # <<0, 0>>

OnShow(fd) == fd[1] = heatYear /\ InGrid(fd[2])

DefaultFocus == IF TodayYear = heatYear /\ InGrid(TodayDate) THEN TodayDate
                ELSE Cells[CHOOSE i \in DOMAIN Cells : Cells[i] # 0 /\ \A j \in 1..(i - 1) : Cells[j] = 0]

\* The one cell with tabIndex 0.
ActiveDate == IF OnShow(focusedDate) THEN focusedDate[2] ELSE DefaultFocus

ShutDay == [date |-> 0, total |-> 0, rows |-> FALSE, upcoming |-> FALSE]
TotalOf(d) == IF d \in DOMAIN heatData THEN heatData[d] ELSE 0
IsUpcoming(d) == d \notin DOMAIN heatData
                 /\ (heatYear > TodayYear \/ (heatYear = TodayYear /\ d > TodayDate))

HeatInit ==
    /\ heatYear \in HeatYears /\ narrow \in BOOLEAN
    /\ monthFor = <<heatYear, DefaultMonth(heatYear)>>
    /\ heatData \in {<<>>, [d \in HeatDays |-> CHOOSE t \in HeatTotals : t > 0]} /\ focusedDate = <<0, 0>>
    /\ openDay = ShutDay /\ openedFrom = 0 /\ heatFocus = "page"
    /\ heatBudget = 0 /\ heatNotes = {}

\* Tab into the grid: onFocus makes the active cell the focused one.
TabIntoGrid ==
    /\ HeatAct /\ heatFocus \in {"page", "lost"} /\ openDay = ShutDay
    /\ heatFocus' = "cell" /\ focusedDate' = <<heatYear, ActiveDate>>
    /\ UNCHANGED <<heatYear, narrow, monthFor, heatData, openDay, openedFrom, heatNotes>>

HandleHeatKey ==
    /\ HeatAct /\ heatFocus = "cell"
    /\ \E key \in HeatKeys :
          LET to == KeyTarget(Grid, PlaceOf(Grid, ActiveDate), key)
          IN  to # 0 /\ focusedDate' = <<heatYear, to>>
    /\ UNCHANGED <<heatYear, narrow, monthFor, heatData, openDay, openedFrom, heatFocus, heatNotes>>

\* Enter on the focused cell, or a click on one.
OpenDaySheet ==
    /\ HeatAct /\ openDay = ShutDay
    /\ \E d \in {d \in HeatDays : InGrid(d)} \cup (IF heatFocus = "cell" THEN {ActiveDate} ELSE {}) :
          /\ openDay' = [date |-> d, total |-> TotalOf(d), rows |-> d \in DOMAIN heatData,
                         upcoming |-> IsUpcoming(d)]
          /\ openedFrom' = d /\ focusedDate' = <<heatYear, d>>
    /\ heatFocus' = "sheet" /\ heatNotes' = heatNotes \ {"refetched"}
    /\ UNCHANGED <<heatYear, narrow, monthFor, heatData>>

CloseDaySheet ==
    /\ openDay # ShutDay /\ openDay' = ShutDay
    /\ heatFocus' = IF InGrid(openedFrom) THEN "cell" ELSE "lost"
    /\ focusedDate' = IF InGrid(openedFrom) THEN <<heatYear, openedFrom>> ELSE focusedDate
    /\ UNCHANGED <<heatYear, narrow, monthFor, heatData, openedFrom, heatBudget, heatNotes>>

SelectHeatMonth ==
    /\ narrow /\ openDay = ShutDay /\ HeatAct
    /\ \E m \in 1..12 \ {Month} : monthFor' = <<heatYear, m>>
    /\ heatFocus' = "page"
    /\ UNCHANGED <<heatYear, narrow, heatData, focusedDate, openDay, openedFrom, heatNotes>>

\* The page's year: the month on show is chosen again while rendering.
SelectHeatYear ==
    /\ openDay = ShutDay /\ HeatAct
    /\ \E y \in HeatYears \ {heatYear} :
          heatYear' = y /\ monthFor' = <<y, DefaultMonth(y)>> /\ heatData' \in {<<>>, heatData}
    /\ heatFocus' = "page"
    /\ UNCHANGED <<narrow, focusedDate, openDay, openedFrom, heatNotes>>

\* The report is loaded again; the open sheet keeps what it was opened with.
HeatDataLoaded ==
    /\ HeatAct
    /\ \E d \in HeatDays, t \in HeatTotals :
          heatData' = [e \in DOMAIN heatData \cup {d} |-> IF e = d THEN t ELSE heatData[e]]
    /\ heatData' # heatData
    /\ heatNotes' = heatNotes \cup {"refetched"}
    /\ UNCHANGED <<heatYear, narrow, monthFor, focusedDate, openDay, openedFrom, heatFocus>>

\* The other grid is rendered: a focused cell is gone.
FlipViewport ==
    /\ HeatAct /\ narrow' = ~narrow
    /\ heatFocus' = IF heatFocus = "cell" THEN "lost" ELSE heatFocus
    /\ heatNotes' = heatNotes \cup {"flipped"}
    /\ UNCHANGED <<heatYear, monthFor, heatData, focusedDate, openDay, openedFrom>>

HeatNext == \/ TabIntoGrid \/ HandleHeatKey \/ OpenDaySheet \/ CloseDaySheet \/ SelectHeatMonth
            \/ SelectHeatYear \/ HeatDataLoaded \/ FlipViewport

-----------------------------------------------------------------------------
\* The component's state (SpendingHeatmap.tsx:248).
HeatTypeOK ==
    /\ heatYear \in HeatYears /\ monthFor[2] \in 1..12 /\ focusedDate[2] \in 0..366
    /\ heatFocus \in {"page", "sheet", "cell", "lost"} /\ DOMAIN heatData \subseteq HeatDays
    /\ openDay # ShutDay => openDay.date \in 1..366

\* Every day of what is on show is in the grid once, in the row (or column) of its
\* weekday, Monday first, and in the order of the calendar (heatmapGrid.ts:83).
GridIsTrue ==
    LET first == IF narrow THEN FirstOf(heatYear, Month) ELSE 1
        last == first + (IF narrow THEN MonthLength(heatYear, Month) ELSE YearLength(heatYear)) - 1
        \* <<weekday, week>>
        Slot(d) == LET p == PlaceOf(Grid, d) IN IF narrow THEN <<p[2], p[1]>> ELSE p
    IN  /\ DatesOf(Grid) = first..last
        /\ Cardinality({p \in Places(Grid) : At(Grid, p) # 0}) = last - first + 1
        /\ \A d \in {first, last} \cup (HeatDays \cap first..last) : Slot(d)[1] % 7 = UTCDay(heatYear, d)
        /\ \A d \in {first} \cup (HeatDays \cap first..last) :
              d + 7 <= last => Slot(d + 7) = <<Slot(d)[1], Slot(d)[2] + 1>>

\* The grid always has its tab stop, on a day that is on show, and the focused cell
\* is that stop, whatever year, month or viewport was chosen (SpendingHeatmap.tsx:388).
OneTabStop ==
    /\ InGrid(ActiveDate)
    /\ heatFocus = "cell" => focusedDate = <<heatYear, ActiveDate>>

\* The arrow keys are each other's inverse and leave no day out of reach of its
\* neighbours; closing the sheet returns to the cell it was opened from unless the
\* viewport flipped (SpendingHeatmap.tsx:204 and 602).
HeatFocusKept ==
    /\ heatFocus = "lost" => "flipped" \in heatNotes
    /\ heatFocus = "cell" =>
          LET p == PlaceOf(Grid, ActiveDate)
              back == [ArrowRight |-> "ArrowLeft", ArrowLeft |-> "ArrowRight",
                       ArrowDown |-> "ArrowUp", ArrowUp |-> "ArrowDown"]
              To(k) == KeyTarget(Grid, p, k)
          IN  /\ \A k \in Arrows : To(k) # 0 => KeyTarget(Grid, PlaceOf(Grid, To(k)), back[k]) = ActiveDate
              /\ \E k \in Arrows : To(k) # 0

\* A day that spent more is never paler, the top is always the darkest, and the
\* footer names a day on show no other outspends (heatmapGrid.ts:234 and 287).
ColoursRankDays ==
    /\ \A d, e \in Spending : heatData[d] <= heatData[e] => Intensity(heatData[d]) <= Intensity(heatData[e])
    /\ \A d \in Spending : (\A e \in Spending : heatData[e] <= heatData[d]) => Intensity(heatData[d]) = 4
    /\ HeaviestDay[1] # 0 => /\ InGrid(HeaviestDay[1])
                             /\ \A d \in Spending : InGrid(d) => heatData[d] <= heatData[HeaviestDay[1]]

\* The sheet says what its cell says, unless the report was loaded again while it
\* is open (SpendingHeatmap.tsx:445).
SheetTellsItsCell ==
    openDay # ShutDay /\ "refetched" \notin heatNotes
    => /\ openDay.total = TotalOf(openDay.date) /\ openDay.upcoming = IsUpcoming(openDay.date)
       /\ ~(openDay.upcoming /\ openDay.rows)
=============================================================================
