---------------------------- MODULE MCWebClient ----------------------------
EXTENDS WebClient

\* both rows of the file move the same amount
TwinRows == [r \in ImportRows |-> "a"]

\* what a form field that is no amount stands as
NotAnAmount == -1

\* a day's total in cents: none, spent, spent more, refunded
DayTotals == {-1, 0, 1, 2}

\* Bound of the run: an import of MaxActs acts meets one disturbance, one of an
\* act less meets two.
BoundedNext ==
    /\ WebNext
    /\ importBudget'.acts + importBudget'.disturbances <= MaxActs + 1

BoundedSpec == WebInit /\ [][BoundedNext]_clientVars
=============================================================================
