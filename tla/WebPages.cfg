SPECIFICATION BoundedSpec
CHECK_DEADLOCK FALSE
CONSTANTS
    ImportRowCount = 2
    ImportValues = {"a", "b"}
    ImportFile <- TwinRows
    ForeignRows = {2}
    UnfiledRows = {2}
    MaxUploads = 2
    MaxActs = 4
    MaxDisturbances = 2
    MaxTyped = 2
    MaxEntryKeys = 3
    MaxEntryActs = 7
    MaxEntryFaults = 2
    EditTxnCount = 2
    EditValues = {1, 2}
    MaxEditActs = 4
    MaxEditFaults = 1
    TrashCount = 3
    TrashPerPage = 2
    MaxTrashActs = 3
    MaxTrashFaults = 1
    BudgetYears = {1, 2}
    MonthCount = 2
    Amounts = {1, 2}
    Invalid <- NotAnAmount
    MaxBudgetActs = 4
    MaxBudgetFaults = 1
    MaxGuardActs = 7
    LimitYears = {1, 2}
    LimitMonths = {1, 2}
    LimitCategories = {1, 2}
    Limits = {1, 2}
    LimitInvalid <- NotAnAmount
    MaxLimitActs = 3
    MaxLimitFaults = 1
    GoalYears = {1, 2}
    GoalTargets = {1, 2}
    MaxGoalActs = 3
    MaxGoalFaults = 1
    MaxDrafts = 2
    MaxQuickKeys = 3
    MaxQuickActs = 6
    MaxQuickFaults = 1
    HeatYears = {2023, 2024}
    TodayYear = 2024
    TodayDate = 60
    HeatDays = {59, 60, 61}
    HeatTotals <- DayTotals
    MaxHeatActs = 2
    BoxAmounts = {2, 3}
    ForeignCodes = {"USD"}
    BoxRates = {1, 4}
    MaxBoxActs = 4
    MaxBoxFaults = 1
INVARIANTS
    PagesTypeOK
    ImportRecordsEachRowOnce
    ImportShowsWhatItImports
    TrashScreenHolds
    SavedIsWhatWasShown
    TypedIsKept
    OneRowPerWrite
    EditsAreGuarded
    HeatmapIsTrue
