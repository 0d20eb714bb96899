SPECIFICATION HouseholdSpec
CHECK_DEADLOCK FALSE
CONSTANTS
    TxnCount = 2
    PerPage = 1
    MaxListActs = 3
    MaxListFaults = 1
    CategoryCount = 3
    CategoryNames = {1, 2}
    UsedCategories = {2}
    MaxCategoryActs = 4
    MaxCategoryFaults = 1
    CurrencyCount = 3
    Rates = {1, 2}
    MaxRateActs = 3
    MaxRateFaults = 1
    UserCount = 3
    MaxUserActs = 2
    MaxUserFaults = 1
    MaxTokens = 3
    MaxTokenActs = 3
    MaxTokenFaults = 1
    MaxRotations = 1
    Toggles = {"over_budget"}
    MaxEndpoints = 3
    MaxNotifyActs = 5
    MaxNotifyFaults = 1
    LastMinute = 4
    DayMinutes = 2
    WeekMinutes = 4
    MonthMinutes = 8
    KeepDaily = 2
    KeepWeekly = 1
    KeepMonthly = 1
    KeepCorrupt = 1
    MaxBackupFaults = 2
    MaxMigration = 3
    KeepSnapshots = 3
    MaxAttempts = 5
    Limit = 2
    Window = 3
    TicksPerSecond = 2
    Requests = {1, 2}
    LastTick = 7
    AlertCells = {1, 2}
    AlertWriters = {1, 2}
    SpendLimits = {0, 1, 3}
    MaxAlertWrites = 3
    MaxAlertChanges = 1
INVARIANTS
    HouseholdTypeOK
    FilterWriteIsWhatWasShown
    ListCatchesUp
    ShownIsTrue
    FocusIsKept
    TokenShownUntilSaved
    PushFollowsTheSwitch
    BackupsHold
    UpgradeCanBeUndone
    RateLimitHolds
    AlertOnce
