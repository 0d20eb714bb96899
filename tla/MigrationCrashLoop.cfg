SPECIFICATION MigrationSpec
CHECK_DEADLOCK FALSE
CONSTANTS
    MaxMigration = 3
    KeepSnapshots = 3
    MaxAttempts = 6
INVARIANT PristineAlwaysSurvives
