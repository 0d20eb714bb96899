SPECIFICATION EntrySpec

CHECK_DEADLOCK FALSE

CONSTANTS
    MaxTyped = 1
    MaxEntryKeys = 2
    MaxEntryActs = 4
    MaxEntryFaults = 2

INVARIANTS
    RefusedIsUnwritten
