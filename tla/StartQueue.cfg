SPECIFICATION SweepSpec
CONSTANTS
    Starts = 2
    PageSize = 1
    Batch = 1
    MaxCrashes = 2
    MaxFaults = 1
INVARIANTS RowMatchesJournal
PROPERTIES Inspected Settled
CHECK_DEADLOCK FALSE
