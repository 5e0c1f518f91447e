SPECIFICATION FairSpec
CONSTANTS
    Branches = 3
    Lanes = 2
    Slots = 1
    Stages = 1
    Blocks <- MCBlocks
    MaxCrashes = 1
INVARIANTS SlotCoversRunnable ReleasedSlotIsJournaled NoSettledWait
PROPERTIES FailFastStartsNothing BlockEnds
CHECK_DEADLOCK FALSE
