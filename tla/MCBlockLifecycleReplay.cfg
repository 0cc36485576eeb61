CONSTANTS
    MaxHeight = 3
    MaxCrashes = 2
SPECIFICATION Spec
CHECK_DEADLOCK FALSE
INVARIANTS
    DistrReadsEarlierBlocks
