\* A commit on its way when the checkpoint is pinned; rows inserted after
\* COMPLETED was recorded.
SPECIFICATION DrillSpec
CONSTANTS
    l1 = l1
    l2 = l2
    Loops = {l1}
    Rows = {1, 2, 3}
    History = {1}
    Corrupt = {}
    BatchSize = 1
    MaxQueryFaults = 0
    MaxSinkFaults = 0
    MaxCrashes = 4
    MaxCommands = 3
    WindowSizes = {1}
    AdvanceRecords = 1
INVARIANTS
    PinHolds
    PinIsBehind
CHECK_DEADLOCK FALSE
