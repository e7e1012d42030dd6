\* Two rows, a window of one, one failed query, a daemon that may hang or be
\* killed anywhere.
SPECIFICATION DrillFairSpec
CONSTANTS
    l1 = l1
    l2 = l2
    Loops = {l1}
    Rows = {1, 2}
    History = {1, 2}
    Corrupt = {}
    BatchSize = 1
    MaxQueryFaults = 1
    MaxSinkFaults = 0
    MaxCrashes = 4
    MaxCommands = 3
    WindowSizes = {1}
    AdvanceRecords = 1
INVARIANTS
    PassMeansReplicated
    DaemonLeftRunning
PROPERTY DrillEnds
CHECK_DEADLOCK FALSE
