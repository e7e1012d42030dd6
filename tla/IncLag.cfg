\* One row, and every failed query, failed sink, crash, pause and resume the
\* counters allow in one behaviour: the lag in the end.
SPECIFICATION FairSpec
CONSTANTS
    l1 = l1
    l2 = l2
    NoLoop = NoLoop
    Loops = {l1}
    Rows = {1}
    Corrupt = {}
    BatchSize = 1
    ClockSteps = {1}
    MaxOpen = 1
    MaxWrites = 2
    MaxQueryFaults = 1
    MaxSinkFaults = 1
    MaxCrashes = 1
    MaxCommands = 2
    MaxTrouble = 5
PROPERTY LagDrains
CHECK_DEADLOCK FALSE
