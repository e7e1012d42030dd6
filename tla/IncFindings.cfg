\* What the incremental runner is known to break: a version written within
\* the millisecond of the watermark is never pulled (NoMutationLost), a bulk
\* request that timed out is executed after a newer one (IndexNeverRegresses),
\* a start() whose first update fails leaves RUNNING without a loop
\* (NotDeserted). Each is checked alone, or all with -continue.
SPECIFICATION Spec
CONSTANTS
    l1 = l1
    l2 = l2
    NoLoop = NoLoop
    Loops = {l1}
    Rows = {1, 2}
    Corrupt = {}
    BatchSize = 1
    ClockSteps = {0, 1}
    MaxOpen = 1
    MaxWrites = 2
    MaxQueryFaults = 1
    MaxSinkFaults = 1
    MaxCrashes = 0
    MaxCommands = 0
    MaxTrouble = 1
INVARIANTS
    NoMutationLost
    NotDeserted
PROPERTY IndexNeverRegresses
CHECK_DEADLOCK FALSE
