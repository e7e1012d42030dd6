\* One activation at a time and any two of a failed query, a failed sink, a
\* crash, a pause and a resume: the watermark, and what happens in the end. A
\* runner is Deserted only after three of them: IncLag.cfg allows all five.
SPECIFICATION FairSpec
CONSTANTS
    l1 = l1
    l2 = l2
    NoLoop = NoLoop
    Loops = {l1}
    Rows = {1, 2}
    Corrupt = {}
    BatchSize = 1
    ClockSteps = {1}
    MaxOpen = 1
    MaxWrites = 2
    MaxQueryFaults = 1
    MaxSinkFaults = 1
    MaxCrashes = 1
    MaxCommands = 2
    MaxTrouble = 2
PROPERTIES
    WatermarkNeverRegresses
    PauseQuiesces
    MutationsReplicated
    LagDrains
CHECK_DEADLOCK FALSE
