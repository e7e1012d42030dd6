\* Two activations at a time: any two of a failed query, a failed sink, a
\* crash, a pause and a resume that does not wait for the loop it resumes.
SPECIFICATION Spec
CONSTANTS
    l1 = l1
    l2 = l2
    NoLoop = NoLoop
    Loops = {l1, l2}
    Rows = {1, 2}
    Corrupt = {}
    BatchSize = 1
    ClockSteps = {1}
    MaxOpen = 1
    MaxWrites = 2
    MaxQueryFaults = 1
    MaxSinkFaults = 1
    MaxCrashes = 1
    MaxCommands = 2
    MaxTrouble = 2
SYMMETRY LoopSymmetry
PROPERTY RefinesContract
CHECK_DEADLOCK FALSE
