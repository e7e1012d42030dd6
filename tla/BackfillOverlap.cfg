\* Two activations of start() at a time: a resume that does not wait for the
\* loop it resumes, on top of a sink failure and a crash.
SPECIFICATION Spec
CONSTANTS
    l1 = l1
    l2 = l2
    Loops = {l1, l2}
    Rows = {1, 2, 3}
    History = {1, 3}
    Corrupt = {3}
    BatchSize = 1
    MaxQueryFaults = 0
    MaxSinkFaults = 1
    MaxCrashes = 1
    MaxCommands = 2
SYMMETRY LoopSymmetry
INVARIANTS
    TypeOK
    NoRecordLost
    CompletedMeansReplicated
PROPERTY RefinesContract
CHECK_DEADLOCK FALSE
