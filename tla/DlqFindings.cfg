\* An entry that succeeds, more stubborn ones than the batch holds, and an
\* entry behind them: the request goes on over barren passes (StubbornStops)
\* and never tries the last entry (AllPendingReplayed). Each is checked alone,
\* or both with -continue.
SPECIFICATION Spec
CONSTANTS
    r1 = r1
    r2 = r2
    r3 = r3
    r4 = r4
    q1 = q1
    q2 = q2
    Entries = {1, 2, 3, 4}
    RecordOf <- FourRows
    Target <- ToIndex
    CreatedAt <- InTurn
    Stubborn = {2, 3}
    Requests = {q1}
    BatchSize = 2
    MaxIterations = 3
    MaxVersion = 1
    MaxFetches = 0
    MaxFaults = 0
    MaxRequests = 1
INVARIANTS
    StubbornStops
    AllPendingReplayed
CHECK_DEADLOCK FALSE
