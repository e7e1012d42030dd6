\* Two snapshots of one row on their way to the index; a replay beside the
\* publications of the runners.
SPECIFICATION Spec
CONSTANTS
    r1 = r1
    r2 = r2
    r3 = r3
    r4 = r4
    q1 = q1
    q2 = q2
    Entries = {1}
    RecordOf <- SameRow
    Target <- ToBoth
    CreatedAt <- SameBatch
    Stubborn = {}
    Requests = {q1}
    BatchSize = 2
    MaxIterations = 2
    MaxVersion = 2
    MaxFetches = 2
    MaxFaults = 0
    MaxRequests = 1
INVARIANT
    IdNamesContent
PROPERTY
    NothingClobbered
CHECK_DEADLOCK FALSE
