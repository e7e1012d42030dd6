\* Two requests over two entries, one of them stubborn; a statement or a send
\* that fails, a row that changes.
SPECIFICATION FairSpec
CONSTANTS
    r1 = r1
    r2 = r2
    r3 = r3
    r4 = r4
    q1 = q1
    q2 = q2
    Entries = {1, 2}
    RecordOf <- SameRow
    Target <- BothTargets
    CreatedAt <- SameBatch
    Stubborn = {2}
    Requests = {q1, q2}
    BatchSize = 2
    MaxIterations = 2
    MaxVersion = 2
    MaxFetches = 1
    MaxFaults = 2
    MaxRequests = 2
INVARIANT ResolvedMeansDelivered
PROPERTIES
    ResolvedStays
    RequestsAnswered
CHECK_DEADLOCK FALSE
