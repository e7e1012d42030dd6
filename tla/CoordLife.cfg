\* Boot and shutdown, an outage, and a request of the operator or for telemetry.
SPECIFICATION FairSpec
CONSTANTS
    s1 = s1
    s2 = s2
    Slots = {s1, s2}
    BatchSize = 1
    MaxId = 1
    MaxOutages = 1
    MaxRequests = 1
INVARIANT VerdictHasWitness
PROPERTIES
    BootCompletes
    GracefulExit
CHECK_DEADLOCK FALSE
