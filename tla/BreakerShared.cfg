\* Two callers, or one, use the breaker; the sink fails twice, the operator trips and
\* resets the breaker.
SPECIFICATION FairSpec
CONSTANTS
    c1 = c1
    c2 = c2
    c3 = c3
    Callers = {c1, c2}
    FailureThreshold = 2
    BaseBackoff = 1
    MaxBackoff = 2
    Jitter = 1
    HalfOpenSuccessThreshold = 2
    None = None
    FailureCap = 2
    MaxOutages = 2
    TripDurations = {2}
    MaxTrips = 2
    MaxResets = 1
INVARIANTS
    ClosedIsHealthy
    OpenIsTimed
PROPERTIES
    StatesGoRound
    ProbesWaitForBackoff
    CallsReturn
    BreakerHeals
