\* Two callers and one outage.
SPECIFICATION Spec
CONSTANTS
    c1 = c1
    c2 = c2
    c3 = c3
    Callers = {c1, c2}
    FailureThreshold = 2
    BaseBackoff = 1
    MaxBackoff = 2
    Jitter = 1
    HalfOpenSuccessThreshold = 2
    None = None
    FailureCap = 2
    MaxOutages = 1
    TripDurations = {2}
    MaxTrips = 0
    MaxResets = 0
PROPERTY ProbesWaitForBackoffShared
