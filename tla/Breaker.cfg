CONSTANTS
    c1 = c1
    c2 = c2
    c3 = c3
    Callers = {c1, c2, c3}
    Threshold = 3
    Cooldown = 3
    MaxFailures = 6
SPECIFICATION BreakerSpec
INVARIANT ClosedBelowThreshold
PROPERTY CooldownOnlyRunsDown
