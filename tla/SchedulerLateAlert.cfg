SPECIFICATION Spec
CONSTANTS
    c1 = c1
    c2 = c2
    g1 = g1
    timeout = timeout
    exception = exception
    Collector = {c1}
    Group <- OwnGroup
    Threshold <- ThresholdOne
    Reason = {timeout}
    Tick = {k1, k2}
    Operator = {o1}
    MaxFailures = 1
    MaxFaults = 0
    MaxCrashes = 0
    MaxCli = 0
    None = None
INVARIANT AlertsEndWithQuarantine
CHECK_DEADLOCK FALSE
