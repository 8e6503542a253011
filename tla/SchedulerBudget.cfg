SPECIFICATION Spec
CONSTANTS
    c1 = c1
    c2 = c2
    g1 = g1
    timeout = timeout
    exception = exception
    Collector = {c1}
    Group <- OwnGroup
    Threshold <- ThresholdTwo
    Reason = {timeout, exception}
    Tick = {k1, k2}
    Operator = {o1, o2}
    MaxFailures = 4
    MaxFaults = 1
    MaxCrashes = 1
    MaxCli = 1
    None = None
CHECK_DEADLOCK FALSE
SYMMETRY Symmetry
INVARIANT NoFailureForgotten
INVARIANT ChronicFailureIsQuarantined
INVARIANT QuarantineIsEarned
INVARIANT QuarantineIsAnnounced
