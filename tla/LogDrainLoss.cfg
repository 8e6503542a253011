SPECIFICATION Spec
CONSTANTS
    Line = {l1, l2, l3, l4}
    Res = 2
    Grace = 1
    Cap = 3
    MaxBurst = 2
    MaxTime = 5
    MaxFaults = 0
    None = None
INVARIANT NoDataLoss
CHECK_DEADLOCK FALSE
