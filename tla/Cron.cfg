SPECIFICATION MCSpec
CONSTANTS
    None = None
    Task = {t1}
    WrapperRun = {r1}
    Line = {}
    LogRun = {r2}
    Timeout = 1
    Grace = 0
    Retention = 0
    FailRetention = 0
    MaxRows = 1
    MaxFailRows = 1
    MaxPerTick = 1
    MaxTime = 2
    LastJob = 1
    MaxRepeats = 1
    MaxCrashes = 1
    t1 = t1
    t2 = t2
    l1 = l1
    l2 = l2
    r1 = r1
    r2 = r2
    c1 = c1
    s1 = s1
    s2 = s2
INVARIANTS
    NoObservedRunLost
    FailureReportedOnce
    WrappedLinesCanRun
PROPERTIES
    ClosedRunsStayClosed
    TailedRunsClose
    InventoryConverges
CHECK_DEADLOCK FALSE
