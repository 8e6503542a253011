SPECIFICATION MCSpec
CONSTANTS
    None = None
    t1 = t1
    t2 = t2
    i1 = i1
    i2 = i2
    r1 = r1
    risky = risky
    a1 = a1
    c1 = c1
    c2 = c2
    g1 = g1
    timeout = timeout
    k1 = k1
    k2 = k2
    o1 = o1
PROPERTIES
    RequestsEnd
    ApprovalsSettle
    TicksEnd
CHECK_DEADLOCK FALSE
