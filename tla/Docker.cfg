SPECIFICATION MCSpec
CONSTANTS
    None = None
    Skip = Skip
    Container = {c1}
    Action = {a1, a2}
    MaxStops = 1
    MaxDbErrors = 1
    Key = {k1, k2}
    MaxChanges = 2
    MaxLosses = 1
    MaxTime = 3
    Retention = 1
    MaxRows = 1
    MaxIds = 2
    MaxEvents = 3
    Caller = {h1, h2}
    MaxConns = 2
    MaxCommands = 2
INVARIANTS
    OneProcessPerContainer
    IncidentsAreSpells
    AnswersAreDelivered
PROPERTIES
    AcceptedActionsEnd
    ProbesConverge
    CrashesAreCounted
    BadgesSettle
CHECK_DEADLOCK FALSE
