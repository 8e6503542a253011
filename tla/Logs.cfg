SPECIFICATION MCSpec
CONSTANTS
    None = None
    Line = {l1, l2, l3, l4}
    Res = 2
    Grace = 1
    Cap = 2
    MaxBurst = 1
    MaxTime = 4
    MaxFaults = 1
    Every = 2
    Leeway = 0
    MissedRuns = 2
    BeatTime = 3
    LastBeat = 2
    BeatEdits = 1
    h1 = h1
    h2 = h2
    r1 = r1
    RuleName = {r1, r2}
    RuleExpr = {{}, {"missing_stats_pipe", "grammar"}}
    RuleOperator = {h1, h2}
    MaxRules = 2
    RuleFaults = 1
INVARIANTS
    CatalogueIsBacked
    OneFiringRow
    NoResolutionDropped
    RulesAreRendered
    OnTimeIsQuiet
PROPERTIES
    DrainIsAtLeastOnce
    FiringIsRecorded
    SilenceIsNoticed
CHECK_DEADLOCK FALSE
