SPECIFICATION MCSpec
CONSTANTS
    t1 = t1  t2 = t2
    r1 = r1
    safe = safe  risky = risky
    a1 = a1
    i1 = i1  i2 = i2  i3 = i3
    None = None
    Task = {t1, t2}
    Runbook = {r1}
    Version = {safe, risky}
    RiskyVersions = {risky}
    Alert = {a1}
    Matches <- MCMatches
    RunId = {i1, i2, i3}
    RateLimit = 9
    RateWindow = 1
    Cooldown = 0
    ExecTimeout = 1
    Slack = 1
    MaxTime = 0
    MaxCrashes = 1
    MaxEdits = 1
    MaxToggles = 1
SYMMETRY Interchangeable
INVARIANT OneRunPerApproval
INVARIANT RiskyRunsAreApproved
INVARIANT AutoFixedIsEarned
INVARIANT OnlyRealRunsAreKilled
