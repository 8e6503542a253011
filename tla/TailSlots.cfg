SPECIFICATION Spec
CONSTANTS
 Req = {1, 2}
 MaxConnections = 1
 MaxPerSecond = 1
 MaxDuration = 2
 MaxErrors = 2
 MaxFailures = 1
 MaxTime = 3
 MaxLines = 3
 None = None
INVARIANTS SlotsAreReleased
