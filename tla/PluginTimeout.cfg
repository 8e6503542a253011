SPECIFICATION Spec
CONSTANTS
    Proc = {1, 2}
    MaxLines = 1
    MinInterval = 3
    Durations = {1, 3}
INVARIANT TimedOutPluginsAreKilled
