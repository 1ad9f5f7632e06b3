CONSTANTS
    Infinite = 99
    Retry = 3
    MaxShift = 1
    MaxRetries = 2
    Probes = 1
    MinWait = 2
    MaxWait = 4
    Backoff = 1
    Delay = 1
    Links <- Late
SPECIFICATION Spec
INVARIANT NeverUsesExpired
CHECK_DEADLOCK FALSE
