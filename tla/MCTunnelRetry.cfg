SPECIFICATION Spec
CONSTANTS
    MaxReconnect = 3
    MaxReady = 1
    LateReports = FALSE
INVARIANTS TransientRetried
CHECK_DEADLOCK FALSE
