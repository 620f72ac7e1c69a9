SPECIFICATION Spec
CONSTANTS
    MaxReconnect = 3
    MaxReady = 1
    LateReports = FALSE
INVARIANTS NoZombieWorker
CHECK_DEADLOCK FALSE
