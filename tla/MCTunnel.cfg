SPECIFICATION FairSpec
CONSTANTS
    MaxReconnect = 2
    MaxReady = 1
    LateReports = FALSE
INVARIANTS TypeOK MemorySafe NoRetryAfterFatal ReaderAlive IdleAfterStop
PROPERTIES StopEnds StartAnswered ProviderImplemented
CHECK_DEADLOCK FALSE
