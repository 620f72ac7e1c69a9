SPECIFICATION FairSpec
CONSTANTS
    Base = 6
    Lens = {6}
    EchoLen = 5
    EchoLimit = 1
    MaxPackets = 2
    MaxBytes = 11
    MaxRecords = 1
    MaxAsked = 2
INVARIANTS
    TypeOK
    Framed
    NoFalseAbort
PROPERTY PacketsArrive
CHECK_DEADLOCK FALSE
