SPECIFICATION FairSpec
CONSTANTS
    MaxCtl = 4
    MaxPpp = 6
INVARIANTS
    TypeOK
    WakeupArmed
    QueuedOwned
    PppInOrder
    CtlInOrder
    HeldQueued
PROPERTY LinkImplemented
CHECK_DEADLOCK FALSE
