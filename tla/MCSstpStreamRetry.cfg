SPECIFICATION Spec
CONSTANTS
    MaxCtl = 1
    MaxPpp = 1
INVARIANT WriteAfterComplete
CHECK_DEADLOCK FALSE
