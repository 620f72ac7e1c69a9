SPECIFICATION Spec
CONSTANTS
    Codes = {"c1"}
    MaxTaps = 2
    MaxEvents = 0
    MaxInbox = 2
INVARIANT OneStart
CHECK_DEADLOCK FALSE
