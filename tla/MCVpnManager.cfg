SPECIFICATION FairSpec
CONSTANTS
    Codes = {"c1"}
    MaxTaps = 2
    MaxEvents = 1
    MaxInbox = 2
INVARIANTS TypeOK ResultShown DropReported
PROPERTY NeverLockedOut
CHECK_DEADLOCK FALSE
