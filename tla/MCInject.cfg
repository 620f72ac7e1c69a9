SPECIFICATION FairSpec
CONSTANTS
    Hdr = 2
    WriterMax = 3
    ReaderMax = 4
    Cap = 9
    MaxPkts = 3
INVARIANTS TypeOK InOrderUnlessBroken
PROPERTIES AcceptedGiven
CHECK_DEADLOCK FALSE
