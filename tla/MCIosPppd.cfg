SPECIFICATION FairSpec
CONSTANTS
    CcMod = 3
    Assigned = 7
    PeerAddr = 1
    CcpPolicies = {"grant", "reject", "protrej", "nak"}
    DnsPolicies = {TRUE, FALSE}
    MaxIp = 2
    MaxNaks = 1
    MaxRetx = 1
    MaxCcpRetx = 1
    MaxEcho = 1
    MaxUnusual = 2
    MaxSent = 3
INVARIANTS TypeOK TxNotStalled KeysAgree UpAgreed MppeInSync
PROPERTIES NegotiationEnds
CHECK_DEADLOCK FALSE
