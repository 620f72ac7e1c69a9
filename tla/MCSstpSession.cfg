SPECIFICATION FairSpec
CONSTANTS
    TlsModes = {"system", "custom_ca", "pinned"}
    MaxEcho = 1
    MaxFrames = 1
    MaxSrvEcho = 1
INVARIANTS TypeOK NeverDeaf TrustBeforeControl EchoAbortOnlyIfSilent
PROPERTIES SilenceNoticed
CHECK_DEADLOCK FALSE
