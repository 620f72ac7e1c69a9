SPECIFICATION Spec
CONSTANTS
    TlsModes = {"system"}
    MaxEcho = 1
    MaxFrames = 1
    MaxSrvEcho = 1
INVARIANTS BindingFailureNamed
CHECK_DEADLOCK FALSE
