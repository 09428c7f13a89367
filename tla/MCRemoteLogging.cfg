CONSTANTS
    Addrs <- MCAddrs
    Ports = {1}
    InitServer <- MCInitServer
    MaxClicks = 3
SPECIFICATION Spec
INVARIANT TypeOK
INVARIANT RemovedTruthful
CHECK_DEADLOCK FALSE
