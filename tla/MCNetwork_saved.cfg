\* A save that removed an address, or that kept one the page deletes again.
CONSTANTS
    v0 = v0
    v1 = v1
    a1 = a1
    a2 = a2
    mac = mac
    Fields = {mac}
    Vals = {v0, v1}
    Addrs = {a1, a2}
    AddrOrder <- MCAddrOrder
    InitNet <- MCInitNet
    MaxClicks = 3

SPECIFICATION Spec

PROPERTY SavedReportTruthful

\* the bounded user stops clicking
CHECK_DEADLOCK FALSE
