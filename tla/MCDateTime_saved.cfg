\* A Manual save whose setTimeMode the BMC refuses still ends in "saved".
CONSTANTS
    n0 = n0
    n1 = n1
    d1 = d1
    d2 = d2
    Modes <- MCModes
    Owners <- MCOwners
    Servers = {n0, n1}
    NoServers = n0
    Dates = {d1, d2}
    InitTime <- MCInitTime
    MaxClicks = 2
SPECIFICATION Spec
INVARIANT SavedOnlyIfAllSet
CHECK_DEADLOCK FALSE
