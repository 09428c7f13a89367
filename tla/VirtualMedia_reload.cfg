CONSTANTS
    MaxServers = 2
    MaxReloads = 1
    Files = {f1}
SPECIFICATION Spec
INVARIANT NoOrphanConnection
