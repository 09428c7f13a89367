CONSTANTS
    c1 = c1
    c2 = c2
    Configs = {c1, c2}
    InitServices <- MCInitServices
    Installed = {"ldapCert"}
    MaxClicks = 2
SPECIFICATION Spec
INVARIANT FreshWhenSettled
CHECK_DEADLOCK FALSE
