CONSTANTS
    c1 = c1
    c2 = c2
    Configs = {c1, c2}
    InitServices <- MCInitServices
    Installed = {"ldapCert"}
    MaxClicks = 0
SPECIFICATION Spec
PROPERTY LoadingSettles
CHECK_DEADLOCK FALSE
