\* Each page with the bounds of its own model: two clicks on the user page,
\* one power operation, three virtual-media servers over two reloads, one
\* click on the LDAP page, one activation and two clicks on the firmware page,
\* one click on the certificate page, three on the network and SNMP pages and
\* the remote logging element, two on the event log page and the LDAP role
\* groups table, three on the login view with two sessions.
CONSTANTS
    Pages = {"users", "power", "virtualMedia", "ldap", "firmware", "certificates", "network", "snmp", "remoteLogging", "eventLog", "ldapRoleGroups", "session"}
    root = root
    u1 = u1
    u2 = u2
    Names = {root, u1, u2}
    Root = root
    NameOrder <- MCNameOrder
    InitAccounts <- MCInitAccounts
    Sortable = TRUE
    DefaultSort <- MCNoDefaultSort
    UserClicks = 2
    UserOps = {0, 1, 2, 3, 4}
    MaxOps = 1
    PollTimeout = 2
    HostInit = {"Off", "Running"}
    MaxServers = 3
    MaxReloads = 2
    f1 = f1
    f2 = f2
    Files = {f1, f2}
    c1 = c1
    Configs = {c1}
    InitServices <- MCInitServices
    Installed = {"ldapCert"}
    LdapClicks = 1
    bmcImg = bmcImg
    hostImg = hostImg
    Images = {bmcImg, hostImg}
    ImgType <- MCImgType
    InitImages = {bmcImg}
    MaxActs = 1
    FwClicks = 2
    ActTicks = 2
    https = https
    ca = ca
    h1 = h1
    t1 = t1
    Types = {https, ca}
    TrustStore = ca
    Locs = {h1, t1}
    LocType <- MCLocType
    InitCerts <- MCInitCerts
    FileExpiry = {"valid"}
    CertClicks = 1
    v0 = v0
    v1 = v1
    a1 = a1
    a2 = a2
    mac = mac
    Fields = {mac}
    Vals = {v0, v1}
    Addrs = {a1, a2}
    AddrOrder <- MCAddrOrder
    InitNet <- MCInitNet
    NetClicks = 3
    x1 = x1
    x2 = x2
    o1 = o1
    o2 = o2
    SnmpAddrs = {x1, x2}
    SnmpPorts = {o1, o2}
    SnmpIds = 3
    InitMgrs <- MCInitMgrs
    SnmpClicks = 3
    RlAddrs <- MCRlAddrs
    RlPorts = {1}
    InitServer <- MCInitServer
    RlClicks = 3
    LogIds = {1, 2}
    Priority <- MCPriority
    InitLogs <- MCInitLogs
    LogClicks = 2
    RgGroups <- MCRgGroups
    RgRoles <- MCRgRoles
    InitGroups <- MCInitGroups
    RgClicks = 2
    MaxSessions = 2
    SesClicks = 3

SPECIFICATION Spec

INVARIANT TypeOK
INVARIANT RootNeverDeleted
INVARIANT IntervalsCancelled
INVARIANT EnableAfterDisable
INVARIANT RemovedTruthful
INVARIANT ResolvedShownTruthful
INVARIANT HealthOfLastAnswer
INVARIANT PageNeedsLogin
PROPERTY RoleGroupPatchFaithful
PROPERTY SnmpSavedTruthful
PROPERTY PagesSettle

\* the user, LDAP, firmware, certificate, network, SNMP, remote logging, event log, role group and login pages wait for the user once the bounded clicks are spent
CHECK_DEADLOCK FALSE
