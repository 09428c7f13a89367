\* One upload, delete, replace or CSR click over an expired CA certificate
\* and a free HTTPS location.
CONSTANTS
    https = https
    ca = ca
    h1 = h1
    t1 = t1
    Types = {https, ca}
    TrustStore = ca
    Locs = {h1, t1}
    LocType <- MCLocType
    InitCerts <- MCInitCerts
    FileExpiry = {"valid"}
    MaxClicks = 1

SPECIFICATION Spec

INVARIANT CertificatesShownFaithfully

CHECK_DEADLOCK FALSE
