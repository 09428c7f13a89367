---------------------------- MODULE MCWebUIPages ----------------------------
(* Model-checking instance of WebUIPages: root and two other accounts,   *)
(* named in string order root < u1 < u2; two files for virtual media; one *)
(* setting an LDAP service may hold; a BMC image on the BMC and a host    *)
(* image an upload creates; an expired CA certificate and a free HTTPS    *)
(* location; one network setting, the interface holding the first of two *)
(* addresses with DHCP off; one SNMP manager on the BMC; an rsyslog     *)
(* server configured on the BMC; two unresolved event log entries; two  *)
(* LDAP role groups mapped to different roles and a third group name.   *)
EXTENDS WebUIPages, TLC

CONSTANTS root, u1, u2, f1, f2, c1, bmcImg, hostImg, https, ca, h1, t1,
          v0, v1, a1, a2, mac, x1, x2, o1, o2

MCNameOrder == <<root, u1, u2>>

\* no default-sort binding
MCNoDefaultSort == -1

\* root and u1 exist, u2 may be created
MCInitAccounts == (root :> "Enabled") @@ (u1 :> "Enabled")

\* LDAP enabled, ActiveDirectory not
MCInitServices == [s \in {"LDAP", "ActiveDirectory"} |->
                      [enabled |-> s = "LDAP", cfg |-> c1]]

MCImgType == [i \in {bmcImg, hostImg} |-> IF i = bmcImg THEN "BMC" ELSE "Host"]

MCLocType == [l \in {h1, t1} |-> IF l = h1 THEN https ELSE ca]
MCInitCerts == [l \in {h1, t1} |-> IF l = h1 THEN "absent" ELSE "expired"]

MCAddrOrder == <<a1, a2>>
MCInitNet == [set |-> [k \in {mac} |-> v0], dhcp |-> FALSE, addrs |-> {a1}]

MCInitMgrs == 1 :> [address |-> x1, port |-> o1]

\* rsyslog addresses are strings: the BMC's '' is one too
MCRlAddrs == {"10.0.0.1", "10.0.0.2"}
MCInitServer == [Address |-> "10.0.0.1", Port |-> 1]

\* an unresolved High event log entry listed before an unresolved Medium one
MCPriority == (1 :> "High") @@ (2 :> "Medium")
MCInitLogs == (1 :> FALSE) @@ (2 :> FALSE)

\* two role groups on the BMC, a third name the user may add
MCRgGroups == {"admins", "ops", "guests"}
MCRgRoles == {"Administrator", "ReadOnly"}
MCInitGroups == <<[RemoteGroup |-> "admins", LocalRole |-> "Administrator"],
                  [RemoteGroup |-> "ops", LocalRole |-> "ReadOnly"]>>
=============================================================================
