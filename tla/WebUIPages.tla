----------------------------- MODULE WebUIPages -----------------------------
(***************************************************************************)
(* The routed pages of phosphor-webui in one specification.  The app shows *)
(* one page of its ngRoute views at a time; each page's controller talks  *)
(* to its own part of the BMC (the AccountService accounts, the host's    *)
(* power state, the virtual media socket, the LDAP services, the BMC's   *)
(* firmware images, its certificates, its network settings, its SNMP    *)
(* managers, its rsyslog server, its event log, the LDAP role groups),  *)
(* and no page reads what another one changes (the header's server     *)
(* health, which the event log page also sets, is modelled with that    *)
(* page only).  The page the user                                       *)
(* opened is chosen first; from then on only that page's model takes    *)
(* steps.  The pages' models are the modules UserAccounts, HostPower,    *)
(* VirtualMedia, Ldap, Firmware, Certificates, Network, Snmp,            *)
(* RemoteLogging, EventLog and RoleGroups, instantiated with their own   *)
(* variables.  The role groups table is a directive of the LDAP page; it   *)
(* shares no variable with the LDAP settings form and is a view of its own *)
(* here.  The login view with the header and the session it opens is the  *)
(* module Session: there the user logs in, opens a page and logs out,     *)
(* which the other views leave out.                                       *)
(***************************************************************************)
EXTENDS Integers

CONSTANTS
    Pages,                                          \* the pages the user may open
    Names, Root, NameOrder, InitAccounts, Sortable, DefaultSort, UserClicks,
    UserOps, MaxOps, PollTimeout, HostInit,
    MaxServers, MaxReloads, Files,
    Configs, InitServices, Installed, LdapClicks,
    Images, ImgType, InitImages, MaxActs, FwClicks, ActTicks,
    Types, TrustStore, Locs, LocType, InitCerts, FileExpiry, CertClicks,
    Fields, Vals, Addrs, AddrOrder, InitNet, NetClicks,
    SnmpAddrs, SnmpPorts, SnmpIds, InitMgrs, SnmpClicks,
    RlAddrs, RlPorts, InitServer, RlClicks,
    LogIds, Priority, InitLogs, LogClicks,
    RgGroups, RgRoles, InitGroups, RgClicks,
    MaxSessions, SesClicks

ASSUME Pages \subseteq {"users", "power", "virtualMedia", "ldap", "firmware",
                        "certificates", "network", "snmp",
                        "remoteLogging", "eventLog", "ldapRoleGroups",
                        "session"}

VARIABLES
    page,       \* the routed view
    \* UserAccounts
    accounts, userReqs, lists, batches, userLoading, usersSet, roles, settings,
    modal, tbl, userViewLoaded, userClicks,
    \* HostPower
    host, plan, subOpen, events, powerReqs, nextId, serverState, powerLoading,
    unreachable, pending, prog, intervals, ops, epoch, stamp,
    \* VirtualMedia
    device, srvMap, nbdState, ready, created, reloads,
    \* Ldap
    ldapBmc, ldapReqs, loads, ldapLoading, ldapProperties,
    originalLdapProperties, ldapViewLoaded, ldapClicks, disabledFor,
    \* Firmware
    act, fw, sel, rebootOpt, confirm, uploading, fwLoading, fwReqs, chain,
    timers, pollVar, reboots, fwClicks,
    \* Certificates
    certBmc, certReqs, certLoads, certificates, available, certLoading,
    bmcTime, certViewLoaded, csr, certClicks,
    \* Network
    netBmc, netReqs, ds, form, netLoaded, toDelete, netLoading, saves, netClicks,
    \* Snmp
    mgrs, lastId, snmpReqs, snmpGen, managers, snmpToDelete, snmpLoading,
    snmpLoaded, snmpSaves, snmpClicks,
    \* RemoteLogging
    rlBmc, rlReqs, rlOps, remoteServer, rlForm, loadError, rlLoading, rlModal,
    rlClicks,
    \* EventLog
    logBmc, logReqs, logGen, sent, logs, logShown, logLoading, logBatches,
    health, healthFrom, logClicks,
    \* RoleGroups
    rgBmc, rgReqs, listed, roleGroups, privileges, rgLoading, newGroup,
    selectedGroupIndex, rgModal, opened, hasSelectedGroup, rgClicks,
    \* Session
    sessions, lastSid, cookie, loginId, path, sesReqs, invalidCredentials,
    serverUnreachable, sesUnreachable, sesClicks

U == INSTANCE UserAccounts WITH bmc <- accounts, reqs <- userReqs,
                                loading <- userLoading,
                                viewLoaded <- userViewLoaded,
                                clicks <- userClicks, MaxClicks <- UserClicks
P == INSTANCE HostPower WITH reqs <- powerReqs, loading <- powerLoading
V == INSTANCE VirtualMedia
L == INSTANCE Ldap WITH bmc <- ldapBmc, reqs <- ldapReqs, loading <- ldapLoading,
                        viewLoaded <- ldapViewLoaded, clicks <- ldapClicks,
                        MaxClicks <- LdapClicks
F == INSTANCE Firmware WITH loading <- fwLoading, reqs <- fwReqs,
                            clicks <- fwClicks, MaxClicks <- FwClicks
C == INSTANCE Certificates WITH bmc <- certBmc, reqs <- certReqs,
                                loads <- certLoads, loading <- certLoading,
                                viewLoaded <- certViewLoaded,
                                clicks <- certClicks, MaxClicks <- CertClicks
N == INSTANCE Network WITH bmc <- netBmc, reqs <- netReqs, loaded <- netLoaded,
                           loading <- netLoading, clicks <- netClicks,
                           MaxClicks <- NetClicks
S == INSTANCE Snmp WITH Addrs <- SnmpAddrs, Ports <- SnmpPorts, MaxIds <- SnmpIds,
                       reqs <- snmpReqs, gen <- snmpGen, toDelete <- snmpToDelete,
                       loading <- snmpLoading, loaded <- snmpLoaded,
                       saves <- snmpSaves, clicks <- snmpClicks,
                       MaxClicks <- SnmpClicks
R == INSTANCE RemoteLogging WITH Addrs <- RlAddrs, Ports <- RlPorts, bmc <- rlBmc,
                                reqs <- rlReqs, ops <- rlOps, form <- rlForm,
                                loading <- rlLoading, modal <- rlModal,
                                clicks <- rlClicks, MaxClicks <- RlClicks
E == INSTANCE EventLog WITH Ids <- LogIds, bmc <- logBmc, reqs <- logReqs,
                           gen <- logGen, shown <- logShown, loading <- logLoading,
                           batches <- logBatches, clicks <- logClicks,
                           MaxClicks <- LogClicks
G == INSTANCE RoleGroups WITH Groups <- RgGroups, Roles <- RgRoles, bmc <- rgBmc,
                             reqs <- rgReqs, loading <- rgLoading, modal <- rgModal,
                             clicks <- rgClicks, MaxClicks <- RgClicks
W == INSTANCE Session WITH reqs <- sesReqs, unreachable <- sesUnreachable,
                          clicks <- sesClicks, MaxClicks <- SesClicks

userVars == <<accounts, userReqs, lists, batches, userLoading, usersSet, roles,
              settings, modal, tbl, userViewLoaded, userClicks>>
powerVars == <<host, plan, subOpen, events, powerReqs, nextId, serverState,
               powerLoading, unreachable, pending, prog, intervals, ops, epoch,
               stamp>>
vmVars == <<device, srvMap, nbdState, ready, created, reloads>>
ldapVars == <<ldapBmc, ldapReqs, loads, ldapLoading, ldapProperties,
              originalLdapProperties, ldapViewLoaded, ldapClicks, disabledFor>>

fwVars == <<act, fw, sel, rebootOpt, confirm, uploading, fwLoading, fwReqs,
            chain, timers, pollVar, reboots, fwClicks>>
certVars == <<certBmc, certReqs, certLoads, certificates, available,
              certLoading, bmcTime, certViewLoaded, csr, certClicks>>
netVars == <<netBmc, netReqs, ds, form, netLoaded, toDelete, netLoading, saves,
             netClicks>>
snmpVars == <<mgrs, lastId, snmpReqs, snmpGen, managers, snmpToDelete,
              snmpLoading, snmpLoaded, snmpSaves, snmpClicks>>
rlVars == <<rlBmc, rlReqs, rlOps, remoteServer, rlForm, loadError, rlLoading,
            rlModal, rlClicks>>
logVars == <<logBmc, logReqs, logGen, sent, logs, logShown, logLoading, logBatches,
             health, healthFrom, logClicks>>
rgVars == <<rgBmc, rgReqs, listed, roleGroups, privileges, rgLoading, newGroup,
            selectedGroupIndex, rgModal, opened, hasSelectedGroup, rgClicks>>
sesVars == <<sessions, lastSid, cookie, loginId, path, sesReqs, invalidCredentials,
             serverUnreachable, sesUnreachable, sesClicks>>

allVars == <<page, userVars, powerVars, vmVars, ldapVars, fwVars, certVars,
             netVars, snmpVars, rlVars, logVars, rgVars, sesVars>>

\* the host state of the power page's model while another page is shown
HostAway == CHOOSE h \in HostInit : TRUE

Init ==
    /\ page \in Pages
    /\ U!Init /\ P!Init /\ V!Init /\ L!Init /\ F!Init /\ C!Init /\ N!Init /\ S!Init /\ R!Init /\ E!Init
    /\ G!Init /\ W!Init
    /\ page # "power" => host = HostAway

\* a step of the shown page
Next ==
    \/ page = "users" /\ U!Next
          /\ UNCHANGED <<page, powerVars, vmVars, ldapVars, fwVars, certVars, netVars, snmpVars, rlVars, logVars, rgVars, sesVars>>
    \/ page = "power" /\ P!Next
          /\ UNCHANGED <<page, userVars, vmVars, ldapVars, fwVars, certVars, netVars, snmpVars, rlVars, logVars, rgVars, sesVars>>
    \/ page = "virtualMedia" /\ V!Next
          /\ UNCHANGED <<page, userVars, powerVars, ldapVars, fwVars, certVars, netVars, snmpVars, rlVars, logVars, rgVars, sesVars>>
    \/ page = "ldap" /\ L!Next
          /\ UNCHANGED <<page, userVars, powerVars, vmVars, fwVars, certVars, netVars, snmpVars, rlVars, logVars, rgVars, sesVars>>
    \/ page = "firmware" /\ F!Next
          /\ UNCHANGED <<page, userVars, powerVars, vmVars, ldapVars, certVars, netVars, snmpVars, rlVars, logVars, rgVars, sesVars>>
    \/ page = "certificates" /\ C!Next
          /\ UNCHANGED <<page, userVars, powerVars, vmVars, ldapVars, fwVars, netVars, snmpVars, rlVars, logVars, rgVars, sesVars>>
    \/ page = "network" /\ N!Next
          /\ UNCHANGED <<page, userVars, powerVars, vmVars, ldapVars, fwVars, certVars, snmpVars, rlVars, logVars, rgVars, sesVars>>
    \/ page = "snmp" /\ S!Next
          /\ UNCHANGED <<page, userVars, powerVars, vmVars, ldapVars, fwVars, certVars, netVars, rlVars, logVars, rgVars, sesVars>>
    \/ page = "remoteLogging" /\ R!Next
          /\ UNCHANGED <<page, userVars, powerVars, vmVars, ldapVars, fwVars, certVars, netVars, snmpVars, logVars, rgVars, sesVars>>
    \/ page = "eventLog" /\ E!Next
          /\ UNCHANGED <<page, userVars, powerVars, vmVars, ldapVars, fwVars, certVars, netVars, snmpVars, rlVars, rgVars, sesVars>>
    \/ page = "ldapRoleGroups" /\ G!Next
          /\ UNCHANGED <<page, userVars, powerVars, vmVars, ldapVars, fwVars, certVars, netVars, snmpVars, rlVars, logVars, sesVars>>
    \/ page = "session" /\ W!Next
          /\ UNCHANGED <<page, userVars, powerVars, vmVars, ldapVars, fwVars, certVars, netVars, snmpVars, rlVars, logVars, rgVars>>

\* each page's Fairness, with every fair action taken on its page only: a
\* page not shown takes no steps, whatever its model has enabled
Fairness ==
    /\ WF_userVars(page = "users" /\ \E r \in userReqs, ok \in BOOLEAN :
                   U!Serve(r, ok) \/ U!Answer(r) \/ U!TimeOut(r))
    /\ WF_powerVars(page = "power" /\ \E i \in DOMAIN intervals : P!IntervalFires(i))
    /\ \A id \in 0..(6 * MaxOps) :
          WF_powerVars(page = "power" /\ \E r \in powerReqs :
                     r.id = id /\ (P!Answer(r) \/ P!TimeOut(r)))
    /\ WF_powerVars(page = "power" /\ P!HostStep)
    /\ WF_powerVars(page = "power" /\ P!OnHostEvent)
    /\ WF_ldapVars(page = "ldap" /\ \E r \in ldapReqs, ok \in BOOLEAN :
                   L!Serve(r, ok) \/ L!Answer(r) \/ L!TimeOut(r))
    /\ WF_fwVars(page = "firmware" /\ \E t \in timers, off \in BOOLEAN :
                 F!IntervalFires(t, off))
    /\ WF_fwVars(page = "firmware" /\ \E r \in F!BagToSet(fwReqs), off \in BOOLEAN :
                 F!Answer(r, off) \/ F!TimeOut(r, off))
    /\ WF_certVars(page = "certificates" /\ \E r \in certReqs, ok \in BOOLEAN :
                   C!Serve(r, ok) \/ C!Answer(r) \/ C!TimeOut(r))
    /\ WF_netVars(page = "network" /\ \E r \in netReqs, ok \in BOOLEAN :
                  N!Serve(r, ok) \/ N!Answer(r) \/ N!TimeOut(r))
    /\ WF_netVars(page = "network" /\ \E s \in DOMAIN saves : N!TimerFires(s))
    /\ WF_snmpVars(page = "snmp" /\ \E r \in snmpReqs, ok \in BOOLEAN :
                   S!Serve(r, ok) \/ S!Answer(r) \/ S!TimeOut(r))
    /\ WF_rlVars(page = "remoteLogging" /\ \E r \in rlReqs, ok \in BOOLEAN :
                 R!Serve(r, ok) \/ R!Answer(r) \/ R!TimeOut(r))
    /\ WF_logVars(page = "eventLog" /\ \E r \in logReqs, ok \in BOOLEAN :
                  E!Serve(r, ok) \/ E!Answer(r) \/ E!TimeOut(r))
    /\ WF_rgVars(page = "ldapRoleGroups" /\ \E r \in rgReqs, ok \in BOOLEAN :
                 G!Serve(r, ok) \/ G!Answer(r) \/ G!TimeOut(r))
    /\ WF_sesVars(page = "session" /\ \E r \in sesReqs, status \in {200, 401, 403, 500} :
                  W!Serve(r, status) \/ W!Answer(r) \/ W!TimeOut(r))

Spec == Init /\ [][Next]_allVars /\ Fairness

-----------------------------------------------------------------------------
(* The pages' properties.                                                  *)

\* the type invariants of the twelve views
TypeOK == U!TypeOK /\ P!TypeOK /\ V!TypeOK /\ L!TypeOK /\ F!TypeOK /\ C!TypeOK
          /\ N!TypeOK /\ S!TypeOK /\ R!TypeOK /\ E!TypeOK /\ G!TypeOK /\ W!TypeOK

\* No DELETE and no status PATCH the user page sends ever names root,
\* whether from a row's Delete, the toolbar's batch actions over the
\* selected rows, or a re-sorted table (UserAccounts).
RootNeverDeleted == U!RootNeverDeleted

\* No checkHostStatus interval outlives its power operation (HostPower).
IntervalsCancelled == P!IntervalsCancelled

\* No enable PATCH of an LDAP save is in flight before the BMC performed
\* that save's disable of the other service (Ldap).
EnableAfterDisable == L!EnableAfterDisable

\* When the first save of an SNMP page whose list had loaded toasts saved,
\* with no other change of the BMC outstanding, the BMC holds exactly the
\* managers the saved list showed (Snmp).
SnmpSavedTruthful == S!SnmpSavedTruthful

\* When the last remote logging action, a removal, toasts success with
\* nothing else of the element outstanding, the BMC's rsyslog configuration
\* is disabled and the element shows no server (RemoteLogging).
RemovedTruthful == R!RemovedTruthful

\* Every event log entry the page shows as resolved is resolved on the BMC
\* or deleted from it, whatever answers arrive late (EventLog).
ResolvedShownTruthful == E!ResolvedShownTruthful

\* The header's server health is that of the entries of the last getLogs
\* answer applied, computed by updateServerHealth's loop as the reference
\* rule states it (EventLog).
HealthOfLastAnswer == E!HealthOfLastAnswer

\* A role-group PATCH the BMC performs on the list the table showed at the
\* click, unchanged since, makes the BMC's RemoteRoleMapping that list with
\* the group added, the role changed or the rows removed (RoleGroups).
RoleGroupPatchFaithful == G!RoleGroupPatchFaithful

\* The authenticated page is shown only to a user isLoggedIn() accepts,
\* through every order of logins, logouts, session timeouts and answers:
\* the route guard and every answer that removes LOGIN_ID (Session).
PageNeedsLogin == W!PageNeedsLogin

\* the work the shown page waits on: the user page's loading spinner
\* (UserAccounts), a power operation's operationPending (HostPower), a
\* waitForActive interval (Firmware), the certificate list's loader
\* (Certificates), the network page's loader during a save (Network),
\* the SNMP page's loader (Snmp), the remote logging element's loader
\* (RemoteLogging), a login the login form sent (Session)
Busy ==
    \/ page = "users" /\ userLoading
    \/ page = "power" /\ pending
    \/ page = "firmware" /\ timers # {}
    \/ page = "certificates" /\ certLoading
    \/ page = "network" /\ netLoading
    \/ page = "snmp" /\ snmpLoading
    \/ page = "remoteLogging" /\ rlLoading
    \/ page = "session" /\ \E r \in sesReqs : r.kind = "login" /\ r.waiting

\* Whatever the BMC answers, fails or lets time out and in whatever order,
\* the page's pending work ends: the users' loader goes off after every
\* getLocalUsers and batch, every power operation clears operationPending
\* and cancels its interval's polling, every activation's poll interval is
\* cancelled, every loadCertificates ends in its error callback or its
\* $q.all's finally, and every network save ends at an invalid value, in
\* its $q.all's error callback or in its reload $timeout, and every SNMP
\* load and save ends in a finally, and every remote logging action in its
\* then or catch, and every login is answered or times out.  As the page never changes this is the conjunction
\* of each page's LoadingSettles, OperationSettles or ActivationPollingEnds.
PagesSettle == Busy ~> ~Busy
=============================================================================
