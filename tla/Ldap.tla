-------------------------------- MODULE Ldap --------------------------------
(***************************************************************************)
(* The LDAP settings page of phosphor-webui (ldapController), the APIUtils *)
(* calls it makes and the part of the BMC's Redfish AccountService they    *)
(* reach: the LDAP and ActiveDirectory services and the two certificate    *)
(* collections the page shows.                                             *)
(*                                                                         *)
(* loadLdap joins three promises with $q.all: the AccountService GET (its  *)
(* error handler resolves it with undefined) and two getCertificate chains *)
(* (a collection GET, then a GET of its first member).  $q.all has no     *)
(* rejection handler.  saveLdapSettings PATCHes the disable of the other   *)
(* service and, once that succeeded, the enable of the chosen one.         *)
(* updateServiceEnabled PATCHes a disable as soon as the box is unchecked. *)
(*                                                                         *)
(* A service's settings (ServiceAddresses, Authentication, LDAPService     *)
(* SearchSettings, RemoteRoleMapping) are one member of Configs; the       *)
(* certificates' contents, useSSL and the toasts are left out.             *)
(***************************************************************************)
EXTENDS Integers, Sequences, FiniteSets

CONSTANTS
    Configs,        \* the settings a service may hold
    InitServices,   \* the services on the BMC when the page loads
    Installed,      \* the certificate collections that have a member
    MaxClicks       \* bound on the user's clicks

\* 'LDAP' and 'ActiveDirectory'
Services == {"LDAP", "ActiveDirectory"}
\* the two collections getCertificate reads
CertLocs == {"ldapCert", "caCert"}

NoCfg == "noCfg"

ASSUME /\ InitServices \in [Services -> [enabled : BOOLEAN, cfg : Configs]]
       /\ Installed \subseteq CertLocs

\* ldapProperties as the page holds it: def is FALSE once results[0] was
\* undefined; type is EnabledServiceType, Unset for the initial {}
Unset == "unset"
Props(def, en, type, cfg) == [def |-> def, enabled |-> en, type |-> type, cfg |-> cfg]
EmptyProps == Props(TRUE, FALSE, Unset, NoCfg)
UndefProps == Props(FALSE, FALSE, Unset, NoCfg)

\* getEnabledServiceType: LDAP first, then ActiveDirectory, else ''
EnabledServiceType(s) ==
    IF s["LDAP"].enabled THEN "LDAP"
    ELSE IF s["ActiveDirectory"].enabled THEN "ActiveDirectory" ELSE ""

\* getServiceAddresses, getUsername, getBaseDistinguishedNames,
\* getGroupsAttribute, getUsernameAttribute and getRoleGroups: the enabled
\* service's settings, none when neither is enabled
SettingsOf(s, t) == IF t = "" THEN NoCfg ELSE s[t].cfg

\* the record the AccountService GET's then builds: ServiceEnabled is
\* either service's flag
PropsOf(s) ==
    LET t == EnabledServiceType(s)
    IN Props(TRUE, s["LDAP"].enabled \/ s["ActiveDirectory"].enabled, t,
             SettingsOf(s, t))

\* saveLdapSettings: the service disabled first, 'LDAP' unless LDAP is chosen
OtherService(t) == IF t = "LDAP" THEN "ActiveDirectory" ELSE "LDAP"

VARIABLES
    bmc,                    \* the BMC's services: [enabled, cfg] each
    reqs,                   \* $http requests not yet answered
    loads,                  \* each loadLdap's $q.all and its three parts
    loading,                \* $scope.loading
    ldapProperties,         \* $scope.ldapProperties, the form
    originalLdapProperties, \* $scope.originalLdapProperties
    viewLoaded,             \* $viewContentLoaded has fired
    clicks,                 \* the user's clicks so far
    disabledFor             \* (ghost) saves whose disable PATCH the BMC performed

vars == <<bmc, reqs, loads, loading, ldapProperties, originalLdapProperties,
          viewLoaded, clicks, disabledFor>>

\* a request; id is the load or the save it belongs to, loc the certificate
\* collection a GET reads, svc and cfg what a PATCH sends; a served GET
\* carries what it read (view, member); waiting is FALSE once the page
\* gave up on it
Request(kind, id, loc, svc, cfg) ==
    [kind |-> kind, id |-> id, loc |-> loc, svc |-> svc, cfg |-> cfg,
     served |-> FALSE, ok |-> FALSE, view |-> EmptyProps, member |-> FALSE,
     waiting |-> TRUE]

\* requests that change the BMC's services
Mutations == {"disable", "enable", "toggle"}

\* a part of a $q.all still outstanding, resolved with null or a
\* certificate, or rejected
Pending == "pending"
CertResults == {Pending, "null", "cert", "rejected"}

-----------------------------------------------------------------------------
(* Callbacks work on a record ctx: [reqs, loads, loading, props, orig]     *)

Ctx == [reqs |-> reqs, loads |-> loads, loading |-> loading,
        props |-> ldapProperties, orig |-> originalLdapProperties]

SetCtx(ctx) ==
    /\ reqs' = ctx.reqs /\ loads' = ctx.loads /\ loading' = ctx.loading
    /\ ldapProperties' = ctx.props /\ originalLdapProperties' = ctx.orig

\* loadLdap: loading = true; the AccountService GET and both collection GETs
LoadLdap(ctx) ==
    LET l == Len(ctx.loads) + 1
    IN [ctx EXCEPT !.loading = TRUE,
                   !.loads = Append(@, [st |-> "open", got |-> FALSE,
                                        props |-> EmptyProps,
                                        certs |-> [c \in CertLocs |-> Pending]]),
                   !.reqs = @ \cup {Request("props", l, "none", "", NoCfg)}
                              \cup {Request("coll", l, c, "", NoCfg) : c \in CertLocs}]

\* the $q.all of load l once every part has resolved: ldapProperties and
\* originalLdapProperties = results[0]; reading results[0].EnabledServiceType
\* throws when it is undefined, before loading = false
Settle(ctx, l) ==
    LET L == ctx.loads[l]
    IN IF ~L.got \/ \E c \in CertLocs : L.certs[c] = Pending
       THEN ctx
       ELSE [ctx EXCEPT !.loads[l].st = "settled", !.props = L.props,
                        !.orig = L.props, !.loading = ~L.props.def /\ @]

\* a certificate chain of load l ends: a rejection rejects the $q.all,
\* which nothing handles
CertDone(ctx, l, c, v) ==
    LET u == [ctx EXCEPT !.loads[l].certs[c] = v]
    IN IF v = "rejected" THEN [u EXCEPT !.loads[l].st = "rejected"]
       ELSE Settle(u, l)

\* the callbacks an answer to r runs
OnAnswer(ctx, r) ==
    LET open == r.kind \in {"props", "coll", "member"} => ctx.loads[r.id].st = "open"
    IN CASE ~open -> ctx
         \* getAllUserAccountProperties: its error handler returns undefined
         [] r.kind = "props" ->
               Settle([ctx EXCEPT !.loads[r.id].got = TRUE,
                                  !.loads[r.id].props =
                                      IF r.ok THEN r.view ELSE UndefProps], r.id)
         \* getCertificate: the first member when the collection has one,
         \* else null; a failed collection GET has no handler
         [] r.kind = "coll" ->
               IF ~r.ok THEN CertDone(ctx, r.id, r.loc, "rejected")
               ELSE IF r.member
                    THEN [ctx EXCEPT !.reqs = @ \cup
                                {Request("member", r.id, r.loc, "", NoCfg)}]
                    ELSE CertDone(ctx, r.id, r.loc, "null")
         \* the member GET's error handler calls json.stringify, a ReferenceError
         [] r.kind = "member" ->
               CertDone(ctx, r.id, r.loc, IF r.ok THEN "cert" ELSE "rejected")
         \* saveLdapSettings: the disable succeeded, PATCH the enable
         [] r.kind = "disable" ->
               IF r.ok THEN [ctx EXCEPT !.reqs = @ \cup
                                {Request("enable", r.id, "none",
                                         OtherService(r.svc), r.cfg)}]
               ELSE ctx
         \* a 200, with or without an error property, reloads; a failure toasts
         [] r.kind \in {"enable", "toggle"} ->
               IF r.ok THEN LoadLdap(ctx) ELSE ctx

-----------------------------------------------------------------------------
(* The BMC.                                                                *)

\* the BMC performs r (ok) or fails it without effect; a GET reads the
\* services or whether the collection has a member
Serve(r, ok) ==
    /\ r \in reqs /\ ~r.served
    /\ bmc' = CASE ok /\ r.kind \in {"disable", "toggle"} ->
                     [bmc EXCEPT ![r.svc].enabled = FALSE]
                [] ok /\ r.kind = "enable" ->
                     [bmc EXCEPT ![r.svc] = [enabled |-> TRUE, cfg |-> r.cfg]]
                [] OTHER -> bmc
    /\ disabledFor' = IF ok /\ r.kind = "disable" THEN disabledFor \cup {r.id}
                                                  ELSE disabledFor
    /\ reqs' = (reqs \ {r}) \cup
               IF ~r.waiting THEN {} ELSE
               {[r EXCEPT !.served = TRUE, !.ok = ok,
                          !.view = IF ok /\ r.kind = "props" THEN PropsOf(bmc)
                                   ELSE EmptyProps,
                          !.member = ok /\ r.kind = "coll" /\ r.loc \in Installed]}
    /\ UNCHANGED <<loads, loading, ldapProperties, originalLdapProperties,
                   viewLoaded, clicks>>

\* the answer to r reaches the page and its callbacks run
Answer(r) ==
    /\ r \in reqs /\ r.served /\ r.waiting
    /\ SetCtx(OnAnswer([Ctx EXCEPT !.reqs = @ \ {r}], r))
    /\ UNCHANGED <<bmc, viewLoaded, clicks, disabledFor>>

\* apiInterceptor's 20 s timeout: the page gets an error for r whether or
\* not the BMC performed it; a PATCH not served yet may still be performed
TimeOut(r) ==
    /\ r \in reqs /\ r.waiting
    /\ LET late == IF ~r.served /\ r.kind \in Mutations
                   THEN {[r EXCEPT !.waiting = FALSE]} ELSE {}
       IN SetCtx(OnAnswer([Ctx EXCEPT !.reqs = (@ \ {r}) \cup late],
                          [r EXCEPT !.ok = FALSE]))
    /\ UNCHANGED <<bmc, viewLoaded, clicks, disabledFor>>

-----------------------------------------------------------------------------
(* The user.  The loader does not cover the form; the form is bound to     *)
(* ldapProperties and its Save needs a service type.                       *)

Click == clicks < MaxClicks /\ clicks' = clicks + 1

\* $viewContentLoaded: loadLdap()
ViewContentLoaded ==
    /\ ~viewLoaded /\ viewLoaded' = TRUE
    /\ SetCtx(LoadLdap(Ctx))
    /\ UNCHANGED <<bmc, clicks, disabledFor>>

FormShown == viewLoaded /\ ldapProperties.def

\* the user picks a service type and enters its settings
EditForm(t, c) ==
    /\ FormShown /\ ldapProperties.enabled /\ Click
    /\ ldapProperties' = [ldapProperties EXCEPT !.type = t, !.cfg = c]
    /\ UNCHANGED <<bmc, reqs, loads, loading, originalLdapProperties,
                   viewLoaded, disabledFor>>

\* the Service enabled box checked: updateServiceEnabled does nothing
CheckService ==
    /\ FormShown /\ ~ldapProperties.enabled /\ Click
    /\ ldapProperties' = [ldapProperties EXCEPT !.enabled = TRUE]
    /\ UNCHANGED <<bmc, reqs, loads, loading, originalLdapProperties,
                   viewLoaded, disabledFor>>

\* the box unchecked: updateServiceEnabled clears EnabledServiceType and
\* PATCHes the disable of the saved service type, if there is one
UncheckService ==
    LET saved == originalLdapProperties.type
    IN /\ FormShown /\ ldapProperties.enabled /\ Click
       /\ IF saved \in Services
          THEN /\ ldapProperties' = [ldapProperties EXCEPT !.enabled = FALSE,
                                                           !.type = ""]
               /\ reqs' = reqs \cup {Request("toggle", clicks, "none", saved, NoCfg)}
          ELSE /\ ldapProperties' = [ldapProperties EXCEPT !.enabled = FALSE]
               /\ UNCHANGED reqs
       /\ UNCHANGED <<bmc, loads, loading, originalLdapProperties, viewLoaded,
                      disabledFor>>

\* mutant: both PATCHes sent at once
SaveTogether ==
    LET t == ldapProperties.type
    IN /\ FormShown /\ t \in Services /\ Click
       /\ reqs' = reqs \cup {Request("disable", clicks, "none", OtherService(t),
                                     ldapProperties.cfg),
                             Request("enable", clicks, "none", t, ldapProperties.cfg)}
       /\ UNCHANGED <<bmc, loads, loading, ldapProperties,
                      originalLdapProperties, viewLoaded, disabledFor>>

\* saveLdapSettings: both payloads built from the form now; the disable of
\* the other service is PATCHed first
SaveLdapSettings ==
    LET t == ldapProperties.type
    IN /\ FormShown /\ t \in Services /\ Click
       /\ reqs' = reqs \cup {Request("disable", clicks, "none", OtherService(t),
                                     ldapProperties.cfg)}
       /\ UNCHANGED <<bmc, loads, loading, ldapProperties,
                      originalLdapProperties, viewLoaded, disabledFor>>

Init ==
    /\ bmc = InitServices
    /\ reqs = {} /\ loads = <<>> /\ loading = FALSE
    /\ ldapProperties = EmptyProps /\ originalLdapProperties = EmptyProps
    /\ viewLoaded = FALSE /\ clicks = 0 /\ disabledFor = {}

Next ==
    \/ ViewContentLoaded
    \/ \E t \in Services, c \in Configs : EditForm(t, c)
    \/ CheckService
    \/ UncheckService
    \/ SaveLdapSettings
    \/ \E r \in reqs, ok \in BOOLEAN : Serve(r, ok)
    \/ \E r \in reqs : Answer(r) \/ TimeOut(r)

\* every request is served or times out and every answer is delivered
\* (the browser's event loop, apiInterceptor's timeout); the user is not
\* assumed to act
Fairness == WF_vars(\E r \in reqs, ok \in BOOLEAN :
                        Serve(r, ok) \/ Answer(r) \/ TimeOut(r))

Spec == Init /\ [][Next]_vars /\ Fairness

-----------------------------------------------------------------------------
(* Properties.                                                             *)

PropsType == [def : BOOLEAN, enabled : BOOLEAN,
              type : Services \cup {"", Unset}, cfg : Configs \cup {NoCfg}]

TypeOK ==
    /\ bmc \in [Services -> [enabled : BOOLEAN, cfg : Configs]]
    /\ \A r \in reqs : /\ r.kind \in {"props", "coll", "member"} \cup Mutations
                       /\ r.view \in PropsType /\ r.waiting \in BOOLEAN
                       /\ r.kind \in {"props", "coll", "member"} =>
                             r.id \in DOMAIN loads
    /\ \A l \in DOMAIN loads :
          /\ loads[l].st \in {"open", "settled", "rejected"}
          /\ loads[l].certs \in [CertLocs -> CertResults]
          /\ loads[l].props \in PropsType
    /\ loading \in BOOLEAN /\ viewLoaded \in BOOLEAN
    /\ ldapProperties \in PropsType /\ originalLdapProperties \in PropsType
    /\ clicks \in 0..MaxClicks /\ disabledFor \subseteq 0..MaxClicks

\* The backend cannot take the enable of one service while the other is
\* still enabled (the comment on saveLdapSettings): no enable PATCH of a
\* save is ever in flight before the BMC performed that save's disable of
\* the other service, whatever failed, timed out or was answered late.
EnableAfterDisable ==
    \A r \in reqs : r.kind = "enable" => r.id \in disabledFor

\* Every loadLdap ends: once the page shows its loader, it eventually
\* hides it, whatever the BMC answers.
LoadingSettles == loading ~> ~loading

\* Once the page has loaded and nothing is in flight, the form's saved
\* state (originalLdapProperties) is what the BMC holds: the page never
\* rests on settings the BMC no longer has.
FreshWhenSettled ==
    (viewLoaded /\ reqs = {} /\ ~loading) =>
        originalLdapProperties = PropsOf(bmc)
=============================================================================
