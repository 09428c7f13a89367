---------------------------- MODULE Certificates ----------------------------
(***************************************************************************)
(* The certificate management page of phosphor-webui                       *)
(* (certificate-controller.js) with the certificate directive of each     *)
(* listed certificate (certificate.js), its APIUtils requests and the     *)
(* BMC's certificate locations.  A certificate is a location on the BMC;  *)
(* what the page reads of it is its type and how its ValidNotAfter stands *)
(* to the BMC's time: expired, expiring within 30 days, or valid.         *)
(***************************************************************************)
EXTENDS Naturals, Sequences, FiniteSets, Bags, BagsExt

CONSTANTS
    Types,          \* Constants.CERTIFICATE_TYPES
    TrustStore,     \* the type whose Description is 'TrustStore Certificate'
    Locs,           \* certificate locations the BMC may hold
    LocType,        \* the type of the certificate at each location
    InitCerts,      \* the BMC's certificates when the page loads
    FileExpiry,     \* the expiries of the files the user uploads
    MaxClicks       \* bound on the user's clicks

Expiry == {"expired", "expiring", "valid"}
Absent == "absent"

ASSUME /\ TrustStore \in Types /\ LocType \in [Locs -> Types]
       /\ InitCerts \in [Locs -> Expiry \cup {Absent}] /\ FileExpiry \subseteq Expiry
       /\ MaxClicks \in Nat

VARIABLES
    bmc,            \* the BMC: the expiry of the certificate at each location
    reqs,           \* $http requests not yet answered
    loads,          \* each loadCertificates call and its $q.all
    certificates,   \* $scope.certificates, a bag: the finally's sort orders it
    available,      \* $scope.availableCertificateTypes
    loading,        \* $scope.loading
    bmcTime,        \* $scope.bmcTime is set
    viewLoaded,     \* $viewContentLoaded has fired
    csr,            \* $scope.csrCode is shown in the download modal
    clicks          \* the user's clicks so far

vars == <<bmc, reqs, loads, certificates, available, loading, bmcTime,
          viewLoaded, csr, clicks>>

Present(b) == {l \in Locs : b[l] # Absent}

\* a request; id is the load a GET belongs to, loc the certificate it
\* reads, deletes or replaces, type and exp what an upload or a replace
\* sends; a served GET carries what it read (locs, exp)
Request(kind, id, loc, type, exp) ==
    [kind |-> kind, id |-> id, loc |-> loc, type |-> type, exp |-> exp,
     served |-> FALSE, ok |-> FALSE, locs |-> {}, waiting |-> TRUE]

\* requests that change the BMC's certificates
Mutations == {"add", "delete", "replace"}

-----------------------------------------------------------------------------
(* Callbacks work on a record ctx: [reqs, loads, certs, avail, loading, csr] *)

Ctx == [reqs |-> reqs, loads |-> loads, certs |-> certificates,
        avail |-> available, loading |-> loading, csr |-> csr]

SetCtx(ctx) ==
    /\ reqs' = ctx.reqs /\ loads' = ctx.loads /\ certificates' = ctx.certs
    /\ available' = ctx.avail /\ loading' = ctx.loading /\ csr' = ctx.csr

\* loadCertificates: an empty list, every type available, the locations GET
LoadCertificates(ctx) ==
    LET l == Len(ctx.loads) + 1
    IN [ctx EXCEPT !.certs = EmptyBag, !.avail = Types, !.loading = TRUE,
                   !.loads = Append(@, [st |-> "locs", pend |-> {}]),
                   !.reqs = @ \cup {Request("locs", l, "none", "none", "none")}]

\* isExpiring: ValidNotAfter less bmcTime / 1000; with bmcTime undefined
\* the difference is NaN, both comparisons are false and the certificate
\* is marked neither expired nor expiring
IsExpiring(exp, time) ==
    IF ~time THEN [isExpired |-> FALSE, isExpiring |-> FALSE]
    ELSE [isExpired |-> exp = "expired", isExpiring |-> exp = "expiring"]

\* the pushed certificate: its location and expiry, and isExpiring's flags
Shown(loc, exp, time) ==
    LET f == IsExpiring(exp, time)
    IN [loc |-> loc, exp |-> exp, isExpired |-> f.isExpired,
        isExpiring |-> f.isExpiring]

\* updateAvailableTypes: drop the certificate's type unless it is TrustStore
UpdateAvailableTypes(avail, loc) ==
    {t \in avail : t = TrustStore \/ t # LocType[loc]}

\* the $q.all's catch and finally: loading = false (the sort is a no-op on
\* the bag); a load settles once
Settle(ctx, l) ==
    [ctx EXCEPT !.loads[l].st = "settled", !.loading = FALSE]

\* mutant: the $q.all settles only when every certificate resolved
CertResolvedNoCatch(ctx, r) ==
    LET L == ctx.loads[r.id]
    IN IF L.st # "open" \/ ~r.ok THEN ctx
       ELSE IF L.pend = {r.loc} THEN Settle(ctx, r.id)
       ELSE [ctx EXCEPT !.loads[r.id].pend = @ \ {r.loc}]

\* getCertificatePromise's part of load l has resolved or rejected: the
\* first rejection, or the last resolution, settles the $q.all
CertResolved(ctx, r) ==
    LET L == ctx.loads[r.id]
    IN IF L.st # "open" THEN ctx
       ELSE IF ~r.ok \/ L.pend = {r.loc} THEN Settle(ctx, r.id)
       ELSE [ctx EXCEPT !.loads[r.id].pend = @ \ {r.loc}]

\* the callbacks an answer to r runs
OnAnswer(ctx, r) ==
    CASE r.kind = "locs" /\ ~r.ok ->
           [ctx EXCEPT !.loading = FALSE, !.avail = {}]
      \* one getCertificate per location; $q.all([]) resolves at once
      [] r.kind = "locs" ->
           LET u == [ctx EXCEPT !.loads[r.id] = [st |-> "open", pend |-> r.locs],
                                !.reqs = @ \cup {Request("cert", r.id, c, "none", "none")
                                                   : c \in r.locs}]
           IN IF r.locs = {} THEN Settle(u, r.id) ELSE u
      \* getCertificatePromise's then: isExpiring, updateAvailableTypes, push;
      \* it runs whether or not its load's $q.all has settled
      [] r.kind = "cert" ->
           CertResolved(IF ~r.ok THEN ctx
                        ELSE [ctx EXCEPT !.certs = BagAdd(@, Shown(r.loc, r.exp, bmcTime)),
                                         !.avail = UpdateAvailableTypes(@, r.loc)], r)
      \* uploadCertificate, deleteCert and replaceCertificate reload on success
      [] r.kind \in Mutations ->
           IF r.ok THEN LoadCertificates(ctx) ELSE ctx
      \* getCSRCode: the CSR string in the download modal
      [] r.kind = "csr" ->
           [ctx EXCEPT !.csr = r.ok \/ @]
      [] OTHER -> ctx

-----------------------------------------------------------------------------
(* The BMC.                                                                *)

\* where an upload of type t lands: a free location of that type
FreeLoc(b, t) == {l \in Locs : b[l] = Absent /\ LocType[l] = t}

\* the BMC performs r (ok) or fails it without effect; a GET of a missing
\* certificate, a DELETE or a replace of one, or an upload with no free
\* location of its type fail
Serve(r, ok) ==
    /\ r \in reqs /\ ~r.served
    /\ ok => CASE r.kind \in {"cert", "delete", "replace"} -> bmc[r.loc] # Absent
               [] r.kind = "add" -> FreeLoc(bmc, r.type) # {}
               [] OTHER -> TRUE
    /\ bmc' = CASE ok /\ r.kind = "add" ->
                     [bmc EXCEPT ![CHOOSE l \in FreeLoc(bmc, r.type) : TRUE] = r.exp]
                [] ok /\ r.kind = "delete" -> [bmc EXCEPT ![r.loc] = Absent]
                [] ok /\ r.kind = "replace" -> [bmc EXCEPT ![r.loc] = r.exp]
                [] OTHER -> bmc
    /\ reqs' = (reqs \ {r}) \cup
               IF ~r.waiting THEN {} ELSE
               {[r EXCEPT !.served = TRUE, !.ok = ok,
                          !.locs = IF ok /\ r.kind = "locs" THEN Present(bmc) ELSE {},
                          !.exp = IF ok /\ r.kind = "cert" THEN bmc[r.loc] ELSE @]}
    /\ UNCHANGED <<loads, certificates, available, loading, bmcTime, viewLoaded,
                   csr, clicks>>

\* the answer to r reaches the page and its callbacks run; getBmcTime's
\* then sets $scope.bmcTime
Answer(r) ==
    /\ r \in reqs /\ r.served /\ r.waiting
    /\ SetCtx(OnAnswer([Ctx EXCEPT !.reqs = @ \ {r}], r))
    /\ bmcTime' = (bmcTime \/ (r.kind = "time" /\ r.ok))
    /\ UNCHANGED <<bmc, viewLoaded, clicks>>

\* apiInterceptor's 20 s timeout: the page gets an error for r whether or
\* not the BMC performed it; a POST or DELETE not served yet may still be
TimeOut(r) ==
    /\ r \in reqs /\ r.waiting
    /\ LET late == IF ~r.served /\ r.kind \in Mutations
                   THEN {[r EXCEPT !.waiting = FALSE]} ELSE {}
       IN SetCtx(OnAnswer([Ctx EXCEPT !.reqs = (@ \ {r}) \cup late],
                          [r EXCEPT !.ok = FALSE]))
    /\ UNCHANGED <<bmc, bmcTime, viewLoaded, clicks>>

-----------------------------------------------------------------------------
(* The user.  The upload modal offers the available types; a listed        *)
(* certificate's directive offers Replace, and Delete for TrustStore ones. *)

Click == clicks < MaxClicks /\ clicks' = clicks + 1

ShownLocs == {e.loc : e \in BagToSet(certificates)}

\* $viewContentLoaded: getBmcTime()
ViewContentLoaded ==
    /\ ~viewLoaded /\ viewLoaded' = TRUE
    /\ reqs' = reqs \cup {Request("time", 0, "none", "none", "none")}
    /\ UNCHANGED <<bmc, loads, certificates, available, loading, bmcTime, csr, clicks>>

\* uploadCertificate of a file whose validity is e: a name not ending in
\* .pem only toasts
UploadCertificate(t, pem, e) ==
    /\ t \in available /\ Click
    /\ reqs' = IF pem THEN reqs \cup {Request("add", clicks, "none", t, e)} ELSE reqs
    /\ UNCHANGED <<bmc, loads, certificates, available, loading, bmcTime,
                   viewLoaded, csr>>

\* the remove modal confirmed: deleteCert
DeleteCert(l) ==
    /\ l \in ShownLocs /\ LocType[l] = TrustStore /\ Click
    /\ reqs' = reqs \cup {Request("delete", clicks, l, "none", "none")}
    /\ UNCHANGED <<bmc, loads, certificates, available, loading, bmcTime,
                   viewLoaded, csr>>

\* replaceCertificate: a .pem file is read and its contents POSTed
ReplaceCertificate(l, pem, e) ==
    /\ l \in ShownLocs /\ Click
    /\ reqs' = IF pem THEN reqs \cup {Request("replace", clicks, l, "none", e)} ELSE reqs
    /\ UNCHANGED <<bmc, loads, certificates, available, loading, bmcTime,
                   viewLoaded, csr>>

\* getCSRCode from the CSR modal
GetCSRCode ==
    /\ ~csr /\ Click
    /\ reqs' = reqs \cup {Request("csr", clicks, "none", "none", "none")}
    /\ UNCHANGED <<bmc, loads, certificates, available, loading, bmcTime,
                   viewLoaded, csr>>

\* the download modal dismissed: resetCSRModal
CloseCSR ==
    /\ csr /\ csr' = FALSE
    /\ UNCHANGED <<bmc, reqs, loads, certificates, available, loading, bmcTime,
                   viewLoaded, clicks>>

\* the controller runs loadCertificates() when it is built
Init ==
    LET c == LoadCertificates([reqs |-> {}, loads |-> <<>>, certs |-> EmptyBag,
                               avail |-> {}, loading |-> FALSE, csr |-> FALSE])
    IN /\ bmc = InitCerts
       /\ reqs = c.reqs /\ loads = c.loads /\ certificates = c.certs
       /\ available = c.avail /\ loading = c.loading /\ csr = c.csr
       /\ bmcTime = FALSE /\ viewLoaded = FALSE /\ clicks = 0

Next ==
    \/ \E r \in reqs, ok \in BOOLEAN : Serve(r, ok)
    \/ \E r \in reqs : Answer(r) \/ TimeOut(r)
    \/ ViewContentLoaded
    \/ \E t \in Types, pem \in BOOLEAN, e \in FileExpiry : UploadCertificate(t, pem, e)
    \/ \E l \in Locs : DeleteCert(l)
    \/ \E l \in Locs, pem \in BOOLEAN, e \in FileExpiry : ReplaceCertificate(l, pem, e)
    \/ GetCSRCode
    \/ CloseCSR

\* the BMC and $http: a request is eventually served, answered or timed out
Fairness == WF_vars(\E r \in reqs, ok \in BOOLEAN : Serve(r, ok) \/ Answer(r) \/ TimeOut(r))

Spec == Init /\ [][Next]_vars /\ Fairness

-----------------------------------------------------------------------------
(* Properties.                                                             *)

ShownType == [loc : Locs, exp : Expiry, isExpired : BOOLEAN, isExpiring : BOOLEAN]

TypeOK ==
    /\ bmc \in [Locs -> Expiry \cup {Absent}]
    /\ IsABag(certificates) /\ BagToSet(certificates) \subseteq ShownType
    /\ available \subseteq Types
    /\ loading \in BOOLEAN /\ bmcTime \in BOOLEAN /\ csr \in BOOLEAN
    /\ \A i \in DOMAIN loads : loads[i].st \in {"locs", "open", "settled"}
                              /\ loads[i].pend \subseteq Locs
    /\ clicks \in 0..MaxClicks

\* The certificate list's loader always goes off: every loadCertificates
\* (at construction and after an upload, a delete or a replace) ends in its
\* error callback or in the finally of its $q.all, whatever the BMC answers.
LoadingSettles == loading ~> ~loading

\* The list shows each certificate the BMC has at most once, and one that
\* has expired is marked expired (isExpiring, against the BMC's time).
CertificatesShownFaithfully ==
    \A e \in BagToSet(certificates) :
        /\ CopiesIn(e, certificates) = 1
        /\ \A f \in BagToSet(certificates) : f.loc = e.loc => f = e
        /\ e.exp = "expired" => e.isExpired
=============================================================================
