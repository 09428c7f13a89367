------------------------------ MODULE Network ------------------------------
(***************************************************************************)
(* The network settings page of phosphor-webui (network-controller.js)    *)
(* with its APIUtils requests and the BMC's network objects.  The page    *)
(* edits one interface: its scalar settings (MAC address, default         *)
(* gateway, hostname, DNS servers: each a field compared with what the    *)
(* last load read and PUT when it differs), DHCPEnabled, and its static  *)
(* IPv4 addresses.  An address's object id on the BMC is derived from the *)
(* address, so an address added again gets its old id.                   *)
(***************************************************************************)
EXTENDS Naturals, Sequences, FiniteSets, SequencesExt

CONSTANTS
    Fields,         \* MACAddress, DefaultGateway, HostName, Nameservers
    Vals,           \* the values a field may take
    Addrs,          \* IPv4 addresses (and their object ids)
    AddrOrder,      \* the order the enumerate lists the addresses in
    InitNet,        \* the BMC's settings when the page loads
    MaxClicks       \* bound on the user's clicks

Unset == "unset"    \* a scope value before the first load ('' or {})
Bad == "bad"        \* an address, gateway or prefix validIPV4IP refuses
NoId == "noid"      \* an ipv4 value added on the page, with no id

BmcType == [set : [Fields -> Vals], dhcp : BOOLEAN, addrs : SUBSET Addrs]

ASSUME /\ InitNet \in BmcType /\ MaxClicks \in Nat
       /\ AddrOrder \in Seq(Addrs) /\ ToSet(AddrOrder) = Addrs

VARIABLES
    bmc,            \* the BMC's settings of the interface
    reqs,           \* $http requests not yet answered
    ds,             \* dataService's values and $scope.oldInterface
    form,           \* $scope.interface, hostname and defaultGateway
    loaded,         \* a load has set $scope.interface
    toDelete,       \* $scope.ipv4sToDelete
    loading,        \* $scope.loading
    saves,          \* each setNetworkSettings' $q.all, and its $timeout
    clicks          \* the user's clicks so far

vars == <<bmc, reqs, ds, form, loaded, toDelete, loading, saves, clicks>>

\* a request: kind get, put (a field), dhcp, del or add; save is the
\* setNetworkSettings it belongs to (0: none), key the field or address,
\* val the field's value, on the DHCPEnabled sent, part whether the
\* save's $q.all waits on it (a delete it waits on is updateIPV4's), i the
\* index of the ipv4 value it is for
Request(kind, save, key, val, on, part, i) ==
    [kind |-> kind, save |-> save, key |-> key, val |-> val, on |-> on,
     part |-> part, i |-> i, served |-> FALSE, ok |-> FALSE,
     got |-> InitNet, waiting |-> TRUE]

\* requests that change the BMC
Mutations == {"put", "dhcp", "del", "add"}

\* the interface's ipv4 values as a load sets them: id, address, and the
\* update flags cleared
Ipv4Values(addrs) ==
    [i \in 1..Cardinality(addrs) |->
        LET a == SelectSeq(AddrOrder, LAMBDA x : x \in addrs)[i]
        IN [id |-> a, addr |-> a, upd |-> FALSE]]

-----------------------------------------------------------------------------
(* Callbacks work on a record ctx: [reqs, ds, form, loaded, loading, saves] *)

Ctx == [reqs |-> reqs, ds |-> ds, form |-> form, loaded |-> loaded,
        loading |-> loading, saves |-> saves]

SetCtx(ctx) ==
    /\ reqs' = ctx.reqs /\ ds' = ctx.ds /\ form' = ctx.form
    /\ loaded' = ctx.loaded /\ loading' = ctx.loading /\ saves' = ctx.saves

\* loadNetworkInfo: getNetworkInfo's GET; n tells the loads apart
LoadNetworkInfo(ctx, s, n) ==
    [ctx EXCEPT !.reqs = @ \cup {Request("get", s, n, Unset, FALSE, FALSE, 0)}]

\* the load's then: setNetworkInfo, the interface and its copy, the ids
\* and update flags of its ipv4 values; ipv4sToDelete is left as it is
Loaded(ctx, b) ==
    [ctx EXCEPT !.ds = [set |-> b.set, dhcp |-> b.dhcp],
                !.form = [set |-> b.set, dhcp |-> b.dhcp, ipv4 |-> Ipv4Values(b.addrs)],
                !.loaded = TRUE]

\* mutant: a rejected part fails the save but leaves the loader on
PartSettledKeepsLoading(ctx, r) ==
    LET S == ctx.saves[r.save]
    IN IF S.st # "open" THEN ctx
       ELSE IF ~r.ok THEN [ctx EXCEPT !.saves[r.save].st = "failed"]
       ELSE IF S.pend = 1 THEN [ctx EXCEPT !.saves[r.save] = [@ EXCEPT !.st = "timer", !.pend = 0]]
       ELSE [ctx EXCEPT !.saves[r.save].pend = @ - 1]

\* the $q.all of save s has seen part r resolve or reject: the first
\* rejection fails it (loading off, error toast), the last resolution arms
\* the reload $timeout
PartSettled(ctx, r) ==
    LET S == ctx.saves[r.save]
    IN IF S.st # "open" THEN ctx
       ELSE IF ~r.ok THEN [ctx EXCEPT !.saves[r.save].st = "failed", !.loading = FALSE]
       ELSE IF S.pend = 1 THEN [ctx EXCEPT !.saves[r.save] = [@ EXCEPT !.st = "timer", !.pend = 0]]
       ELSE [ctx EXCEPT !.saves[r.save].pend = @ - 1]

\* the callbacks an answer to r runs
OnAnswer(ctx, r) ==
    CASE r.kind = "get" -> IF r.ok THEN Loaded(ctx, r.got) ELSE ctx
      \* updateIPV4's delete resolved: the add it chains takes its place,
      \* with the address $scope.interface.ipv4.values[index] holds now; a
      \* value no longer there throws, which rejects the chain
      [] r.kind = "del" /\ r.part /\ r.ok ->
           IF r.i \in DOMAIN ctx.form.ipv4
           THEN [ctx EXCEPT !.reqs = @ \cup
                    {Request("add", r.save, ctx.form.ipv4[r.i].addr, Unset, FALSE, TRUE, r.i)}]
           ELSE PartSettled(ctx, [r EXCEPT !.ok = FALSE])
      [] r.part -> PartSettled(ctx, r)
      \* removeIPV4s' deletes: only logged
      [] OTHER -> ctx

-----------------------------------------------------------------------------
(* The BMC.                                                                *)

\* the BMC performs r (ok) or fails it without effect; a DELETE of an
\* address it does not hold fails, and so does a POST of an invalid one
Serve(r, ok) ==
    /\ r \in reqs /\ ~r.served
    /\ ok /\ r.kind = "del" => r.key \in bmc.addrs
    /\ ok /\ r.kind = "add" => r.key \in Addrs
    /\ bmc' = CASE ok /\ r.kind = "put" -> [bmc EXCEPT !.set[r.key] = r.val]
                [] ok /\ r.kind = "dhcp" -> [bmc EXCEPT !.dhcp = r.on]
                [] ok /\ r.kind = "del" -> [bmc EXCEPT !.addrs = @ \ {r.key}]
                [] ok /\ r.kind = "add" -> [bmc EXCEPT !.addrs = @ \cup {r.key}]
                [] OTHER -> bmc
    /\ reqs' = (reqs \ {r}) \cup
               IF ~r.waiting THEN {}
               ELSE {[r EXCEPT !.served = TRUE, !.ok = ok, !.got = bmc]}
    /\ UNCHANGED <<ds, form, loaded, toDelete, loading, saves, clicks>>

\* the answer to r reaches the page and its callbacks run
Answer(r) ==
    /\ r \in reqs /\ r.served /\ r.waiting
    /\ SetCtx(OnAnswer([Ctx EXCEPT !.reqs = @ \ {r}], r))
    /\ UNCHANGED <<bmc, toDelete, clicks>>

\* apiInterceptor's 20 s timeout: the page gets an error for r whether or
\* not the BMC performed it; a PUT or POST not served yet may still be
TimeOut(r) ==
    /\ r \in reqs /\ r.waiting
    /\ LET late == IF ~r.served /\ r.kind \in Mutations
                   THEN {[r EXCEPT !.waiting = FALSE]} ELSE {}
       IN SetCtx(OnAnswer([Ctx EXCEPT !.reqs = (@ \ {r}) \cup late],
                          [r EXCEPT !.ok = FALSE]))
    /\ UNCHANGED <<bmc, toDelete, clicks>>

\* the reload $timeout of save s fires: loadNetworkInfo, loading off, and
\* the toast 'Network settings saved'
TimerFires(s) ==
    /\ saves[s].st = "timer"
    /\ SetCtx([LoadNetworkInfo(Ctx, s, 0) EXCEPT !.saves[s].st = "done",
                                                 !.loading = FALSE])
    /\ UNCHANGED <<bmc, toDelete, clicks>>

-----------------------------------------------------------------------------
(* The user.  The view is bound to $scope.interface; it offers the form    *)
(* once a load has set the interface.                                      *)

Click == clicks < MaxClicks /\ clicks' = clicks + 1

\* an edit of the form: a field (a DNS server added or removed, the MAC,
\* gateway or hostname typed), DHCPEnabled switched, or an ipv4 value's
\* address typed, which sets its update flag
EditForm ==
    /\ loaded /\ Click
    /\ \/ \E k \in Fields, v \in Vals : form' = [form EXCEPT !.set[k] = v]
       \/ form' = [form EXCEPT !.dhcp = ~@]
       \/ \E i \in DOMAIN form.ipv4, a \in Addrs \cup {Bad} :
             form' = [form EXCEPT !.ipv4[i] = [@ EXCEPT !.addr = a, !.upd = TRUE]]
    /\ UNCHANGED <<bmc, reqs, ds, loaded, toDelete, loading, saves>>

\* addIpv4Field: an empty value, which validIPV4IP refuses until typed
AddIpv4Field ==
    /\ loaded /\ Click
    /\ form' = [form EXCEPT !.ipv4 = Append(@, [id |-> NoId, addr |-> Bad, upd |-> FALSE])]
    /\ UNCHANGED <<bmc, reqs, ds, loaded, toDelete, loading, saves>>

\* removeIpv4Address: a value with an id is queued for deletion
RemoveIpv4Address(i) ==
    /\ i \in DOMAIN form.ipv4 /\ Click
    /\ toDelete' = IF form.ipv4[i].id # NoId THEN toDelete \cup {form.ipv4[i].id}
                   ELSE toDelete
    /\ form' = [form EXCEPT !.ipv4 = RemoveAt(@, i)]
    /\ UNCHANGED <<bmc, reqs, ds, loaded, loading, saves>>

\* updateIPV4 (delete, then add) for a value with an id, addIPV4 without
UpdateOrAdd(v, s, i) ==
    IF v.id # NoId THEN Request("del", s, v.id, Unset, FALSE, TRUE, i)
    ELSE Request("add", s, v.addr, Unset, FALSE, TRUE, i)

\* setNetworkSettings, confirmed in its modal: a PUT for every setting
\* that differs from the last load; with DHCP off the removeIPV4s deletes
\* (an array in promises, which $q.all takes as resolved), then the ipv4
\* values in order, returning at the first invalid one with what was sent
\* so far in flight; the $q.all of the rest, which with DHCP off always
\* has the deletes' array to wait on
SetNetworkSettings ==
    /\ loaded /\ Click
    /\ LET s == Len(saves) + 1
           f == form
           puts == {Request("put", s, k, f.set[k], FALSE, TRUE, 0) :
                       k \in {k \in Fields : f.set[k] # ds.set[k]}}
                   \cup (IF f.dhcp # ds.dhcp
                         THEN {Request("dhcp", s, "DHCPEnabled", Unset, f.dhcp, TRUE, 0)}
                         ELSE {})
           bad == {i \in DOMAIN f.ipv4 : f.ipv4[i].addr = Bad}
           early == ~f.dhcp /\ bad # {}
           sent == IF bad = {} THEN DOMAIN f.ipv4 ELSE 1..(Min(bad) - 1)
           ipv4 == IF f.dhcp THEN {}
                   ELSE {UpdateOrAdd(f.ipv4[i], s, i) : i \in {i \in sent : f.ipv4[i].upd}}
           dels == IF f.dhcp THEN {}
                   ELSE {Request("del", s, a, Unset, FALSE, FALSE, 0) : a \in toDelete}
           parts == puts \cup ipv4
           none == early \/ (f.dhcp /\ parts = {})
       IN /\ reqs' = reqs \cup puts \cup dels \cup ipv4
          /\ saves' = Append(saves,
                         [st |-> IF none THEN "none" ELSE IF parts = {} THEN "timer" ELSE "open",
                          pend |-> Cardinality(parts), dhcp |-> f.dhcp,
                          want |-> {f.ipv4[i].addr : i \in DOMAIN f.ipv4},
                          alone |-> \A r \in reqs : r.save = 0])
          /\ loading' = ~none
    /\ UNCHANGED <<bmc, ds, form, loaded, toDelete>>

\* refresh: loadNetworkInfo
Refresh ==
    /\ Click
    /\ reqs' = LoadNetworkInfo(Ctx, 0, clicks + 1).reqs
    /\ UNCHANGED <<bmc, ds, form, loaded, toDelete, loading, saves>>

\* the controller runs loadNetworkInfo() when it is built
Init ==
    /\ bmc = InitNet
    /\ reqs = {Request("get", 0, 0, Unset, FALSE, FALSE, 0)}
    /\ ds = [set |-> [k \in Fields |-> Unset], dhcp |-> FALSE]
    /\ form = [set |-> [k \in Fields |-> Unset], dhcp |-> FALSE, ipv4 |-> <<>>]
    /\ loaded = FALSE /\ toDelete = {} /\ loading = FALSE
    /\ saves = <<>> /\ clicks = 0

Next ==
    \/ \E r \in reqs, ok \in BOOLEAN : Serve(r, ok)
    \/ \E r \in reqs : Answer(r) \/ TimeOut(r)
    \/ \E s \in DOMAIN saves : TimerFires(s)
    \/ EditForm
    \/ AddIpv4Field
    \/ \E i \in DOMAIN form.ipv4 : RemoveIpv4Address(i)
    \/ SetNetworkSettings
    \/ Refresh

\* the BMC and $http: a request is eventually served, answered or timed
\* out; a $timeout eventually fires
Fairness ==
    /\ WF_vars(\E r \in reqs, ok \in BOOLEAN : Serve(r, ok) \/ Answer(r) \/ TimeOut(r))
    /\ WF_vars(\E s \in DOMAIN saves : TimerFires(s))

Spec == Init /\ [][Next]_vars /\ Fairness

-----------------------------------------------------------------------------
(* Properties.                                                             *)

Ipv4Value == [id : Addrs \cup {NoId}, addr : Addrs \cup {Bad}, upd : BOOLEAN]

TypeOK ==
    /\ bmc \in BmcType
    /\ form.set \in [Fields -> Vals \cup {Unset}] /\ form.dhcp \in BOOLEAN
    /\ form.ipv4 \in Seq(Ipv4Value)
    /\ ds \in [set : [Fields -> Vals \cup {Unset}], dhcp : BOOLEAN]
    /\ toDelete \subseteq Addrs /\ loaded \in BOOLEAN /\ loading \in BOOLEAN
    /\ \A s \in DOMAIN saves :
          saves[s].st \in {"none", "open", "timer", "done", "failed"}
    /\ clicks \in 0..MaxClicks

\* The network page's loader always goes off: every setNetworkSettings ends
\* at an invalid value, with nothing to send, in its $q.all's error
\* callback or in its reload $timeout, whatever the BMC answers.
LoadingSettles == loading ~> ~loading

\* When a save with DHCP off toasts 'Network settings saved', the BMC holds
\* exactly the IPv4 addresses the saved form listed, if no other save's
\* request was outstanding from the click to the toast.
SavedReportTruthful ==
    [][\A s \in DOMAIN saves :
          (/\ saves[s].st = "timer" /\ saves'[s].st = "done" /\ ~saves[s].dhcp
           /\ saves[s].alone /\ s = Len(saves) /\ \A r \in reqs : r.save \in {0, s})
              => bmc.addrs = saves[s].want]_vars
=============================================================================
