-------------------------------- MODULE Snmp --------------------------------
(***************************************************************************)
(* The SNMP settings page of phosphor-webui (snmp-controller.js) with its *)
(* APIUtils requests and the BMC's SNMP manager objects.  The page lists  *)
(* the managers (address and port), lets the user add, edit and remove   *)
(* them, and saves by sending every POST, PUT and Delete at once under one *)
(* $q.all; on success it reloads the route, which builds a new controller. *)
(* Callbacks of an older controller run on its own scope, which no view  *)
(* shows any more, so the model keeps the shown controller's scope only.  *)
(***************************************************************************)
EXTENDS Naturals, Sequences, FiniteSets, SequencesExt

CONSTANTS
    Addrs,          \* manager addresses
    Ports,          \* manager ports
    MaxIds,         \* bound on the manager objects the BMC creates
    InitMgrs,       \* the BMC's managers when the page loads, by object id
    MaxClicks       \* bound on the user's clicks

Empty == ""         \* a field of a manager added on the page, not typed yet
NoPath == 0         \* a manager added on the page has no path

Entry == [address : Addrs, port : Ports]

ASSUME /\ MaxIds \in Nat /\ MaxClicks \in Nat
       /\ \E D \in SUBSET (1..MaxIds) : InitMgrs \in [D -> Entry]

VARIABLES
    mgrs,           \* the BMC's manager objects: id -> address and port
    lastId,         \* the last object id the BMC allocated
    reqs,           \* $http requests not yet answered
    gen,            \* the controllers $route has built so far
    managers,       \* the shown controller's $scope.managers
    toDelete,       \* its $scope.managersToDelete
    loading,        \* its $scope.loading
    loaded,         \* whether its getSNMPManagers filled the list, and from what
    saves,          \* each setSNMP's $q.all
    clicks          \* the user's clicks so far

vars == <<mgrs, lastId, reqs, gen, managers, toDelete, loading, loaded, saves,
          clicks>>

\* a request: kind get, add, address, port or del; g its controller, s its
\* save (0: none), path the object, val what is sent, i the manager's index
Request(kind, g, s, path, val, i) ==
    [kind |-> kind, g |-> g, s |-> s, path |-> path, val |-> val, i |-> i,
     served |-> FALSE, ok |-> FALSE, got |-> InitMgrs, waiting |-> TRUE]

Mutations == {"add", "address", "port", "del"}

\* the managers of an enumerate answer, in object order, flags cleared
Listed(m) ==
    LET ids == {k \in 1..MaxIds : k \in DOMAIN m}
        id(j) == CHOOSE k \in ids : Cardinality({x \in ids : x < k}) = j - 1
    IN [j \in 1..Cardinality(ids) |->
          [path |-> id(j), address |-> m[id(j)].address, port |-> m[id(j)].port,
           updateAddress |-> FALSE, updatePort |-> FALSE]]

-----------------------------------------------------------------------------
(* Callbacks work on a record ctx: [reqs, gen, managers, toDelete,         *)
(* loading, loaded, saves].                                                *)

Ctx == [reqs |-> reqs, gen |-> gen, managers |-> managers, toDelete |-> toDelete,
        loading |-> loading, loaded |-> loaded, saves |-> saves]

SetCtx(ctx) ==
    /\ reqs' = ctx.reqs /\ gen' = ctx.gen /\ managers' = ctx.managers
    /\ toDelete' = ctx.toDelete /\ loading' = ctx.loading
    /\ loaded' = ctx.loaded /\ saves' = ctx.saves

\* $route.reload(): a new controller, loading, with getSNMPManagers sent
NewController(ctx) ==
    [ctx EXCEPT !.gen = @ + 1, !.managers = <<>>, !.toDelete = <<>>,
                !.loading = TRUE, !.loaded = [ok |-> FALSE, from |-> InitMgrs],
                !.reqs = @ \cup {Request("get", ctx.gen + 1, 0, NoPath, Empty, 0)}]

\* getSNMPManagers' then pushes the listed managers; its finally clears
\* loading; an older controller's answer changes nothing shown
Loaded(ctx, r) ==
    IF r.g # ctx.gen THEN ctx
    ELSE [ctx EXCEPT !.managers = IF r.ok THEN @ \o Listed(r.got) ELSE @,
                     !.loaded = [ok |-> r.ok, from |-> r.got], !.loading = FALSE]

\* the finally of save s: loading off on its own controller's scope
SaveEnded(ctx, s) ==
    IF ctx.saves[s].g = ctx.gen THEN [ctx EXCEPT !.loading = FALSE] ELSE ctx

\* mutant: a rejected part leaves the loader on
PartSettledKeepsLoading(ctx, r) ==
    LET S == ctx.saves[r.s]
    IN CASE S.st # "open" -> ctx
         [] ~r.ok -> [ctx EXCEPT !.saves[r.s].st = "failed"]
         [] S.pend = 1 -> SaveEnded(NewController([ctx EXCEPT !.saves[r.s].st = "done",
                                                            !.saves[r.s].pend = 0]), r.s)
         [] OTHER -> [ctx EXCEPT !.saves[r.s].pend = @ - 1]

\* the $q.all of a save has seen part r settle: the first rejection toasts
\* the error, the last resolution refreshes and toasts 'saved'
PartSettled(ctx, r) ==
    LET S == ctx.saves[r.s]
    IN CASE S.st # "open" -> ctx
         [] ~r.ok -> SaveEnded([ctx EXCEPT !.saves[r.s].st = "failed"], r.s)
         [] S.pend = 1 -> SaveEnded(NewController([ctx EXCEPT !.saves[r.s].st = "done",
                                                            !.saves[r.s].pend = 0]), r.s)
         [] OTHER -> [ctx EXCEPT !.saves[r.s].pend = @ - 1]

OnAnswer(ctx, r) ==
    IF r.kind = "get" THEN Loaded(ctx, r) ELSE PartSettled(ctx, r)

-----------------------------------------------------------------------------
(* The BMC.                                                                *)

\* the BMC performs r (ok) or fails it without effect: the Client action
\* creates an object with the next id; a PUT or Delete needs the object
Serve(r, ok) ==
    /\ r \in reqs /\ ~r.served
    /\ ok => CASE r.kind = "add" -> lastId < MaxIds
               [] r.kind = "get" -> TRUE
               [] OTHER -> r.path \in DOMAIN mgrs
    /\ mgrs' = CASE ok /\ r.kind = "add" ->
                      [k \in DOMAIN mgrs \cup {lastId + 1} |->
                         IF k = lastId + 1 THEN r.val ELSE mgrs[k]]
                 [] ok /\ r.kind = "address" -> [mgrs EXCEPT ![r.path].address = r.val]
                 [] ok /\ r.kind = "port" -> [mgrs EXCEPT ![r.path].port = r.val]
                 [] ok /\ r.kind = "del" ->
                      [k \in DOMAIN mgrs \ {r.path} |-> mgrs[k]]
                 [] OTHER -> mgrs
    /\ lastId' = IF ok /\ r.kind = "add" THEN lastId + 1 ELSE lastId
    /\ reqs' = (reqs \ {r}) \cup
               IF ~r.waiting THEN {}
               ELSE {[r EXCEPT !.served = TRUE, !.ok = ok, !.got = mgrs]}
    /\ UNCHANGED <<gen, managers, toDelete, loading, loaded, saves, clicks>>

\* the answer to r reaches the page and its callbacks run
Answer(r) ==
    /\ r \in reqs /\ r.served /\ r.waiting
    /\ SetCtx(OnAnswer([Ctx EXCEPT !.reqs = @ \ {r}], r))
    /\ UNCHANGED <<mgrs, lastId, clicks>>

\* apiInterceptor's 20 s timeout: the page gets an error for r whether or
\* not the BMC performed it; a POST or PUT not served yet may still be
TimeOut(r) ==
    /\ r \in reqs /\ r.waiting
    /\ LET late == IF ~r.served /\ r.kind \in Mutations
                   THEN {[r EXCEPT !.waiting = FALSE]} ELSE {}
       IN SetCtx(OnAnswer([Ctx EXCEPT !.reqs = (@ \ {r}) \cup late],
                          [r EXCEPT !.ok = FALSE]))
    /\ UNCHANGED <<mgrs, lastId, clicks>>

-----------------------------------------------------------------------------
(* The user, on the shown controller.                                      *)

Click == clicks < MaxClicks /\ clicks' = clicks + 1

\* addNewSNMPManager: an empty manager row
AddNewSNMPManager ==
    /\ Click
    /\ managers' = Append(managers, [path |-> NoPath, address |-> Empty, port |-> Empty,
                                     updateAddress |-> FALSE, updatePort |-> FALSE])
    /\ UNCHANGED <<mgrs, lastId, reqs, gen, toDelete, loading, loaded, saves>>

\* removeSNMPManager: a manager the BMC has is queued for deletion
RemoveSNMPManager(i) ==
    /\ Click /\ i \in DOMAIN managers
    /\ toDelete' = IF managers[i].path # NoPath THEN Append(toDelete, managers[i].path)
                   ELSE toDelete
    /\ managers' = RemoveAt(managers, i)
    /\ UNCHANGED <<mgrs, lastId, reqs, gen, loading, loaded, saves>>

\* an address or port typed; the view's ng-change sets the update flag
EditManager(i) ==
    /\ Click /\ i \in DOMAIN managers
    /\ \/ \E a \in Addrs : managers' = [managers EXCEPT ![i].address = a,
                                                        ![i].updateAddress = TRUE]
       \/ \E p \in Ports : managers' = [managers EXCEPT ![i].port = p,
                                                        ![i].updatePort = TRUE]
    /\ UNCHANGED <<mgrs, lastId, reqs, gen, toDelete, loading, loaded, saves>>

\* the requests setSNMP sends for the managers and managersToDelete
\* (mutant: a port change is never sent)
SaveRequestsNoPort(s) ==
    LET m == managers
    IN {Request("add", gen, s, NoPath, [address |-> m[i].address, port |-> m[i].port], i) :
          i \in {j \in DOMAIN m : m[j].path = NoPath}}
       \cup {Request("address", gen, s, m[i].path, m[i].address, i) :
               i \in {j \in DOMAIN m : m[j].path # NoPath /\ m[j].updateAddress}}
       \cup {Request("del", gen, s, toDelete[i], Empty, i) : i \in DOMAIN toDelete}

\* the requests setSNMP sends: a POST for a manager without a path, a PUT
\* of the address and of the port flagged as changed, then a Delete per
\* managersToDelete entry
SaveRequests(s) ==
    LET m == managers
    IN {Request("add", gen, s, NoPath, [address |-> m[i].address, port |-> m[i].port], i) :
          i \in {j \in DOMAIN m : m[j].path = NoPath}}
       \cup {Request("address", gen, s, m[i].path, m[i].address, i) :
               i \in {j \in DOMAIN m : m[j].path # NoPath /\ m[j].updateAddress}}
       \cup {Request("port", gen, s, m[i].path, m[i].port, i) :
               i \in {j \in DOMAIN m : m[j].path # NoPath /\ m[j].updatePort}}
       \cup {Request("del", gen, s, toDelete[i], Empty, i) : i \in DOMAIN toDelete}

\* the bag of address-port entries of a function into records with them
Count(f, e) == Cardinality({k \in DOMAIN f : f[k].address = e.address /\ f[k].port = e.port})

\* setSNMP: an empty field stops it with an error toast and loading off;
\* otherwise every request goes out under one $q.all, whose success
\* refreshes (at once when there is nothing to send)
SetSNMP ==
    /\ Click
    /\ LET s == Len(saves) + 1
           new == SaveRequests(s)
           rec(st) == [st |-> st, g |-> gen, pend |-> Cardinality(new), fresh |-> loaded.ok /\ loaded.from = mgrs,
                   first |-> \A t \in DOMAIN saves : saves[t].g # gen,
                   alone |-> \A r \in reqs : r.kind \notin Mutations,
                   want |-> [e \in Entry |-> Count(managers, e)]]
       IN IF \E i \in DOMAIN managers : Empty \in {managers[i].address, managers[i].port}
          THEN /\ loading' = FALSE
               /\ UNCHANGED <<reqs, gen, managers, toDelete, loaded, saves>>
          ELSE IF new = {}
          THEN SetCtx(NewController([Ctx EXCEPT !.saves =
                                       Append(@, rec("done"))]))
          ELSE /\ saves' = Append(saves, rec("open"))
               /\ reqs' = reqs \cup new /\ loading' = TRUE
               /\ UNCHANGED <<gen, managers, toDelete, loaded>>
    /\ UNCHANGED <<mgrs, lastId>>

\* refresh: $route.reload()
Refresh ==
    /\ Click
    /\ SetCtx(NewController(Ctx))
    /\ UNCHANGED <<mgrs, lastId>>

\* the controller as $route first builds it
Init ==
    /\ mgrs = InitMgrs
    /\ lastId = CHOOSE k \in 0..MaxIds : \A j \in DOMAIN InitMgrs : j <= k
    /\ reqs = {Request("get", 1, 0, NoPath, Empty, 0)}
    /\ gen = 1 /\ managers = <<>> /\ toDelete = <<>>
    /\ loading = TRUE /\ loaded = [ok |-> FALSE, from |-> InitMgrs] /\ saves = <<>> /\ clicks = 0

Next ==
    \/ \E r \in reqs, ok \in BOOLEAN : Serve(r, ok)
    \/ \E r \in reqs : Answer(r) \/ TimeOut(r)
    \/ AddNewSNMPManager
    \/ \E i \in DOMAIN managers : RemoveSNMPManager(i) \/ EditManager(i)
    \/ SetSNMP
    \/ Refresh

\* the BMC and $http: a request is eventually served, answered or timed out
Fairness ==
    WF_vars(\E r \in reqs, ok \in BOOLEAN : Serve(r, ok) \/ Answer(r) \/ TimeOut(r))

Spec == Init /\ [][Next]_vars /\ Fairness

-----------------------------------------------------------------------------
(* Properties.                                                             *)

Manager == [path : 0..MaxIds, address : Addrs \cup {Empty}, port : Ports \cup {Empty},
            updateAddress : BOOLEAN, updatePort : BOOLEAN]

TypeOK ==
    /\ \E D \in SUBSET (1..MaxIds) : mgrs \in [D -> Entry]
    /\ lastId \in 0..MaxIds /\ managers \in Seq(Manager)
    /\ toDelete \in Seq(1..MaxIds) /\ loading \in BOOLEAN
    /\ \A s \in DOMAIN saves : saves[s].st \in {"open", "done", "failed"}
    /\ clicks \in 0..MaxClicks

\* When the first save of a controller whose list shows the BMC's managers
\* (loaded from the managers the BMC still held at the click, then edited)
\* toasts 'SNMP settings have been saved', the BMC holds exactly the
\* managers the saved list showed, as a bag of address-port entries, if no
\* other request that changes the BMC was outstanding from the click to the
\* toast: the POSTs, PUTs and Deletes setSNMP sends together add up to the
\* list.
SnmpSavedTruthful ==
    [][\A s \in DOMAIN saves' :
          (/\ s = Len(saves') /\ saves'[s].st = "done"
           /\ (s \in DOMAIN saves => saves[s].st = "open")
           /\ saves'[s].fresh /\ saves'[s].first /\ saves'[s].alone
           /\ \A r \in reqs' : r.kind \in Mutations => r.s = s)
              => \A e \in Entry : Count(mgrs', e) = saves'[s].want[e]]_vars
=============================================================================
