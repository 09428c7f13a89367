------------------------------- MODULE EventLog -------------------------------
(***************************************************************************)
(* The event log page of phosphor-webui (log-controller.js) with getLogs,  *)
(* deleteLogs and resolveLogs of APIUtils, the header's loadServerHealth   *)
(* and refresh (app-header.js), dataService.updateServerHealth, and the    *)
(* BMC's logging entries.  The page lists the entries, the user selects    *)
(* rows, deletes the selected ones (one POST each, then a reload) or       *)
(* resolves them (one PUT each; on success the page marks the item objects *)
(* it sent).  The header's refresh reloads the route, which builds a new    *)
(* controller; an older controller's callbacks change its own scope only,  *)
(* but the server health they set is the dataService's, shown by the      *)
(* header whatever the page.                                              *)
(***************************************************************************)
EXTENDS Naturals, Sequences, FiniteSets, SequencesExt

CONSTANTS
    Ids,            \* entry ids, numbers
    Priority,       \* the priority each entry's Severity maps to
    InitLogs,       \* the BMC's entries when the app loads: id -> Resolved
    MaxClicks       \* bound on the user's clicks

Priorities == {"High", "Medium", "Low"}
Healths == {"unknown", "good", "warning", "critical"}   \* SERVER_HEALTH

ASSUME /\ Ids \subseteq Nat /\ Priority \in [Ids -> Priorities]
       /\ \E D \in SUBSET Ids : InitLogs \in [D -> BOOLEAN]
       /\ MaxClicks \in Nat

VARIABLES
    bmc,            \* the BMC's entries: id -> Resolved
    reqs,           \* $http requests not yet answered
    gen,            \* the controllers $route has built so far
    sent,           \* the getLogs requests sent so far, numbering them
    logs,           \* the shown controller's $scope.logs: id -> item
    shown,          \* the getLogs request whose answer $scope.logs holds
    loading,        \* its $scope.loading
    batches,        \* each deleteLogs' and resolveLogs' $q.all
    health,         \* dataService.server_health
    healthFrom,     \* the entries of the answer health was computed from
    clicks          \* the user's clicks so far

vars == <<bmc, reqs, gen, sent, logs, shown, loading, batches, health,
          healthFrom, clicks>>

\* a request: kind page (the page's getLogs), header (loadServerHealth's),
\* del or put; g its controller, n its getLogs number, b its batch, id the
\* entry
Request(kind, g, n, b, id) ==
    [kind |-> kind, g |-> g, n |-> n, b |-> b, id |-> id,
     served |-> FALSE, ok |-> FALSE, got |-> InitLogs, waiting |-> TRUE]

Gets == {"page", "header"}

\* mutant: the loop without its return, a later Medium entry overriding
RECURSIVE HealthLoopNoReturn(_, _)
HealthLoopNoReturn(s, h) ==
    IF s = <<>> THEN h
    ELSE HealthLoopNoReturn(Tail(s),
             CASE Head(s).priority = "High" /\ ~Head(s).Resolved -> "critical"
               [] Head(s).priority = "Medium" /\ ~Head(s).Resolved -> "warning"
               [] OTHER -> h)

\* updateServerHealth: good, then over the entries in order critical at the
\* first unresolved High one (return), warning at an unresolved Medium one
RECURSIVE HealthLoop(_, _)
HealthLoop(s, h) ==
    IF s = <<>> THEN h
    ELSE IF Head(s).priority = "High" /\ ~Head(s).Resolved THEN "critical"
    ELSE HealthLoop(Tail(s), IF Head(s).priority = "Medium" /\ ~Head(s).Resolved
                             THEN "warning" ELSE h)

\* getLogs: the enumerate's entries in path order, each with its priority
Entries(got) ==
    LET ids == SetToSortSeq(DOMAIN got, <)
    IN [j \in DOMAIN ids |-> [priority |-> Priority[ids[j]], Resolved |-> got[ids[j]]]]

UpdateServerHealth(got) == HealthLoop(Entries(got), "good")

\* the entries the view shows selected: the $watch('logs') filter
SelectedEvents == {id \in DOMAIN logs : logs[id].selected}

-----------------------------------------------------------------------------
(* Callbacks work on a record ctx: [reqs, gen, sent, logs, shown, loading, *)
(* batches, health, healthFrom].                                          *)

Ctx == [reqs |-> reqs, gen |-> gen, sent |-> sent, logs |-> logs, shown |-> shown,
        loading |-> loading, batches |-> batches, health |-> health,
        healthFrom |-> healthFrom]

SetCtx(ctx) ==
    /\ reqs' = ctx.reqs /\ gen' = ctx.gen /\ sent' = ctx.sent /\ logs' = ctx.logs
    /\ shown' = ctx.shown /\ loading' = ctx.loading /\ batches' = ctx.batches
    /\ health' = ctx.health /\ healthFrom' = ctx.healthFrom

\* loadLogs on controller g: loading on, one GET
LoadLogs(ctx, g) ==
    [ctx EXCEPT !.sent = @ + 1,
                !.loading = IF g = ctx.gen THEN TRUE ELSE @,
                !.reqs = @ \cup {Request("page", g, ctx.sent + 1, 0, 0)}]

\* $route.reload(): a new controller, whose constructor calls loadLogs
NewController(ctx) ==
    LoadLogs([ctx EXCEPT !.gen = @ + 1, !.logs = <<>>, !.shown = 0,
                         !.loading = FALSE], ctx.gen + 1)

\* getLogs' then (there is no rejection handler): the server health from
\* the entries and, on the shown controller, the new items, unselected,
\* and loading off; loadServerHealth's then sets the health only
Loaded(ctx, r) ==
    LET withHealth == [ctx EXCEPT !.health = UpdateServerHealth(r.got),
                                  !.healthFrom = r.got]
    IN CASE ~r.ok -> ctx
         [] r.kind = "page" /\ r.g = ctx.gen ->
              [withHealth EXCEPT !.logs = [id \in DOMAIN r.got |->
                                             [Resolved |-> r.got[id], selected |-> FALSE]],
                                 !.shown = r.n, !.loading = FALSE]
         [] OTHER -> withHealth

\* mutant: resolve marks its items when its $q.all settles either way
PartSettledMarksOnFailure(ctx, r) ==
    LET B == ctx.batches[r.b]
        marked == [ctx EXCEPT !.logs = [id \in DOMAIN @ |->
                                         IF id \in B.events THEN [@[id] EXCEPT !.Resolved = TRUE]
                                         ELSE @[id]]]
    IN CASE B.st # "open" -> ctx
         [] ~r.ok /\ B.kind = "put" /\ B.g = ctx.gen /\ B.shown = ctx.shown ->
              [marked EXCEPT !.batches[r.b].st = "failed"]
         [] ~r.ok -> [ctx EXCEPT !.batches[r.b].st = "failed"]
         [] B.pend > 1 -> [ctx EXCEPT !.batches[r.b].pend = @ - 1]
         [] B.kind = "del" -> LoadLogs([ctx EXCEPT !.batches[r.b].st = "done"], B.g)
         [] B.g = ctx.gen /\ B.shown = ctx.shown -> [marked EXCEPT !.batches[r.b].st = "done"]
         [] OTHER -> [ctx EXCEPT !.batches[r.b].st = "done"]

\* a request of batch b settles: deleteLogs resolves its deferred when all
\* POSTs succeeded, and never otherwise; accept's then reloads the list;
\* resolveLogs' $q.all rejects at the first failure (only logged) and on
\* success resolve marks the item objects it sent, which are still shown
\* only if no answer replaced the list since
PartSettled(ctx, r) ==
    LET B == ctx.batches[r.b]
    IN CASE B.st # "open" -> ctx
         [] ~r.ok -> [ctx EXCEPT !.batches[r.b].st = "failed"]
         [] B.pend > 1 -> [ctx EXCEPT !.batches[r.b].pend = @ - 1]
         [] B.kind = "del" -> LoadLogs([ctx EXCEPT !.batches[r.b].st = "done"], B.g)
         [] B.g = ctx.gen /\ B.shown = ctx.shown ->
              [ctx EXCEPT !.batches[r.b].st = "done",
                          !.logs = [id \in DOMAIN @ |->
                                      IF id \in B.events THEN [@[id] EXCEPT !.Resolved = TRUE]
                                      ELSE @[id]]]
         [] OTHER -> [ctx EXCEPT !.batches[r.b].st = "done"]

OnAnswer(ctx, r) == IF r.kind \in Gets THEN Loaded(ctx, r) ELSE PartSettled(ctx, r)

-----------------------------------------------------------------------------
(* The BMC.                                                                *)

\* the BMC performs r (ok) or fails it without effect: a Delete or a
\* Resolved PUT needs the entry
Serve(r, ok) ==
    /\ r \in reqs /\ ~r.served
    /\ ok /\ r.kind \notin Gets => r.id \in DOMAIN bmc
    /\ bmc' = CASE ok /\ r.kind = "del" -> [k \in DOMAIN bmc \ {r.id} |-> bmc[k]]
                [] ok /\ r.kind = "put" -> [bmc EXCEPT ![r.id] = TRUE]
                [] OTHER -> bmc
    /\ reqs' = (reqs \ {r}) \cup
               IF ~r.waiting THEN {}
               ELSE {[r EXCEPT !.served = TRUE, !.ok = ok, !.got = bmc]}
    /\ UNCHANGED <<gen, sent, logs, shown, loading, batches, health, healthFrom, clicks>>

\* the answer to r reaches the page and its callbacks run
Answer(r) ==
    /\ r \in reqs /\ r.served /\ r.waiting
    /\ SetCtx(OnAnswer([Ctx EXCEPT !.reqs = @ \ {r}], r))
    /\ UNCHANGED <<bmc, clicks>>

\* apiInterceptor's 20 s timeout: the page gets an error for r whether or
\* not the BMC performed it; a POST or PUT not served yet may still be
TimeOut(r) ==
    /\ r \in reqs /\ r.waiting
    /\ LET late == IF ~r.served /\ r.kind \notin Gets
                   THEN {[r EXCEPT !.waiting = FALSE]} ELSE {}
       IN SetCtx(OnAnswer([Ctx EXCEPT !.reqs = (@ \ {r}) \cup late],
                          [r EXCEPT !.ok = FALSE]))
    /\ UNCHANGED <<bmc, clicks>>

-----------------------------------------------------------------------------
(* The user, on the shown controller.                                      *)

Click == clicks < MaxClicks /\ clicks' = clicks + 1

\* a row's checkbox
SelectRow(id) ==
    /\ Click /\ id \in DOMAIN logs
    /\ logs' = [logs EXCEPT ![id].selected = ~@]
    /\ UNCHANGED <<bmc, reqs, gen, sent, shown, loading, batches, health, healthFrom>>

\* the select-all checkbox: $watch('all') sets every listed row's selected
SelectAll(v) ==
    /\ Click
    /\ logs' = [id \in DOMAIN logs |-> [logs[id] EXCEPT !.selected = v]]
    /\ UNCHANGED <<bmc, reqs, gen, sent, shown, loading, batches, health, healthFrom>>

\* accept: deleteLogs(selectedEvents), one POST per entry under one $q.all
Accept ==
    /\ Click
    /\ LET b == Len(batches) + 1
           sel == SelectedEvents
           B == [kind |-> "del", g |-> gen, shown |-> shown, events |-> sel,
                 pend |-> Cardinality(sel), st |-> "open"]
       IN IF sel = {}
          THEN SetCtx(LoadLogs([Ctx EXCEPT !.batches = Append(@, [B EXCEPT !.st = "done"])], gen))
          ELSE /\ batches' = Append(batches, B)
               /\ reqs' = reqs \cup {Request("del", gen, 0, b, id) : id \in sel}
               /\ UNCHANGED <<gen, sent, logs, shown, loading, health, healthFrom>>
    /\ UNCHANGED bmc

\* resolve: the selected entries not resolved yet, one PUT each under one
\* $q.all; nothing when there are none
Resolve ==
    /\ Click
    /\ LET b == Len(batches) + 1
           events == {id \in SelectedEvents : ~logs[id].Resolved}
       IN /\ events # {}
          /\ batches' = Append(batches, [kind |-> "put", g |-> gen, shown |-> shown,
                                         events |-> events, pend |-> Cardinality(events),
                                         st |-> "open"])
          /\ reqs' = reqs \cup {Request("put", gen, 0, b, id) : id \in events}
    /\ UNCHANGED <<bmc, gen, sent, logs, shown, loading, health, healthFrom>>

\* the header's refresh: loadData's loadServerHealth, then $route.reload()
Refresh ==
    /\ Click
    /\ SetCtx(NewController([Ctx EXCEPT !.reqs = @ \cup {Request("header", 0, 0, 0, 0)}]))
    /\ UNCHANGED bmc

\* the app as it loads: the header's loadData and the page's controller
Init ==
    /\ bmc = InitLogs
    /\ reqs = {Request("header", 0, 0, 0, 0), Request("page", 1, 1, 0, 0)}
    /\ gen = 1 /\ sent = 1 /\ logs = <<>> /\ shown = 0 /\ loading = TRUE
    /\ batches = <<>> /\ health = "unknown" /\ healthFrom = InitLogs /\ clicks = 0

Next ==
    \/ \E r \in reqs, ok \in BOOLEAN : Serve(r, ok)
    \/ \E r \in reqs : Answer(r) \/ TimeOut(r)
    \/ \E id \in DOMAIN logs : SelectRow(id)
    \/ \E v \in BOOLEAN : SelectAll(v)
    \/ Accept
    \/ Resolve
    \/ Refresh

\* the BMC and $http: a request is eventually served, answered or timed out
Fairness ==
    WF_vars(\E r \in reqs, ok \in BOOLEAN : Serve(r, ok) \/ Answer(r) \/ TimeOut(r))

Spec == Init /\ [][Next]_vars /\ Fairness

-----------------------------------------------------------------------------
(* Properties.                                                             *)

TypeOK ==
    /\ \E D \in SUBSET Ids : bmc \in [D -> BOOLEAN]
    /\ \E D \in SUBSET Ids : logs \in [D -> [Resolved : BOOLEAN, selected : BOOLEAN]]
    /\ loading \in BOOLEAN /\ health \in Healths
    /\ \A b \in DOMAIN batches : batches[b].st \in {"open", "done", "failed"}
    /\ clicks \in 0..MaxClicks

\* Every entry the page shows as resolved is resolved on the BMC or gone
\* from it: a listed entry is marked only by the resolve whose PUTs all
\* succeeded, and only while the list it was sent from is still shown;
\* a late answer of an older getLogs, of this controller or of the page's
\* own reload after a Delete, never shows one resolved that is not.
ResolvedShownTruthful ==
    \A id \in DOMAIN logs : logs[id].Resolved => (id \notin DOMAIN bmc \/ bmc[id])

\* The server health the header shows is that of the entries of the last
\* getLogs answer applied, by the page or by the header, as the reference
\* rule states it: critical when one of them is an unresolved High entry,
\* else warning when one is an unresolved Medium entry, else good.
HealthOfLastAnswer ==
    health # "unknown" =>
        health = CASE \E id \in DOMAIN healthFrom :
                          Priority[id] = "High" /\ ~healthFrom[id] -> "critical"
                   [] \E id \in DOMAIN healthFrom :
                          Priority[id] = "Medium" /\ ~healthFrom[id] -> "warning"
                   [] OTHER -> "good"
=============================================================================
