------------------------------ MODULE DateTime ------------------------------
(***************************************************************************)
(* The date and time settings page of phosphor-webui                       *)
(* (date-time-controller.js) with its APIUtils requests and the BMC's time *)
(* manager.  A save PUTs the sync method, then the time owner, then the   *)
(* NTP servers, each after the previous one resolved; with the method     *)
(* Manual or the owner Split it also sets the BMC's or the host's time,   *)
(* from a $timeout of 20 s meant to let NTP stop first.  $route.reload()  *)
(* builds a new controller; the old one's callbacks and timeout still run *)
(* on its own scope, so the model keeps one scope per controller.        *)
(***************************************************************************)
EXTENDS Naturals, Sequences, FiniteSets

CONSTANTS
    Modes,          \* TimeSyncMethod values: NTP, Manual
    Owners,         \* TimeOwner values: BMC, Host, Both, Split
    Servers,        \* NTP server lists
    NoServers,      \* the empty list, $scope.ntp.servers before a load
    Dates,          \* times, to the second
    InitTime,       \* the BMC's time settings when the page loads
    MaxClicks       \* bound on the user's clicks

Undef == "undefined"    \* $scope.bmc.date or host.date before a load
None == ""              \* $scope.time.mode or owner before a load

Settings == [mode : Modes, owner : Owners, ntp : Servers, bmc : Dates, host : Dates]
Form == [mode : Modes \cup {None}, owner : Owners \cup {None},
         ntp : Servers, bmc : Dates \cup {Undef}, host : Dates \cup {Undef}]

ASSUME /\ "NTP" \in Modes /\ "Manual" \in Modes /\ {"Host", "Split"} \subseteq Owners
       /\ NoServers \in Servers /\ InitTime \in Settings /\ MaxClicks \in Nat

VARIABLES
    bmc,            \* the time manager's settings and clocks
    reqs,           \* $http requests not yet answered
    forms,          \* each controller's $scope.time, ntp, bmc.date, host.date
    loadings,       \* each controller's $scope.loading
    loads,          \* each controller's two load GETs not yet settled
    saves,          \* each saveDateTimeSettings: its chain, $timeout, toast
    clicks          \* the user's clicks so far

vars == <<bmc, reqs, forms, loadings, loads, saves, clicks>>

\* the controller shown: the last one $route.reload() built
gen == Len(forms)

\* a request: kind getTime, getNtp, or the PUT of mode, owner, ntp,
\* bmcTime or hostTime; g its controller, s its save (0: none), val the
\* value sent
Request(kind, g, s, val) ==
    [kind |-> kind, g |-> g, s |-> s, val |-> val, served |-> FALSE,
     ok |-> FALSE, got |-> InitTime, waiting |-> TRUE]

Puts == {"mode", "owner", "ntp", "bmcTime", "hostTime"}

\* a controller as built: loading, the scope empty, getTime and getNTPServers
NewController(ctx) ==
    LET g == Len(ctx.forms) + 1
    IN [ctx EXCEPT
          !.forms = Append(@, [mode |-> None, owner |-> None, ntp |-> NoServers,
                               bmc |-> Undef, host |-> Undef]),
          !.loadings = Append(@, TRUE),
          !.loads = Append(@, {"getTime", "getNtp"}),
          !.reqs = @ \cup {Request("getTime", g, 0, None), Request("getNtp", g, 0, None)}]

-----------------------------------------------------------------------------
(* Callbacks work on a record ctx: [reqs, forms, loadings, loads, saves]   *)

Ctx == [reqs |-> reqs, forms |-> forms, loadings |-> loadings, loads |-> loads,
        saves |-> saves]

SetCtx(ctx) ==
    /\ reqs' = ctx.reqs /\ forms' = ctx.forms /\ loadings' = ctx.loadings
    /\ loads' = ctx.loads /\ saves' = ctx.saves

\* the load's $q.all: both GETs' callbacks handle errors, so its finally
\* runs once both answered
LoadSettled(ctx, r) ==
    LET c == [ctx EXCEPT !.loads[r.g] = @ \ {r.kind}]
    IN IF c.loads[r.g] = {} THEN [c EXCEPT !.loadings[r.g] = FALSE] ELSE c

\* getTime's then: the dates, the owner and the mode
TimeLoaded(ctx, r) ==
    IF ~r.ok THEN ctx
    ELSE [ctx EXCEPT !.forms[r.g] = [@ EXCEPT !.mode = r.got.mode, !.owner = r.got.owner,
                                              !.bmc = r.got.bmc, !.host = r.got.host]]

\* the end of a save's toast: a message, and loading off
Toast(ctx, s, kind) ==
    [ctx EXCEPT !.saves[s].toast = kind, !.loadings[ctx.saves[s].g] = FALSE]

\* setTimeMode.then(setTimeOwner).then(setNTPServers): each step reads the
\* scope when it runs; the Manual or Split chain has no rejection handler
\* and ends with .then of the $timeout's promise, which ignores it
ChainStep(ctx, r) ==
    LET S == ctx.saves[r.s]
        f == ctx.forms[S.g]
        next == [mode |-> "owner", owner |-> "ntp"]
    IN CASE ~r.ok /\ S.manual -> [ctx EXCEPT !.saves[r.s].stage = "failed"]
         [] ~r.ok -> Toast([ctx EXCEPT !.saves[r.s].stage = "failed"], r.s, "error")
         [] r.kind \in {"mode", "owner"} ->
              [ctx EXCEPT !.saves[r.s].stage = next[r.kind],
                          !.reqs = @ \cup {Request(next[r.kind], S.g, r.s,
                                                   IF r.kind = "mode" THEN f.owner ELSE f.ntp)}]
         [] S.manual -> [ctx EXCEPT !.saves[r.s].stage = "done"]
         [] OTHER -> Toast([ctx EXCEPT !.saves[r.s].stage = "done"], r.s, "saved")

\* setDateTime's $q.all of the time PUTs: the first rejection, or the last
\* resolution, toasts and clears loading
TimeSettled(ctx, r) ==
    LET S == ctx.saves[r.s]
    IN IF S.pend = 0 THEN ctx
       ELSE IF ~r.ok THEN Toast([ctx EXCEPT !.saves[r.s].pend = 0], r.s, "error")
       ELSE IF S.pend = 1 THEN Toast([ctx EXCEPT !.saves[r.s].pend = 0], r.s, "saved")
       ELSE [ctx EXCEPT !.saves[r.s].pend = @ - 1]

\* the callbacks an answer to r runs
OnAnswer(ctx, r) ==
    CASE r.kind = "getTime" -> LoadSettled(TimeLoaded(ctx, r), r)
      [] r.kind = "getNtp" ->
           LoadSettled(IF r.ok THEN [ctx EXCEPT !.forms[r.g].ntp = r.got.ntp] ELSE ctx, r)
      [] r.kind \in {"mode", "owner", "ntp"} -> ChainStep(ctx, r)
      [] OTHER -> TimeSettled(ctx, r)

-----------------------------------------------------------------------------
(* The BMC.                                                                *)

\* the time manager performs r (ok) or refuses it; it refuses a value that
\* is not one of its enumeration's, and a time set while NTP synchronises
\* it (the host's time in Split mode excepted)
Serve(r, ok) ==
    /\ r \in reqs /\ ~r.served
    /\ ok => CASE r.kind = "mode" -> r.val \in Modes
               [] r.kind = "owner" -> r.val \in Owners
               [] r.kind = "ntp" -> r.val \in Servers
               [] r.kind = "bmcTime" -> bmc.mode = "Manual" /\ r.val \in Dates
               [] r.kind = "hostTime" -> (bmc.mode = "Manual" \/ bmc.owner = "Split")
                                         /\ r.val \in Dates
               [] OTHER -> TRUE
    /\ bmc' = CASE ok /\ r.kind = "mode" -> [bmc EXCEPT !.mode = r.val]
                [] ok /\ r.kind = "owner" -> [bmc EXCEPT !.owner = r.val]
                [] ok /\ r.kind = "ntp" -> [bmc EXCEPT !.ntp = r.val]
                [] ok /\ r.kind = "bmcTime" -> [bmc EXCEPT !.bmc = r.val]
                [] ok /\ r.kind = "hostTime" -> [bmc EXCEPT !.host = r.val]
                [] OTHER -> bmc
    /\ reqs' = (reqs \ {r}) \cup
               IF ~r.waiting THEN {}
               ELSE {[r EXCEPT !.served = TRUE, !.ok = ok, !.got = bmc]}
    /\ UNCHANGED <<forms, loadings, loads, saves, clicks>>

\* the answer to r reaches the page and its callbacks run
Answer(r) ==
    /\ r \in reqs /\ r.served /\ r.waiting
    /\ SetCtx(OnAnswer([Ctx EXCEPT !.reqs = @ \ {r}], r))
    /\ UNCHANGED <<bmc, clicks>>

\* apiInterceptor's 20 s timeout: the page gets an error for r whether or
\* not the BMC performed it; a PUT not served yet may still be
TimeOut(r) ==
    /\ r \in reqs /\ r.waiting
    /\ LET late == IF ~r.served /\ r.kind \in Puts
                   THEN {[r EXCEPT !.waiting = FALSE]} ELSE {}
       IN SetCtx(OnAnswer([Ctx EXCEPT !.reqs = (@ \ {r}) \cup late],
                          [r EXCEPT !.ok = FALSE]))
    /\ UNCHANGED <<bmc, clicks>>

\* the $timeout's setDateTime, on its controller's scope as it is then: a
\* PUT of the BMC's time (Manual, owner not Host), of the host's time from
\* the BMC's date field (Manual, owner Host), of the host's time (Split);
\* a date still undefined throws at .getTime() before its PUT, and the
\* $q.all and its finally are never reached
TimerFires(s) ==
    /\ s \in DOMAIN saves /\ saves[s].timer
    /\ LET S == saves[s]
           f == forms[S.g]
           first == IF f.mode = "Manual" /\ f.owner # "Host"
                    THEN <<[kind |-> "bmcTime", date |-> f.bmc]>>
                    ELSE IF f.mode = "Manual"
                    THEN <<[kind |-> "hostTime", date |-> f.bmc]>> ELSE <<>>
           pushes == first \o IF f.owner = "Split"
                              THEN <<[kind |-> "hostTime", date |-> f.host]>> ELSE <<>>
           bad == {i \in DOMAIN pushes : pushes[i].date = Undef}
           sent == IF bad = {} THEN DOMAIN pushes
                   ELSE {i \in DOMAIN pushes : \A j \in bad : i < j}
           new == {Request(pushes[i].kind, S.g, s, pushes[i].date) : i \in sent}
       IN /\ reqs' = reqs \cup new
          /\ CASE bad # {} ->
                    saves' = [saves EXCEPT ![s].timer = FALSE]
                    /\ UNCHANGED loadings
               [] pushes = <<>> ->
                    saves' = [saves EXCEPT ![s].timer = FALSE, ![s].toast = "saved"]
                    /\ loadings' = [loadings EXCEPT ![S.g] = FALSE]
               [] OTHER ->
                    saves' = [saves EXCEPT ![s].timer = FALSE, ![s].pend = Len(pushes)]
                    /\ UNCHANGED loadings
    /\ UNCHANGED <<bmc, forms, loads, clicks>>

-----------------------------------------------------------------------------
(* The user, on the page shown.                                            *)

Click == clicks < MaxClicks /\ clicks' = clicks + 1

\* ng-model edits of the shown page's form: the sync method, the owner,
\* the NTP server fields (addNTPField, removeNTPField, typing), the dates
EditForm ==
    /\ Click
    /\ \/ \E m \in Modes : forms' = [forms EXCEPT ![gen].mode = m]
       \/ \E o \in Owners : forms' = [forms EXCEPT ![gen].owner = o]
       \/ \E n \in Servers : forms' = [forms EXCEPT ![gen].ntp = n]
       \/ \E d \in Dates : forms' = [forms EXCEPT ![gen].bmc = d]
       \/ \E d \in Dates : forms' = [forms EXCEPT ![gen].host = d]
    /\ UNCHANGED <<bmc, reqs, loadings, loads, saves>>

\* saveDateTimeSettings: loading, setTimeMode sent; with the method Manual
\* or the owner Split the $timeout is armed at once, beside the chain
SaveDateTimeSettings ==
    /\ Click
    /\ LET f == forms[gen]
           s == Len(saves) + 1
       IN /\ saves' = Append(saves, [g |-> gen, stage |-> "mode", toast |-> "none",
                                     manual |-> f.mode = "Manual" \/ f.owner = "Split",
                                     timer |-> f.mode = "Manual" \/ f.owner = "Split",
                                     pend |-> 0])
          /\ reqs' = reqs \cup {Request("mode", gen, s, f.mode)}
          /\ loadings' = [loadings EXCEPT ![gen] = TRUE]
    /\ UNCHANGED <<bmc, forms, loads>>

\* refresh: $route.reload() builds a new controller; the old one's
\* requests and $timeout stay pending
Refresh ==
    /\ Click
    /\ SetCtx(NewController(Ctx))
    /\ UNCHANGED bmc

Init ==
    /\ bmc = InitTime
    /\ saves = <<>> /\ clicks = 0
    /\ LET c == NewController([reqs |-> {}, forms |-> <<>>, loadings |-> <<>>,
                               loads |-> <<>>])
       IN reqs = c.reqs /\ forms = c.forms /\ loadings = c.loadings /\ loads = c.loads

Next ==
    \/ \E r \in reqs, ok \in BOOLEAN : Serve(r, ok)
    \/ \E r \in reqs : Answer(r) \/ TimeOut(r)
    \/ \E s \in DOMAIN saves : TimerFires(s)
    \/ EditForm \/ SaveDateTimeSettings \/ Refresh

Spec == Init /\ [][Next]_vars

-----------------------------------------------------------------------------
(* Properties.                                                             *)

TypeOK ==
    /\ bmc \in Settings /\ clicks \in 0..MaxClicks
    /\ forms \in Seq(Form) /\ loadings \in Seq(BOOLEAN)
    /\ loads \in Seq(SUBSET {"getTime", "getNtp"})
    /\ \A r \in reqs : r.kind \in {"getTime", "getNtp"} \cup Puts /\ r.g \in 1..gen
    /\ \A s \in DOMAIN saves :
          /\ saves[s].stage \in {"mode", "owner", "ntp", "done", "failed"}
          /\ saves[s].toast \in {"none", "saved", "error"}

\* The page says "Date and time settings saved" only for a save whose
\* setTimeMode, setTimeOwner and setNTPServers all succeeded: the Manual
\* or Split save's toast comes from setDateTime's $q.all, which its
\* $timeout runs whatever became of the chain it was meant to follow.
SavedOnlyIfAllSet ==
    \A s \in DOMAIN saves : saves[s].toast = "saved" => saves[s].stage = "done"
=============================================================================
