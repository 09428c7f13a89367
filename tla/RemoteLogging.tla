---------------------------- MODULE RemoteLogging ----------------------------
(***************************************************************************)
(* The remote logging server element of phosphor-webui                     *)
(* (remote-logging-server.js) with its APIUtils requests and the BMC's    *)
(* rsyslog configuration object (Address, Port).  The element reads the   *)
(* server once; its modal adds, edits or removes it.  Add sends the two   *)
(* PUTs of setRemoteLoggingServer under one $q.all; remove sends those of *)
(* disableRemoteLoggingServer (Address '' and Port 0); edit disables and  *)
(* then sets, and sets again when either step fails.  The modal closes    *)
(* when its action starts, so actions of several modals may overlap.      *)
(***************************************************************************)
EXTENDS Integers, Sequences

CONSTANTS
    Addrs,          \* server addresses the user may type
    Ports,          \* server ports the user may type, positive numbers
    InitServer,     \* the BMC's configuration when the element loads
    MaxClicks       \* bound on the user's clicks

Undefined == "undefined"                  \* the hostname of a form {}
NoPort == -1                              \* its port, undefined
Undef == [hostname |-> Undefined, port |-> NoPort] \* no server, a form {}
Disabled == [Address |-> "", Port |-> 0]  \* what disableRemoteLoggingServer sets
Entry == [hostname : Addrs, port : Ports] \* a server as the element holds it
Types == {"ADD", "EDIT", "REMOVE"}        \* modalActions

ASSUME /\ InitServer \in [Address : Addrs \cup {""}, Port : Ports \cup {0}]
       /\ Ports \subseteq Nat \ {0} /\ MaxClicks \in Nat

VARIABLES
    bmc,            \* the BMC's logging/config/remote Address and Port
    reqs,           \* $http requests not yet answered
    ops,            \* each modal action: its kind and where its chain is
    remoteServer,   \* $scope.remoteServer
    form,           \* $scope.remoteServerForm
    loadError,      \* $scope.loadError
    loading,        \* $scope.loading
    modal,          \* the open modal's type, or "none"
    clicks          \* the user's clicks so far

vars == <<bmc, reqs, ops, remoteServer, form, loadError, loading, modal, clicks>>

\* a request: kind get, Address or Port; o its action (0: the load), step
\* the $q.all of the action it belongs to, data the server whose field
\* (hostname for the Address, port for the Port) it sends
Request(kind, o, step, data) ==
    [kind |-> kind, o |-> o, step |-> step, data |-> data,
     served |-> FALSE, ok |-> FALSE, got |-> InitServer, waiting |-> TRUE]

\* setRemoteLoggingServer(data): the Address and the Port PUT at once
SetRequests(o, step, data) ==
    {Request("Address", o, step, data), Request("Port", o, step, data)}

\* the value a PUT sends
Val(r) == IF r.kind = "Address" THEN r.data.hostname ELSE r.data.port

\* disableRemoteLoggingServer: setRemoteLoggingServer({hostname: '', port: 0})
DisableRequests(o, step) ==
    SetRequests(o, step, [hostname |-> Disabled.Address, port |-> Disabled.Port])

\* getRemoteLoggingServer's then: undefined when the Address is empty
AsServer(b) == IF b.Address = "" THEN Undef ELSE [hostname |-> b.Address, port |-> b.Port]

-----------------------------------------------------------------------------
(* Callbacks work on a record ctx: [reqs, ops, remoteServer, form,         *)
(* loadError, loading].                                                    *)

Ctx == [reqs |-> reqs, ops |-> ops, remoteServer |-> remoteServer, form |-> form,
        loadError |-> loadError, loading |-> loading]

SetCtx(ctx) ==
    /\ reqs' = ctx.reqs /\ ops' = ctx.ops /\ remoteServer' = ctx.remoteServer
    /\ form' = ctx.form /\ loadError' = ctx.loadError /\ loading' = ctx.loading

\* $onInit's then and catch
Loaded(ctx, r) ==
    IF r.ok THEN [ctx EXCEPT !.loadError = FALSE, !.remoteServer = AsServer(r.got),
                             !.form = AsServer(r.got)]
    ELSE [ctx EXCEPT !.loadError = TRUE]

\* mutant: removeServer's catch leaves the loader on
EndedKeepsLoading(ctx, o, ok) ==
    LET k == ctx.ops[o].kind
        server == CASE ok /\ k \in {"ADD", "EDIT"} -> ctx.form
                    [] (ok /\ k = "REMOVE") \/ (~ok /\ k = "ADD") -> Undef
                    [] OTHER -> ctx.remoteServer
    IN [ctx EXCEPT !.loading = ~ok /\ k = "REMOVE" /\ @, !.remoteServer = server,
                   !.form = IF (ok /\ k # "REMOVE") \/ (~ok /\ k = "REMOVE")
                            THEN @ ELSE server,
                   !.ops[o].st = IF ok THEN "ok" ELSE "failed",
                   !.ops[o].alone = \A q \in ctx.reqs : q.o = o]

\* the action's toast: the element's then or catch, each turning loading
\* off; add's and edit's then copy the form as it is now, add's catch and
\* remove's then clear the server, and every catch but remove's and remove's
\* then reset the form (setFormValues)
Ended(ctx, o, ok) ==
    LET k == ctx.ops[o].kind
        server == CASE ok /\ k \in {"ADD", "EDIT"} -> ctx.form
                    [] (ok /\ k = "REMOVE") \/ (~ok /\ k = "ADD") -> Undef
                    [] OTHER -> ctx.remoteServer
    IN [ctx EXCEPT !.loading = FALSE, !.remoteServer = server,
                   !.form = IF (ok /\ k # "REMOVE") \/ (~ok /\ k = "REMOVE")
                            THEN @ ELSE server,
                   !.ops[o].st = IF ok THEN "ok" ELSE "failed",
                   !.ops[o].alone = \A q \in ctx.reqs : q.o = o]

\* the next $q.all of an action whose current one settled with ok: edit's
\* disable is followed by a set whatever its outcome, and a set that
\* followed a disable that succeeded by a second set when it fails
Settled(ctx, o, ok) ==
    LET A == ctx.ops[o]
        next == CASE A.kind = "EDIT" /\ A.step = "disable" -> IF ok THEN "set" ELSE "catchSet"
                  [] A.kind = "EDIT" /\ A.step = "set" /\ ~ok -> "catchSet"
                  [] OTHER -> "end"
    IN IF next = "end" THEN Ended(ctx, o, ok)
       ELSE [ctx EXCEPT !.ops[o].step = next, !.ops[o].pend = 2,
                        !.reqs = @ \cup SetRequests(o, next, A.data)]

\* mutant: the $q.all resolves at its first resolution
PartSettledEarly(ctx, r) ==
    LET A == ctx.ops[r.o]
    IN CASE A.st # "open" \/ A.step # r.step -> ctx
         [] ~r.ok -> Settled(ctx, r.o, FALSE)
         [] A.pend = 2 -> Settled(ctx, r.o, TRUE)
         [] OTHER -> [ctx EXCEPT !.ops[r.o].pend = @ - 1]

\* a PUT of action o settles: a $q.all rejects at its first rejection and
\* resolves with its last resolution; a settled $q.all ignores the rest
PartSettled(ctx, r) ==
    LET A == ctx.ops[r.o]
    IN CASE A.st # "open" \/ A.step # r.step -> ctx
         [] ~r.ok -> Settled(ctx, r.o, FALSE)
         [] A.pend = 1 -> Settled(ctx, r.o, TRUE)
         [] OTHER -> [ctx EXCEPT !.ops[r.o].pend = @ - 1]

OnAnswer(ctx, r) == IF r.kind = "get" THEN Loaded(ctx, r) ELSE PartSettled(ctx, r)

-----------------------------------------------------------------------------
(* The BMC.                                                                *)

\* the BMC performs r (ok) or fails it without effect; a PUT of undefined
\* data is refused
Serve(r, ok) ==
    /\ r \in reqs /\ ~r.served
    /\ ok => Val(r) # IF r.kind = "Address" THEN Undefined ELSE NoPort
    /\ bmc' = IF ok /\ r.kind # "get" THEN [bmc EXCEPT ![r.kind] = Val(r)] ELSE bmc
    /\ reqs' = (reqs \ {r}) \cup
               IF ~r.waiting THEN {}
               ELSE {[r EXCEPT !.served = TRUE, !.ok = ok, !.got = bmc]}
    /\ UNCHANGED <<ops, remoteServer, form, loadError, loading, modal, clicks>>

\* the answer to r reaches the page and its callbacks run
Answer(r) ==
    /\ r \in reqs /\ r.served /\ r.waiting
    /\ SetCtx(OnAnswer([Ctx EXCEPT !.reqs = @ \ {r}], r))
    /\ UNCHANGED <<bmc, modal, clicks>>

\* apiInterceptor's 20 s timeout: the page gets an error for r whether or
\* not the BMC performed it; a PUT not served yet may still be
TimeOut(r) ==
    /\ r \in reqs /\ r.waiting
    /\ LET late == IF ~r.served /\ r.kind # "get"
                   THEN {[r EXCEPT !.waiting = FALSE]} ELSE {}
       IN SetCtx(OnAnswer([Ctx EXCEPT !.reqs = (@ \ {r}) \cup late],
                          [r EXCEPT !.ok = FALSE]))
    /\ UNCHANGED <<bmc, modal, clicks>>

-----------------------------------------------------------------------------
(* The user.                                                               *)

Click == clicks < MaxClicks /\ clicks' = clicks + 1

\* initModal(type): the modal opens on the element's scope
InitModal(type) ==
    /\ Click /\ modal = "none"
    /\ modal' = type
    /\ UNCHANGED <<bmc, reqs, ops, remoteServer, form, loadError, loading>>

\* the modal's inputs, bound to remoteServerForm
TypeServer(e) ==
    /\ Click /\ modal \in {"ADD", "EDIT"}
    /\ form' = e
    /\ UNCHANGED <<bmc, reqs, ops, remoteServer, loadError, loading, modal>>

\* the modal closes with its action: addServer, editServer or removeServer
\* turn loading on and send their first $q.all
CloseModal ==
    /\ Click /\ modal # "none"
    /\ LET o == Len(ops) + 1
           first == IF modal = "ADD" THEN "set" ELSE "disable"
       IN /\ ops' = Append(ops, [kind |-> modal, step |-> first, pend |-> 2,
                                 data |-> form, st |-> "open", alone |-> FALSE])
          /\ reqs' = reqs \cup IF modal = "ADD" THEN SetRequests(o, first, form)
                               ELSE DisableRequests(o, first)
    /\ loading' = TRUE /\ modal' = "none"
    /\ UNCHANGED <<bmc, remoteServer, form, loadError>>

\* the overlay clicked: the result rejects and setFormValues resets the form
DismissModal ==
    /\ Click /\ modal # "none"
    /\ form' = remoteServer /\ modal' = "none"
    /\ UNCHANGED <<bmc, reqs, ops, remoteServer, loadError, loading>>

\* the element as its page builds it: $onInit sends the GET
Init ==
    /\ bmc = InitServer
    /\ reqs = {Request("get", 0, "load", Undef)}
    /\ ops = <<>> /\ remoteServer = Undef /\ form = Undef
    /\ loadError = TRUE /\ loading = FALSE /\ modal = "none" /\ clicks = 0

Next ==
    \/ \E r \in reqs, ok \in BOOLEAN : Serve(r, ok)
    \/ \E r \in reqs : Answer(r) \/ TimeOut(r)
    \/ \E type \in Types : InitModal(type)
    \/ \E e \in Entry : TypeServer(e)
    \/ CloseModal
    \/ DismissModal

\* the BMC and $http: a request is eventually served, answered or timed out
Fairness ==
    WF_vars(\E r \in reqs, ok \in BOOLEAN : Serve(r, ok) \/ Answer(r) \/ TimeOut(r))

Spec == Init /\ [][Next]_vars /\ Fairness

-----------------------------------------------------------------------------
(* Properties.                                                             *)

Server == Entry \cup {Undef}

TypeOK ==
    /\ bmc \in [Address : Addrs \cup {""}, Port : Ports \cup {0}]
    /\ remoteServer \in Server /\ form \in Server
    /\ loadError \in BOOLEAN /\ loading \in BOOLEAN
    /\ modal \in Types \cup {"none"}
    /\ \A o \in DOMAIN ops : ops[o].st \in {"open", "ok", "failed"}
    /\ clicks \in 0..MaxClicks

\* When the last action taken, a removal, has toasted 'Remote logging
\* server removed.' and no request of the element or of an earlier action
\* was outstanding at the toast, the BMC's configuration is disabled and
\* the element shows no server: both PUTs of disableRemoteLoggingServer
\* were performed and nothing sent before them landed after.
RemovedTruthful ==
    \A o \in DOMAIN ops :
        (o = Len(ops) /\ ops[o].kind = "REMOVE" /\ ops[o].st = "ok" /\ ops[o].alone)
            => bmc = Disabled /\ remoteServer = Undef
=============================================================================
