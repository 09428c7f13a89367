----------------------------- MODULE HostPower -----------------------------
(***************************************************************************)
(* Host power operations of phosphor-webui and the host state the page     *)
(* shows:                                                                  *)
(*   - powerOperationsController: the operations confirmed in the modal,   *)
(*     each a promise chain of PUT requests (APIUtils) and checkHostStatus *)
(*     waits, an $interval that polls dataService.server_state;            *)
(*   - the appHeader directive: its /subscribe WebSocket reports host      *)
(*     state changes, and each report runs loadServerStatus, a GET whose   *)
(*     answer sets dataService.server_state;                               *)
(*   - apiInterceptor: every $http request and answer passes through it    *)
(*     (dataService.loading, dataService.server_unreachable, the 20 s      *)
(*     default timeout);                                                   *)
(*   - the BMC: it performs a transition when it serves the PUT, reads the *)
(*     host state when it serves the GET, and answers in any order.        *)
(*                                                                         *)
(* Time is counted in poll intervals (Constants.POLL_INTERVALS.POWER_OP);  *)
(* an HTTP request may time out at any moment before it is answered.  The  *)
(* page offers one operation at a time (operationPending).                 *)
(***************************************************************************)
EXTENDS Integers, Sequences, SequencesExt, FiniteSets

CONSTANTS
    UserOps,        \* operations the user may start
    MaxOps,         \* bound on operations started
    PollTimeout,    \* checkHostStatus timeout, in poll intervals
    HostInit        \* host states when the page is loaded

ASSUME MaxOps \in Nat /\ PollTimeout \in Nat \ {0}
ASSUME HostInit \subseteq {"Off", "Running"} /\ HostInit # {}

\* powerOperations of the controller (line 37), and $scope.powerOn
WARM_REBOOT == 0
COLD_REBOOT == 1
WARM_SHUTDOWN == 2
COLD_SHUTDOWN == 3
POWER_ON == 4

\* Constants.HOST_STATE_TEXT, the values of dataService.server_state
StateOn == "on"
StateOff == "off"
StateError == "error"
StateUnreachable == "unreachable"

\* steps of an operation's promise chain
Put(t) == [t |-> "put", trans |-> t]
Wait(s) == [t |-> "wait", target |-> s]
SetOff == [t |-> "setOff"]

\* warmReboot: hostReboot, then wait for off, then for on
WarmReboot == <<Put("reboot"), Wait(StateOff), Wait(StateOn)>>
\* coldReboot: chassisPowerOff, wait for off, hostPowerOn, wait for on
ColdReboot == <<Put("chassisOff"), Wait(StateOff), Put("on"), Wait(StateOn)>>
\* orderlyShutdown: hostPowerOff, wait for off
OrderlyShutdown == <<Put("off"), Wait(StateOff)>>
\* immediateShutdown: chassisPowerOff, wait for off, setPowerOffState
ImmediateShutdown == <<Put("chassisOff"), Wait(StateOff), SetOff>>
\* $scope.powerOn: hostPowerOn, wait for on
PowerOn == <<Put("on"), Wait(StateOn)>>

\* initPowerOperation (and $scope.powerOn)
Program(op) ==
    CASE op = WARM_REBOOT   -> WarmReboot
      [] op = COLD_REBOOT   -> ColdReboot
      [] op = WARM_SHUTDOWN -> OrderlyShutdown
      [] op = COLD_SHUTDOWN -> ImmediateShutdown
      [] op = POWER_ON      -> PowerOn

\* the BMC's host state (xyz.openbmc_project.State.Host.HostState)
HostOff == "Off"
HostRunning == "Running"

\* the host states the BMC passes through for a requested transition
Transition(t, h) ==
    CASE t = "reboot"     -> IF h = HostRunning THEN <<HostOff, HostRunning>>
                                                ELSE <<HostRunning>>
      [] t = "chassisOff" -> <<HostOff>>
      [] t = "off"        -> <<HostOff>>
      [] t = "on"         -> <<HostRunning>>

VARIABLES
    host,           \* the host's state on the BMC
    plan,           \* host states the BMC still has to pass through
    subOpen,        \* the appHeader's /subscribe WebSocket is open
    events,         \* host state reports not yet handled by onmessage
    reqs,           \* $http requests not yet answered
    nextId,         \* id of the next request
    serverState,    \* dataService.server_state
    loading,        \* dataService.loading
    unreachable,    \* dataService.server_unreachable
    pending,        \* $scope.operationPending
    prog,           \* the rest of the running operation's chain
    intervals,      \* checkHostStatus $interval timers still running
    ops,            \* operations started
    epoch,          \* (ghost) power requests the BMC has performed
    stamp           \* (ghost) epoch at which serverState was read

vars == <<host, plan, subOpen, events, reqs, nextId, serverState, loading,
          unreachable, pending, prog, intervals, ops, epoch, stamp>>

\* a request; val is the host state a served GET read; waiting is FALSE
\* once the page has given up on it (a PUT that timed out before the BMC
\* served it may still be performed)
Request(id, kind, t) ==
    [id |-> id, kind |-> kind, trans |-> t, served |-> FALSE, ok |-> TRUE,
     val |-> HostOff, stamp |-> 0, waiting |-> TRUE]

\* loadServerStatus's answer callback
HostStateText(v) ==
    IF v = HostOff THEN StateOff
    ELSE IF v = HostRunning THEN StateOn ELSE StateError

-----------------------------------------------------------------------------
(* The chain is advanced on a record ctx of the variables it touches:      *)
(* [prog, reqs, nextId, loading, intervals, pending, serverState, stamp].  *)

\* apiInterceptor.request: every request sets dataService.loading
Issue(ctx, kind, t) ==
    [ctx EXCEPT !.reqs = @ \cup {Request(ctx.nextId, kind, t)},
                !.nextId = @ + 1, !.loading = TRUE]

\* the chain moves on to steps: a PUT is sent, a checkHostStatus interval
\* starts, setPowerOffState runs; at the end .finally clears
\* operationPending
RECURSIVE Advance(_, _)
Advance(ctx, steps) ==
    IF steps = <<>> THEN [ctx EXCEPT !.prog = <<>>, !.pending = FALSE]
    ELSE LET st == Head(steps) IN
         CASE st.t = "put" ->
                [Issue(ctx, "put", st.trans) EXCEPT !.prog = steps]
           [] st.t = "wait" ->
                [ctx EXCEPT !.prog = steps,
                            !.intervals = Append(@, [target |-> st.target,
                                                     k |-> 0,
                                                     settled |-> FALSE])]
           [] st.t = "setOff" ->
                Advance([ctx EXCEPT !.serverState = StateOff,
                                    !.stamp = epoch], Tail(steps))

\* .catch (a toast) and .finally of the chain
Fail(ctx) == [ctx EXCEPT !.prog = <<>>, !.pending = FALSE]

Ctx == [prog |-> prog, reqs |-> reqs, nextId |-> nextId, loading |-> loading,
        intervals |-> intervals, pending |-> pending,
        serverState |-> serverState, stamp |-> stamp]

SetCtx(ctx) ==
    /\ prog' = ctx.prog /\ reqs' = ctx.reqs /\ nextId' = ctx.nextId
    /\ loading' = ctx.loading /\ intervals' = ctx.intervals
    /\ pending' = ctx.pending /\ serverState' = ctx.serverState
    /\ stamp' = ctx.stamp

-----------------------------------------------------------------------------

\* the header is created: loadData runs loadServerStatus
Init ==
    /\ host \in HostInit
    /\ plan = <<>>
    /\ subOpen = TRUE
    /\ events = 0
    /\ reqs = {Request(0, "get", "none")}
    /\ nextId = 1
    /\ serverState = StateUnreachable
    /\ loading = TRUE
    /\ unreachable = FALSE
    /\ pending = FALSE
    /\ prog = <<>>
    /\ intervals = <<>>
    /\ ops = 0
    /\ epoch = 0
    /\ stamp = 0

\* the user confirms an operation: operationPending, setUnreachableState,
\* and the chain's first request
StartOp(op) ==
    /\ ~pending
    /\ ops < MaxOps
    /\ ops' = ops + 1
    /\ SetCtx(Advance([Ctx EXCEPT !.pending = TRUE,
                                  !.serverState = StateUnreachable,
                                  !.stamp = epoch], Program(op)))
    /\ UNCHANGED <<host, plan, subOpen, events, unreachable, epoch>>

\* the BMC serves a request: a GET reads the host state; a PUT is
\* performed (ok) or refused with an HTTP error; nobody waits for the
\* answer to a request the page gave up on
Serve(r, ok) ==
    /\ r \in reqs
    /\ ~r.served
    /\ reqs' = (reqs \ {r}) \cup
               IF r.waiting THEN {[r EXCEPT !.served = TRUE, !.ok = ok,
                                           !.val = host, !.stamp = epoch]}
               ELSE {}
    /\ IF r.kind = "put" /\ ok
       THEN /\ plan' = Transition(r.trans, host)
            /\ epoch' = epoch + 1
       ELSE UNCHANGED <<plan, epoch>>
    /\ UNCHANGED <<host, subOpen, events, nextId, serverState, loading,
                   unreachable, pending, prog, intervals, ops, stamp>>

\* the answer to a served request arrives: apiInterceptor.response or
\* .responseError, then the caller's callback
Answer(r) ==
    /\ r \in reqs
    /\ r.served
    /\ LET ctx == [Ctx EXCEPT !.reqs = @ \ {r}, !.loading = FALSE]
       IN IF r.kind = "get"
          THEN SetCtx(IF r.ok THEN [ctx EXCEPT
                                      !.serverState = HostStateText(r.val),
                                      !.stamp = r.stamp]
                      ELSE ctx)
          ELSE SetCtx(IF r.ok THEN Advance(ctx, Tail(prog)) ELSE Fail(ctx))
    /\ unreachable' = IF r.ok THEN FALSE ELSE unreachable
    /\ UNCHANGED <<host, plan, subOpen, events, ops, epoch>>

\* the request times out (status -1): apiInterceptor.responseError sets
\* server_unreachable, then the caller's error callback
TimeOut(r) ==
    /\ r \in reqs
    /\ r.waiting
    /\ LET ctx == [Ctx EXCEPT !.reqs = (@ \ {r}) \cup
                                 IF r.kind = "put" /\ ~r.served
                                 THEN {[r EXCEPT !.waiting = FALSE]} ELSE {},
                             !.loading = FALSE]
       IN SetCtx(IF r.kind = "put" THEN Fail(ctx) ELSE ctx)
    /\ unreachable' = TRUE
    /\ UNCHANGED <<host, plan, subOpen, events, ops, epoch>>

\* the host reaches the next state of the BMC's plan; the /subscribe
\* WebSocket reports a change of CurrentHostState
HostStep ==
    /\ plan # <<>>
    /\ host' = Head(plan)
    /\ plan' = Tail(plan)
    /\ events' = IF subOpen /\ Head(plan) # host THEN events + 1 ELSE events
    /\ UNCHANGED <<subOpen, reqs, nextId, serverState, loading, unreachable,
                   pending, prog, intervals, ops, epoch, stamp>>

\* the header's ws.onmessage: loadServerStatus sends getHostState
OnHostEvent ==
    /\ events > 0
    /\ events' = events - 1
    /\ SetCtx(Issue(Ctx, "get", "none"))
    /\ UNCHANGED <<host, plan, subOpen, unreachable, ops, epoch>>

\* the /subscribe WebSocket closes: onclose only logs, nothing reopens it
SubscriptionClose ==
    /\ subOpen
    /\ subOpen' = FALSE
    /\ events' = 0
    /\ UNCHANGED <<host, plan, reqs, nextId, serverState, loading,
                   unreachable, pending, prog, intervals, ops, epoch, stamp>>

\* mutant: checkHostStatus rejects on timeout but does not cancel the
\* interval, which keeps firing
TickNoCancel(i) ==
    LET iv == intervals[i]
        k1 == iv.k + 1
    IN IF k1 > PollTimeout
       THEN SetCtx(LET c == [Ctx EXCEPT !.intervals[i] =
                                 [iv EXCEPT !.k = PollTimeout + 1,
                                            !.settled = TRUE]]
                   IN IF iv.settled THEN c ELSE Fail(c))
       ELSE IF serverState = iv.target
       THEN SetCtx(LET c == [Ctx EXCEPT !.intervals = RemoveAt(@, i)]
                   IN IF iv.settled THEN c ELSE Advance(c, Tail(prog)))
       ELSE SetCtx([Ctx EXCEPT !.intervals[i].k = k1])

\* mutant: checkHostStatus without its timeout check
TickNoTimeout(i) ==
    LET iv == intervals[i]
    IN IF serverState = iv.target
       THEN SetCtx(LET c == [Ctx EXCEPT !.intervals = RemoveAt(@, i)]
                   IN IF iv.settled THEN c ELSE Advance(c, Tail(prog)))
       ELSE SetCtx([Ctx EXCEPT !.intervals[i].k =
                                   IF @ < PollTimeout THEN @ + 1 ELSE @])

\* one firing of the checkHostStatus interval: past the timeout it rejects
\* and cancels, else if server_state is the target it resolves and cancels
Tick(i) ==
    LET iv == intervals[i]
        k1 == iv.k + 1
    IN IF k1 > PollTimeout
       THEN SetCtx(LET c == [Ctx EXCEPT !.intervals = RemoveAt(@, i)]
                   IN IF iv.settled THEN c ELSE Fail(c))
       ELSE IF serverState = iv.target
       THEN SetCtx(LET c == [Ctx EXCEPT !.intervals = RemoveAt(@, i)]
                   IN IF iv.settled THEN c ELSE Advance(c, Tail(prog)))
       ELSE SetCtx([Ctx EXCEPT !.intervals[i].k = k1])

IntervalFires(i) ==
    /\ i \in DOMAIN intervals
    /\ Tick(i)
    /\ UNCHANGED <<host, plan, subOpen, events, unreachable, ops, epoch>>

Next ==
    \/ \E op \in UserOps : StartOp(op)
    \/ \E r \in reqs, ok \in BOOLEAN : Serve(r, ok)
    \/ \E r \in reqs : Answer(r) \/ TimeOut(r)
    \/ HostStep
    \/ OnHostEvent
    \/ SubscriptionClose
    \/ \E i \in DOMAIN intervals : IntervalFires(i)

\* $interval keeps firing, every $http request is answered or times out
\* (apiInterceptor sets a 20 s default timeout), the BMC carries out the
\* transitions it accepted, and the browser delivers WebSocket messages.
\* The user, the BMC's choice to serve a request and the WebSocket's
\* closing are not assumed.
Fairness ==
    /\ WF_vars(\E i \in DOMAIN intervals : IntervalFires(i))
    /\ \A id \in 0..(6 * MaxOps) :
          WF_vars(\E r \in reqs : r.id = id /\ (Answer(r) \/ TimeOut(r)))
    /\ WF_vars(HostStep)
    /\ WF_vars(OnHostEvent)

Spec == Init /\ [][Next]_vars /\ Fairness

-----------------------------------------------------------------------------

States == {StateOn, StateOff, StateError, StateUnreachable}

TypeOK ==
    /\ host \in {HostOff, HostRunning}
    /\ plan \in Seq({HostOff, HostRunning})
    /\ subOpen \in BOOLEAN /\ events \in Nat
    /\ \A r \in reqs : /\ r.kind \in {"get", "put"}
                       /\ r.served \in BOOLEAN /\ r.waiting \in BOOLEAN
                       /\ r.id < nextId
    /\ serverState \in States /\ stamp \in 0..epoch
    /\ loading \in BOOLEAN /\ unreachable \in BOOLEAN /\ pending \in BOOLEAN
    /\ \A i \in DOMAIN intervals : /\ intervals[i].target \in States
                                   /\ intervals[i].k \in 0..PollTimeout
    /\ ops \in 0..MaxOps

\* No checkHostStatus interval outlives its operation: once
\* operationPending is cleared, every $interval the chain started has been
\* cancelled, on each path (resolved, timed out, request failed).
IntervalsCancelled ==
    ~pending => intervals = <<>>

\* Every power operation ends: operationPending is eventually cleared,
\* whether the host reaches the state or not, the /subscribe socket closes,
\* or a request times out.
OperationSettles ==
    pending ~> ~pending

\* A wait of checkHostStatus is only satisfied by a host state the BMC
\* reported after it performed the operation's last request: the page
\* never reports a power operation done from an older answer.
ResolvesWait(i) ==
    /\ IntervalFires(i)
    /\ ~intervals[i].settled
    /\ intervals[i].k < PollTimeout
    /\ serverState = intervals[i].target
SuccessOnFreshState ==
    [][\A i \in DOMAIN intervals : ResolvesWait(i) => stamp >= epoch]_vars

=============================================================================
