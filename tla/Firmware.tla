----------------------------- MODULE Firmware ------------------------------
(***************************************************************************)
(* The firmware page of phosphor-webui (firmwareController) and the BMC's  *)
(* software objects it drives through APIUtils:                            *)
(*   - activateConfirmed: PUT RequestedActivation, then waitForActive, an   *)
(*     $interval that GETs the image's Activation on every tick, then a    *)
(*     reboot of the BMC or the host when the image's type asks for it;    *)
(*   - upload, confirmDeleteImage, confirmChangePriority, loadFirmwares.   *)
(* The BMC serves each request when it chooses and answers in any order;  *)
(* an activation it accepted ends Active or Failed.  Time is counted in   *)
(* poll intervals (Constants.POLL_INTERVALS.ACTIVATION).                   *)
(*                                                                         *)
(* The chain reads $scope.activate_image_id, activate_image_type and      *)
(* activate.reboot when each callback runs, not when the user confirmed;  *)
(* pollActivationTimer is one variable of the controller.                 *)
(***************************************************************************)
EXTENDS Integers, FiniteSets, Bags, BagsExt

CONSTANTS
    Images,         \* software object ids the BMC may hold
    ImgType,        \* imageType of each: "BMC" or "Host"
    InitImages,     \* images on the BMC when the page loads
    MaxActs,        \* bound on activations confirmed
    MaxClicks,      \* bound on the user's clicks: activate, upload, delete, priority
    ActTicks        \* Constants.TIMEOUT.ACTIVATION in poll intervals

ASSUME /\ InitImages \subseteq Images /\ ImgType \in [Images -> {"BMC", "Host"}]
       /\ MaxActs \in Nat /\ MaxClicks \in Nat /\ ActTicks \in Nat \ {0}

NoImage == "none"
NoTimer == 0
Chains == 1..MaxActs

\* xyz.openbmc_project.Software.Activation.Activations, and "Absent" for an
\* object the BMC does not hold
ActStates == {"Absent", "Ready", "Activating", "Active", "Failed"}

VARIABLES
    act,            \* Activation of each software object on the BMC
    fw,             \* $scope.firmwares: images listed by the last load
    sel,            \* $scope.activate_image_id (its type is ImgType[sel])
    rebootOpt,      \* $scope.activate.reboot
    confirm,        \* $scope.activate_confirm: the activation modal is open
    uploading,      \* $scope.uploading
    loading,        \* $scope.loading
    reqs,           \* $http requests not yet answered, a bag: two alike
                    \* pending requests are interchangeable
    chain,          \* each confirmed activation: image, step
    timers,         \* running waitForActive intervals
    pollVar,        \* pollActivationTimer: the chain whose interval, or 0
    reboots,        \* reboot requests the page sent (ghost: image Active?)
    clicks          \* the user's clicks so far

vars == <<act, fw, sel, rebootOpt, confirm, uploading, loading, reqs, chain,
          timers, pollVar, reboots, clicks>>

Present == {i \in Images : act[i] # "Absent"}

Request(kind, img, c) ==
    [kind |-> kind, img |-> img, chain |-> c, served |-> FALSE,
     ok |-> TRUE, val |-> "Absent", list |-> {}, waiting |-> TRUE]

-----------------------------------------------------------------------------
(* Callbacks work on a record ctx of the page's variables:                 *)
(* [reqs, fw, uploading, loading, chain, timers, pollVar, reboots]         *)

Issue(ctx, kind, img, c) ==
    [ctx EXCEPT !.reqs = BagAdd(@, Request(kind, img, c))]

\* $scope.loadFirmwares: GET software/enumerate
LoadFirmwares(ctx) == Issue(ctx, "getFw", NoImage, 0)

\* $interval.cancel(pollActivationTimer); pollActivationTimer = undefined
CancelPoll(ctx) ==
    [ctx EXCEPT !.timers = {t \in @ : t.chain # ctx.pollVar},
                !.pollVar = NoTimer]

\* waitForActive($scope.activate_image_id): a new interval, kept in
\* pollActivationTimer
WaitForActive(ctx, c) ==
    [ctx EXCEPT !.timers = @ \cup {[chain |-> c, img |-> sel, k |-> 0]},
                !.pollVar = c,
                !.chain[c].step = "wait"]

\* the reboot step of activateConfirmed, run whether waitForActive resolved
\* or was rejected: bmcReboot for a BMC image; for a host image powerOn if
\* dataService shows the host off, else warmReboot (which sets uploading)
RebootStep(ctx, c, hostOff) ==
    LET rec(kind) == [chain |-> c, kind |-> kind,
                      active |-> act[ctx.chain[c].img] = "Active"]
        t == [ctx EXCEPT !.chain[c].step = "done"]
    IN CASE ~rebootOpt -> t
         [] ImgType[sel] = "BMC" -> [t EXCEPT !.reboots = @ \cup {rec("bmc")}]
         [] hostOff -> [t EXCEPT !.reboots = @ \cup {rec("hostOn")}]
         [] OTHER -> [t EXCEPT !.reboots = @ \cup {rec("hostReboot")},
                               !.uploading = TRUE]

\* waitForActive's deferred settles: on success loadFirmwares, on failure a
\* toast; then the reboot step
Settle(ctx, c, resolved, hostOff) ==
    IF ctx.chain[c].step # "wait" THEN ctx
    ELSE RebootStep(IF resolved THEN LoadFirmwares(ctx) ELSE ctx, c, hostOff)

Ctx == [reqs |-> reqs, fw |-> fw, uploading |-> uploading,
        loading |-> loading, chain |-> chain, timers |-> timers,
        pollVar |-> pollVar, reboots |-> reboots]

SetCtx(ctx) ==
    /\ reqs' = ctx.reqs /\ fw' = ctx.fw
    /\ uploading' = ctx.uploading /\ loading' = ctx.loading
    /\ chain' = ctx.chain /\ timers' = ctx.timers /\ pollVar' = ctx.pollVar
    /\ reboots' = ctx.reboots

\* the answer callbacks of each request, ok or failed
OnAnswer(ctx, r, ok, hostOff) ==
    CASE r.kind = "activate" ->
            WaitForActive(IF ok THEN LoadFirmwares(ctx) ELSE ctx, r.chain)
      [] r.kind = "getAct" /\ ~ok ->
            Settle(CancelPoll(ctx), r.chain, FALSE, hostOff)
      [] r.kind = "getAct" /\ r.val = "Active" ->
            Settle(CancelPoll(ctx), r.chain, TRUE, hostOff)
      \* "Failed": deferred.reject(error) throws, error being unbound, and
      \* the deferred never settles
      [] r.kind = "getAct" /\ r.val = "Failed" -> CancelPoll(ctx)
      [] r.kind = "getAct" -> ctx
      [] r.kind = "getFw" -> IF ok THEN [ctx EXCEPT !.fw = r.list] ELSE ctx
      [] r.kind = "upload" ->
            IF ok THEN LoadFirmwares([ctx EXCEPT !.uploading = FALSE])
            ELSE [ctx EXCEPT !.uploading = FALSE]
      \* delete and priority: no error callback, loading stays set
      [] r.kind \in {"delete", "priority"} ->
            IF ok THEN LoadFirmwares([ctx EXCEPT !.loading = FALSE]) ELSE ctx

-----------------------------------------------------------------------------

\* the page loads: loadFirmwares
Init ==
    /\ act = [i \in Images |-> IF i \in InitImages THEN "Ready" ELSE "Absent"]
    /\ fw = {}
    /\ sel = NoImage
    /\ rebootOpt = TRUE
    /\ confirm = FALSE
    /\ uploading = FALSE
    /\ loading = FALSE
    /\ reqs = SetToBag({Request("getFw", NoImage, 0)})
    /\ chain = [c \in Chains |-> [img |-> NoImage, step |-> "idle"]]
    /\ timers = {}
    /\ pollVar = NoTimer
    /\ reboots = {}
    /\ clicks = 0

\* activateImage: the user picks a listed image; the modal opens with its
\* reboot checkbox (while it is open it covers the page)
ActivateImage(i, rb) ==
    /\ ~confirm
    /\ clicks < MaxClicks
    /\ i \in fw
    /\ sel' = i /\ rebootOpt' = rb /\ confirm' = TRUE
    /\ clicks' = clicks + 1
    /\ UNCHANGED <<act, fw, uploading, loading, reqs, chain, timers,
                   pollVar, reboots>>

\* the modal is dismissed
CancelModal ==
    /\ confirm
    /\ confirm' = FALSE
    /\ UNCHANGED <<act, fw, sel, rebootOpt, uploading, loading, reqs,
                   chain, timers, pollVar, reboots, clicks>>

\* activateConfirmed: PUT RequestedActivation for $scope.activate_image_id
ActivateConfirmed(c) ==
    /\ confirm
    /\ chain[c].step = "idle" /\ (c > 1 => chain[c - 1].step # "idle")
    /\ confirm' = FALSE
    /\ SetCtx(Issue([Ctx EXCEPT !.chain[c] = [img |-> sel, step |-> "put"]],
                    "activate", sel, c))
    /\ UNCHANGED <<act, sel, rebootOpt, clicks>>

\* upload of a chosen file: the BMC will create software object i
Upload(i) ==
    /\ ~confirm
    /\ clicks < MaxClicks
    /\ act[i] = "Absent"
    /\ clicks' = clicks + 1
    /\ SetCtx(Issue([Ctx EXCEPT !.uploading = TRUE], "upload", i, 0))
    /\ UNCHANGED <<act, sel, rebootOpt, confirm>>

\* confirmDeleteImage and confirmChangePriority on a listed image
Modify(kind, i) ==
    /\ ~confirm
    /\ clicks < MaxClicks
    /\ i \in fw
    /\ clicks' = clicks + 1
    /\ SetCtx(Issue([Ctx EXCEPT !.loading = TRUE], kind, i, 0))
    /\ UNCHANGED <<act, sel, rebootOpt, confirm>>

\* the BMC serves a request (ok) or fails it; a request about an object it
\* does not hold fails
Serve(r, ok) ==
    /\ BagIn(r, reqs) /\ ~r.served
    /\ LET okr == ok /\ (r.kind \in {"getFw", "upload"} \/ act[r.img] # "Absent")
       IN /\ reqs' = BagRemove(reqs, r) (+)
                     SetToBag(IF r.waiting
                     THEN {[r EXCEPT !.served = TRUE, !.ok = okr,
                                     !.val = IF r.kind = "getAct" THEN act[r.img]
                                             ELSE @,
                                     !.list = IF r.kind = "getFw" THEN Present
                                              ELSE @]}
                     ELSE {})
          /\ act' = CASE ~okr -> act
                      [] r.kind = "activate" /\ act[r.img] # "Active" ->
                            [act EXCEPT ![r.img] = "Activating"]
                      [] r.kind = "upload" -> [act EXCEPT ![r.img] = "Ready"]
                      [] r.kind = "delete" -> [act EXCEPT ![r.img] = "Absent"]
                      [] OTHER -> act
    /\ UNCHANGED <<fw, sel, rebootOpt, confirm, uploading, loading,
                   chain, timers, pollVar, reboots, clicks>>

\* an activation the BMC accepted ends
ActivationEnds(i) ==
    /\ act[i] = "Activating"
    /\ act' \in {[act EXCEPT ![i] = "Active"], [act EXCEPT ![i] = "Failed"]}
    /\ UNCHANGED <<fw, sel, rebootOpt, confirm, uploading, loading, reqs,
                   chain, timers, pollVar, reboots, clicks>>

\* the answer to a served request arrives; hostOff is what
\* dataService.server_state shows should the reboot step run
Answer(r, hostOff) ==
    /\ BagIn(r, reqs) /\ r.served
    /\ SetCtx(OnAnswer([Ctx EXCEPT !.reqs = BagRemove(@, r)], r, r.ok, hostOff))
    /\ UNCHANGED <<act, sel, rebootOpt, confirm, clicks>>

\* the request times out or the connection fails: the error callback; a
\* PUT, POST or DELETE not yet served may still be served (a late GET
\* changes nothing)
TimeOut(r, hostOff) ==
    /\ BagIn(r, reqs) /\ r.waiting
    /\ SetCtx(OnAnswer([Ctx EXCEPT !.reqs = BagRemove(@, r) (+)
                 SetToBag(IF r.served \/ r.kind \in {"getFw", "getAct"} THEN {}
                          ELSE {[r EXCEPT !.waiting = FALSE]})],
                       r, FALSE, hostOff))
    /\ UNCHANGED <<act, sel, rebootOpt, confirm, clicks>>

\* Mutants of the interval body, each a plausible slip in waitForActive.
\* the timeout rejects the deferred but does not cancel the interval
TickNoCancel(t, hostOff) ==
    LET k1 == t.k + 1
        ctx == Issue([Ctx EXCEPT !.timers = (@ \ {t}) \cup {[t EXCEPT !.k = k1]}],
                     "getAct", t.img, t.chain)
    IN IF k1 >= ActTicks THEN Settle(ctx, t.chain, FALSE, hostOff) ELSE ctx
\* the same, with the elapsed time kept at the timeout
TickNoTimeout(t, hostOff) ==
    LET k1 == IF t.k < ActTicks THEN t.k + 1 ELSE ActTicks
        ctx == Issue([Ctx EXCEPT !.timers = (@ \ {t}) \cup {[t EXCEPT !.k = k1]}],
                     "getAct", t.img, t.chain)
    IN IF k1 >= ActTicks THEN Settle(ctx, t.chain, FALSE, hostOff) ELSE ctx

\* one firing of waitForActive's interval: GET Activation, then the timeout
\* check, which cancels pollActivationTimer and rejects
Tick(t, hostOff) ==
    LET k1 == IF t.k < ActTicks THEN t.k + 1 ELSE ActTicks  \* elapsed >= timeout stays so
        ctx == Issue([Ctx EXCEPT !.timers = (@ \ {t}) \cup {[t EXCEPT !.k = k1]}],
                     "getAct", t.img, t.chain)
    IN IF k1 >= ActTicks
       THEN Settle(CancelPoll(ctx), t.chain, FALSE, hostOff)
       ELSE ctx

IntervalFires(t, hostOff) ==
    /\ t \in timers
    /\ SetCtx(Tick(t, hostOff))
    /\ UNCHANGED <<act, sel, rebootOpt, confirm, clicks>>

Next ==
    \/ \E i \in Images, rb \in BOOLEAN : ActivateImage(i, rb)
    \/ CancelModal
    \/ \E c \in Chains : ActivateConfirmed(c)
    \/ \E i \in Images : Upload(i)
    \/ \E kind \in {"delete", "priority"}, i \in Images : Modify(kind, i)
    \/ \E r \in BagToSet(reqs), ok \in BOOLEAN : Serve(r, ok)
    \/ \E i \in Images : ActivationEnds(i)
    \/ \E r \in BagToSet(reqs), off \in BOOLEAN : Answer(r, off)
    \/ \E r \in BagToSet(reqs), off \in BOOLEAN : TimeOut(r, off)
    \/ \E t \in timers, off \in BOOLEAN : IntervalFires(t, off)

\* $interval keeps firing and every request is answered or times out (the
\* interceptor's 20 s default, uploadImage's 5 minutes).  The user and the
\* BMC's activation are not assumed to act.
Spec ==
    /\ Init /\ [][Next]_vars
    /\ WF_vars(\E t \in timers, off \in BOOLEAN : IntervalFires(t, off))
    /\ WF_vars(\E r \in BagToSet(reqs), off \in BOOLEAN : Answer(r, off) \/ TimeOut(r, off))

-----------------------------------------------------------------------------

TypeOK ==
    /\ act \in [Images -> ActStates]
    /\ fw \subseteq Images /\ sel \in Images \cup {NoImage}
    /\ confirm \in BOOLEAN /\ uploading \in BOOLEAN /\ loading \in BOOLEAN
    /\ IsABag(reqs)
    /\ chain \in [Chains -> [img : Images \cup {NoImage},
                             step : {"idle", "put", "wait", "done"}]]
    /\ \A t \in timers : t.chain \in Chains /\ t.k \in 0..ActTicks
    /\ pollVar \in Chains \cup {NoTimer}

\* Every waitForActive interval is eventually cancelled: whether the image
\* becomes Active, Failed, the GET fails or the activation times out, the
\* polling of the BMC stops.
ActivationPollingEnds ==
    timers # {} ~> timers = {}

\* The page reboots the BMC or the host only after the image it activated
\* has become Active: activateConfirmed's reboot step follows a successful
\* waitForActive.
RebootOnlyAfterActive ==
    \A rb \in reboots : rb.active

=============================================================================
