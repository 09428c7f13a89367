------------------------------- MODULE Session -------------------------------
(***************************************************************************)
(* Login, logout and the session of phosphor-webui: LoginController,      *)
(* userModel, APIUtils.login and logout, the app header's logout and its  *)
(* 'user-logged-in' listener, app.run's $routeChangeStart guard and       *)
(* 'timedout-user' handler, and apiInterceptor's answers to 401, 403 and  *)
(* -1.  The BMC keeps a set of sessions; a login creates one and the      *)
(* answer's Set-Cookie gives it to the browser, which sends it with every *)
(* later request; a logout deletes the session the request names, and    *)
(* the BMC drops a session on its own when it times out.                  *)
(*                                                                         *)
(* sessionStorage's LOGIN_ID and the IsAuthenticated cookie are set by a  *)
(* successful login and removed together by a logout and by              *)
(* 'timedout-user', so isLoggedIn() is one flag, loginId.  The routes are *)
(* login, one authenticated page (the header and the page's controller   *)
(* load the BMC's data with GETs) and unauthorized (403.html, which needs  *)
(* no login).  $location.search().next and the host field are left out.   *)
(***************************************************************************)
EXTENDS Integers, FiniteSets

CONSTANTS
    MaxSessions,    \* bound on the sessions the BMC creates
    MaxClicks       \* bound on the user's clicks

NoSession == 0
Sids == 1..MaxSessions

\* what the user types into the login form: the right credentials, wrong
\* ones, or a field left empty
Creds == {"good", "bad", "empty"}

ASSUME MaxSessions \in Nat /\ MaxClicks \in Nat

VARIABLES
    sessions,       \* the sessions the BMC holds
    lastSid,        \* the last session the BMC created
    cookie,         \* the session cookie the browser sends
    loginId,        \* isLoggedIn(): LOGIN_ID and IsAuthenticated
    path,           \* the route shown: "login", "page" or "unauthorized"
    reqs,           \* $http requests not yet answered
    invalidCredentials, serverUnreachable,  \* the login page's flags
    unreachable,    \* dataService.server_unreachable
    clicks          \* the user's clicks so far

vars == <<sessions, lastSid, cookie, loginId, path, reqs, invalidCredentials,
          serverUnreachable, unreachable, clicks>>

\* a request: kind login (with the typed credentials), logout or get, with
\* the session cookie it carries; status is the BMC's answer, -1 none
RequestWith(kind, cred, sid) ==
    [kind |-> kind, cred |-> cred, sid |-> sid, served |-> FALSE, status |-> -1,
     made |-> NoSession, waiting |-> TRUE]

Request(kind, cred) == RequestWith(kind, cred, cookie)

-----------------------------------------------------------------------------
(* The answer's callbacks: apiInterceptor's response or responseError,     *)
(* then the caller's.  They work on a record ctx with the browser's        *)
(* variables [cookie, loginId, path, reqs, invalidCredentials,             *)
(* serverUnreachable, unreachable].                                        *)

Ctx == [cookie |-> cookie, loginId |-> loginId, path |-> path, reqs |-> reqs,
        invalidCredentials |-> invalidCredentials,
        serverUnreachable |-> serverUnreachable, unreachable |-> unreachable]

SetCtx(ctx) ==
    /\ cookie' = ctx.cookie /\ loginId' = ctx.loginId /\ path' = ctx.path
    /\ reqs' = ctx.reqs /\ invalidCredentials' = ctx.invalidCredentials
    /\ serverUnreachable' = ctx.serverUnreachable /\ unreachable' = ctx.unreachable

\* app.run's 'timedout-user': LOGIN_ID and IsAuthenticated removed, to login
TimedOutUser(ctx) == [ctx EXCEPT !.loginId = FALSE, !.path = "login"]

\* apiInterceptor: a response clears server_unreachable; a 401 away from
\* the login page emits 'timedout-user', a 403 goes to /unauthorized, a -1
\* sets server_unreachable
Intercepted(ctx, status) ==
    CASE status = 200 -> [ctx EXCEPT !.unreachable = FALSE]
      [] status = 401 /\ ctx.path # "login" -> TimedOutUser(ctx)
      [] status = 403 /\ ctx.path # "login" -> [ctx EXCEPT !.path = "unauthorized"]
      [] status = -1 -> [ctx EXCEPT !.unreachable = TRUE]
      [] OTHER -> ctx

\* the header's 'user-logged-in' listener runs loadData, whose GETs (host
\* state, network, logs, system name) go out with the new cookie
LoadData(ctx) == [ctx EXCEPT !.reqs = @ \cup {RequestWith("get", "good", ctx.cookie)}]

\* userModel.login's callback into LoginController.login: 'ok' sets
\* LOGIN_ID, emits 'user-logged-in' and goes to the overview; a failure
\* whose statusText is 'Unauthorized' sets invalidCredentials, any other
\* (a server error, or 'Server unreachable' for a request without answer)
\* serverUnreachable
LoggedIn(ctx, status) ==
    IF status = 200
    THEN LoadData([ctx EXCEPT !.loginId = TRUE, !.path = "page"])
    ELSE IF status = 401 THEN [ctx EXCEPT !.invalidCredentials = TRUE]
    ELSE [ctx EXCEPT !.serverUnreachable = TRUE]

\* a logout callback that removes LOGIN_ID but, like one without the
\* header's $location.path('/logout'), stays on the page
LoggedOutStays(ctx, status) ==
    IF status = 200 THEN [ctx EXCEPT !.loginId = FALSE] ELSE ctx

\* userModel.logout's callback: on 'ok' it removes LOGIN_ID and
\* IsAuthenticated and the header goes to /logout, which the router sends
\* to /login; on an error APIUtils.logout passes a null response and
\* response.status throws, so nothing else happens
LoggedOut(ctx, status) ==
    IF status = 200 THEN [ctx EXCEPT !.loginId = FALSE, !.path = "login"] ELSE ctx

\* the answer with status to r, its Set-Cookie applied first
OnAnswer(ctx, r, status) ==
    LET c == IF r.kind = "login" /\ status = 200 THEN [ctx EXCEPT !.cookie = r.made] ELSE ctx
        i == Intercepted(c, status)
    IN CASE r.kind = "login" -> LoggedIn(i, status)
         [] r.kind = "logout" -> LoggedOut(i, status)
         [] OTHER -> i

-----------------------------------------------------------------------------
(* The BMC.                                                                *)

\* the status the BMC gives r: a login with the right credentials creates a
\* session; a logout or GET needs the session its cookie names, and a GET
\* may be refused for the user's role (403); any request may fail (500)
Statuses(r) ==
    CASE r.kind = "login" -> IF r.cred = "good" /\ lastSid < MaxSessions
                             THEN {200, 500} ELSE {401, 500}
      [] r.kind = "logout" -> IF r.sid \in sessions THEN {200, 500} ELSE {401}
      [] OTHER -> IF r.sid \in sessions THEN {200, 403} ELSE {401}

Serve(r, status) ==
    /\ r \in reqs /\ ~r.served /\ status \in Statuses(r)
    /\ LET new == r.kind = "login" /\ status = 200
       IN /\ lastSid' = IF new THEN lastSid + 1 ELSE lastSid
          /\ sessions' = CASE new -> sessions \cup {lastSid + 1}
                           [] r.kind = "logout" /\ status = 200 -> sessions \ {r.sid}
                           [] OTHER -> sessions
          /\ reqs' = (reqs \ {r}) \cup
                     IF ~r.waiting THEN {}
                     ELSE {[r EXCEPT !.served = TRUE, !.status = status,
                                     !.made = IF new THEN lastSid + 1 ELSE NoSession]}
    /\ UNCHANGED <<cookie, loginId, path, invalidCredentials, serverUnreachable,
                   unreachable, clicks>>

\* the BMC drops a session that timed out
ExpireSession(s) ==
    /\ s \in sessions
    /\ sessions' = sessions \ {s}
    /\ UNCHANGED <<lastSid, cookie, loginId, path, reqs, invalidCredentials,
                   serverUnreachable, unreachable, clicks>>

\* the answer to r reaches the page
Answer(r) ==
    /\ r \in reqs /\ r.served /\ r.waiting
    /\ SetCtx(OnAnswer([Ctx EXCEPT !.reqs = @ \ {r}], r, r.status))
    /\ UNCHANGED <<sessions, lastSid, clicks>>

\* apiInterceptor's 20 s timeout: status -1 whether or not the BMC performed
\* r; a login or logout not served yet may still be
TimeOut(r) ==
    /\ r \in reqs /\ r.waiting
    /\ LET late == IF ~r.served /\ r.kind # "get" THEN {[r EXCEPT !.waiting = FALSE]} ELSE {}
       IN SetCtx(OnAnswer([Ctx EXCEPT !.reqs = (@ \ {r}) \cup late], r, -1))
    /\ UNCHANGED <<sessions, lastSid, clicks>>

-----------------------------------------------------------------------------
(* The user.                                                               *)

Click == clicks < MaxClicks /\ clicks' = clicks + 1

\* LoginController.login: both flags cleared; an empty field returns,
\* otherwise APIUtils.login POSTs the credentials
Login(cred) ==
    /\ Click /\ path = "login"
    /\ invalidCredentials' = FALSE /\ serverUnreachable' = FALSE
    /\ reqs' = IF cred = "empty" THEN reqs ELSE reqs \cup {Request("login", cred)}
    /\ UNCHANGED <<sessions, lastSid, cookie, loginId, path, unreachable>>

\* the header's logout: APIUtils.logout POSTs with the session cookie
Logout ==
    /\ Click /\ path # "login"
    /\ reqs' = reqs \cup {Request("logout", "good")}
    /\ UNCHANGED <<sessions, lastSid, cookie, loginId, path, invalidCredentials,
                   serverUnreachable, unreachable>>

\* the user opens the authenticated page: $routeChangeStart sends a user
\* who is not logged in to /login; otherwise the page's controller loads
\* its data
OpenPage ==
    /\ Click /\ path # "page"
    /\ IF loginId
       THEN path' = "page" /\ reqs' = reqs \cup {Request("get", "good")}
       ELSE path' = "login" /\ UNCHANGED reqs
    /\ UNCHANGED <<sessions, lastSid, cookie, loginId, invalidCredentials,
                   serverUnreachable, unreachable>>

\* the app opens on /login, nobody logged in; the header's loadData has
\* sent loadServerHealth's and loadSystemName's GETs, which isLoggedIn()
\* does not guard, without a session
Init ==
    /\ sessions = {} /\ lastSid = 0 /\ cookie = NoSession /\ loginId = FALSE
    /\ path = "login" /\ reqs = {RequestWith("get", "good", NoSession)}
    /\ invalidCredentials = FALSE /\ serverUnreachable = FALSE /\ unreachable = FALSE
    /\ clicks = 0

Next ==
    \/ \E r \in reqs, status \in {200, 401, 403, 500} : Serve(r, status)
    \/ \E s \in sessions : ExpireSession(s)
    \/ \E r \in reqs : Answer(r) \/ TimeOut(r)
    \/ \E cred \in Creds : Login(cred)
    \/ Logout
    \/ OpenPage

\* the BMC and $http: a request is eventually served, answered or timed out
Fairness ==
    WF_vars(\E r \in reqs, status \in {200, 401, 403, 500} :
               Serve(r, status) \/ Answer(r) \/ TimeOut(r))

Spec == Init /\ [][Next]_vars /\ Fairness

-----------------------------------------------------------------------------
(* Properties.                                                             *)

TypeOK ==
    /\ sessions \subseteq Sids /\ lastSid \in 0..MaxSessions
    /\ cookie \in {NoSession} \cup Sids /\ loginId \in BOOLEAN
    /\ path \in {"login", "page", "unauthorized"} /\ clicks \in 0..MaxClicks

\* The authenticated page is shown only to a user isLoggedIn() accepts:
\* $routeChangeStart's guard, and every answer that removes LOGIN_ID (a
\* logout's, a 401's 'timedout-user') also leaves the page, whatever order
\* the logins, logouts, session timeouts and answers come in.
PageNeedsLogin == path = "page" => loginId
=============================================================================
