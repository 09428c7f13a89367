---------------------------- MODULE UserAccounts ----------------------------
(***************************************************************************)
(* The local user accounts page of phosphor-webui (userController), the    *)
(* bmcTable it renders the accounts in, the APIUtils account calls and    *)
(* the BMC's Redfish AccountService they reach.                           *)
(*                                                                         *)
(* getAllUserAccounts GETs the Accounts collection and then every member, *)
(* joined with $q.all; deleteUsers and updateUserStatus join one DELETE   *)
(* or PATCH per user with $q.all and refresh the table in finally.  The   *)
(* BMC performs each request when it chooses and the answers arrive in    *)
(* any order.  An account is abstracted to its name and Enabled flag; the *)
(* role, password and lockout are left out (no property is about them).   *)
(***************************************************************************)
EXTENDS Integers, Sequences, SequencesExt, FiniteSets

CONSTANTS
    Names,          \* user names an account may have
    Root,           \* "root", which the page never lets the user remove
    NameOrder,      \* all Names in the order < compares the strings, which
                    \* is also the order the BMC lists the collection in
    InitAccounts,   \* accounts on the BMC when the page loads: name -> status
    Sortable,       \* the table's sortable binding
    DefaultSort,    \* the table's default-sort binding
    MaxClicks       \* bound on the user's clicks

\* an account's status as the table shows it: user.Enabled
Statuses == {"Enabled", "Disabled"}

ASSUME /\ Root \in Names /\ Root \in DOMAIN InitAccounts
       /\ NameOrder \in Seq(Names) /\ ToSet(NameOrder) = Names
       /\ DOMAIN InitAccounts \subseteq Names
       /\ InitAccounts \in [DOMAIN InitAccounts -> Statuses]

Absent == "absent"
Undef == "undefined"

\* columns of uiData: 0 UserName, 2 account status ('Enabled' or 'Disabled')
Rank(n) == CHOOSE k \in DOMAIN NameOrder : NameOrder[k] = n
UserCellRank(row, col) ==
    IF col = 0 THEN Rank(row.name) ELSE IF row.status = "Enabled" THEN 1 ELSE 0

\* mutant: user.selectable left unset, which prepData defaults to true
UserSelectableAll(row) == TRUE

\* mapTableData: user.selectable = !checkIfRoot(user)
UserSelectable(row) == row.name # Root

T == INSTANCE BMCTable WITH Selectable <- UserSelectable,
                            CellRank <- UserCellRank

VARIABLES
    bmc,        \* the BMC's accounts: name -> a status, or Absent
    reqs,       \* $http requests not yet answered
    lists,      \* each getAllUserAccounts call: its progress and results
    batches,    \* each $q.all of deleteUsers or updateUserStatus
    loading,    \* $scope.loading
    usersSet,   \* $scope.localUsers has been set
    roles,      \* $scope.userRoles: Undef, "null" or "ok"
    settings,   \* $scope.accountSettings: Undef, "null" or "ok"
    modal,      \* the open $uibModal, or "none"
    tbl,        \* the bmcTable's controller state, see BMCTable
    viewLoaded, \* $viewContentLoaded has fired
    clicks      \* the user's clicks so far

vars == <<bmc, reqs, lists, batches, loading, usersSet, roles, settings,
          modal, tbl, viewLoaded, clicks>>

Existing == {n \in Names : bmc[n] # Absent}

\* $uibModal: the open modal and the user or users it is about
Modal(kind, name, users) == [kind |-> kind, name |-> name, users |-> users]
NoModal == Modal("none", Root, <<>>)

\* a request; id is the listing, the $q.all batch or the click it belongs to
\* status is the Enabled value a PATCH or POST sends, to the UserName an
\* update gives the account, val and members what a GET answered;
\* waiting is FALSE once the page stopped waiting for it
Request(kind, name, status, id) ==
    [kind |-> kind, name |-> name, status |-> status, id |-> id, to |-> name,
     served |-> FALSE, ok |-> FALSE, val |-> Absent, members |-> <<>>,
     waiting |-> TRUE]

\* requests that change the BMC's accounts
Mutations == {"delete", "status", "create", "update", "save"}

-----------------------------------------------------------------------------
(* Callbacks work on a record ctx of the page's variables:                 *)
(* [reqs, lists, batches, loading, usersSet, roles, settings, tbl]         *)

Ctx == [reqs |-> reqs, lists |-> lists, batches |-> batches,
        loading |-> loading, usersSet |-> usersSet, roles |-> roles,
        settings |-> settings, tbl |-> tbl]

SetCtx(ctx) ==
    /\ reqs' = ctx.reqs /\ lists' = ctx.lists /\ batches' = ctx.batches
    /\ loading' = ctx.loading /\ usersSet' = ctx.usersSet
    /\ roles' = ctx.roles /\ settings' = ctx.settings /\ tbl' = ctx.tbl

Issue(ctx, r) == [ctx EXCEPT !.reqs = @ \cup {r}]

\* getLocalUsers: loading = true; APIUtils.getAllUserAccounts() GETs the
\* Accounts collection
GetLocalUsers(ctx) ==
    LET l == Len(ctx.lists) + 1
    IN Issue([ctx EXCEPT !.loading = TRUE,
                         !.lists = Append(@, [st |-> "coll", members |-> <<>>,
                                              res |-> <<>>])],
             Request("coll", Root, Absent, l))

\* the members' GETs of listing l, issued when the collection arrived
GetMembers(ctx, l, members) ==
    [ctx EXCEPT !.lists[l] = [st |-> "members", members |-> members,
                              res |-> [k \in DOMAIN members |-> Undef]],
                !.reqs = @ \cup {Request("member", members[k], Absent, l) :
                                 k \in DOMAIN members}]

\* getLocalUsers' then: localUsers = users; tableData = users.map(mapTableData),
\* which the table's $onChanges takes; then its finally: loading = false
ListingResolved(ctx, l) ==
    LET L == ctx.lists[l]
        rows == [k \in DOMAIN L.members |->
                    [name |-> L.members[k], status |-> L.res[k],
                     selected |-> FALSE]]
    IN [ctx EXCEPT !.lists[l].st = "ok", !.usersSet = TRUE,
                   !.tbl = T!OnDataChange(@, rows), !.loading = FALSE]

\* mutant: loading cleared in getLocalUsers' then instead of its finally
ListingRejectedKeepsLoading(ctx, l) == [ctx EXCEPT !.lists[l].st = "failed"]

\* getLocalUsers' catch (a toast), then its finally: loading = false
ListingRejected(ctx, l) ==
    [ctx EXCEPT !.lists[l].st = "failed", !.loading = FALSE]

\* deleteUsers(users) or updateUserStatus(users, enabled): loading = true,
\* one DELETE or PATCH per user, joined by $q.all
StartBatch(ctx, kind, users, status) ==
    LET b == Len(ctx.batches) + 1
    IN [ctx EXCEPT !.loading = TRUE,
                   !.batches = Append(@, [st |-> "open", pending |-> ToSet(users)]),
                   !.reqs = @ \cup {Request(kind, users[k], status, b) :
                                    k \in DOMAIN users}]

\* $q.all settled: the then or catch toasts, then finally: getLocalUsers();
\* loading = false
BatchSettled(ctx, b, st) ==
    [GetLocalUsers([ctx EXCEPT !.batches[b].st = st]) EXCEPT !.loading = FALSE]

\* createUser's or updateUser's then: getLocalUsers(); finally: loading = false
SingleSettled(ctx, ok) ==
    [IF ok THEN GetLocalUsers(ctx) ELSE ctx EXCEPT !.loading = FALSE]

\* the callbacks an answer to r runs
OnAnswer(ctx, r) ==
    CASE r.kind = "coll" ->
            IF ~r.ok THEN ListingRejected(ctx, r.id)
            ELSE IF r.members = <<>>
                 THEN ListingResolved(GetMembers(ctx, r.id, r.members), r.id)
                 ELSE GetMembers(ctx, r.id, r.members)
      [] r.kind = "member" ->
            LET L == ctx.lists[r.id]
                k == CHOOSE j \in DOMAIN L.members : L.members[j] = r.name
                c == [ctx EXCEPT !.lists[r.id].res[k] = r.val]
            IN IF L.st # "members" THEN ctx
               ELSE IF ~r.ok THEN ListingRejected(ctx, r.id)
               ELSE IF \A j \in DOMAIN L.members : c.lists[r.id].res[j] # Undef
                    THEN ListingResolved(c, r.id)
                    ELSE c
      [] r.kind \in {"delete", "status"} ->
            LET B == ctx.batches[r.id]
                c == [ctx EXCEPT !.batches[r.id].pending = @ \ {r.name}]
            IN IF B.st # "open" THEN ctx
               ELSE IF ~r.ok THEN BatchSettled(ctx, r.id, "failed")
               ELSE IF c.batches[r.id].pending = {}
                    THEN BatchSettled(c, r.id, "ok")
                    ELSE c
      [] r.kind \in {"create", "update"} -> SingleSettled(ctx, r.ok)
      [] r.kind = "roles" -> [ctx EXCEPT !.roles = IF r.ok THEN "ok" ELSE "null"]
      [] r.kind = "settings" ->
            [ctx EXCEPT !.settings = IF r.ok THEN "ok" ELSE "null"]
      [] r.kind = "save" -> [ctx EXCEPT !.loading = FALSE]

-----------------------------------------------------------------------------
(* The BMC.                                                                *)

\* what the AccountService does with r when it does not fail: a member or
\* account that no longer exists is a 404, a POST of an existing name or a
\* rename to one fails
Applicable(r) ==
    CASE r.kind \in {"member", "delete", "status"} -> bmc[r.name] # Absent
      [] r.kind = "update" -> bmc[r.name] # Absent /\ (r.to = r.name \/ bmc[r.to] = Absent)
      [] r.kind = "create" -> bmc[r.name] = Absent
      [] OTHER -> TRUE

\* the BMC performs r (ok) or fails it without effect
Serve(r, ok) ==
    /\ r \in reqs /\ ~r.served
    /\ LET done == ok /\ Applicable(r)
       IN /\ bmc' = CASE done /\ r.kind = "delete" -> [bmc EXCEPT ![r.name] = Absent]
                      [] done /\ r.kind = "update" /\ r.to # r.name ->
                               [n \in Names |-> CASE n = r.to -> IF r.status # Absent
                                                                THEN r.status ELSE bmc[r.name]
                                                  [] n = r.name -> Absent
                                                  [] OTHER -> bmc[n]]
                      [] done /\ r.kind \in {"status", "update", "create"}
                              /\ r.status # Absent ->
                               [bmc EXCEPT ![r.name] = r.status]
                      [] OTHER -> bmc
          /\ reqs' = (reqs \ {r}) \cup
                     IF ~r.waiting THEN {} ELSE
                     {[r EXCEPT !.served = TRUE, !.ok = done,
                                !.val = IF done /\ r.kind = "member"
                                        THEN bmc[r.name] ELSE Absent,
                                !.members = IF done /\ r.kind = "coll"
                                            THEN SelectSeq(NameOrder,
                                                    LAMBDA n : bmc[n] # Absent)
                                            ELSE <<>>]}
    /\ UNCHANGED <<lists, batches, loading, usersSet, roles, settings, modal,
                   tbl, viewLoaded, clicks>>

\* the answer to r reaches the page and its callbacks run
Answer(r) ==
    /\ r \in reqs /\ r.served /\ r.waiting
    /\ SetCtx(OnAnswer([Ctx EXCEPT !.reqs = @ \ {r}], r))
    /\ UNCHANGED <<bmc, modal, viewLoaded, clicks>>

\* apiInterceptor's 20 s timeout: the page gets an error for r whether or
\* not the BMC has performed it; a request that changes the accounts and
\* that the BMC has not served yet may still be performed
TimeOut(r) ==
    /\ r \in reqs /\ r.waiting
    /\ LET late == IF ~r.served /\ r.kind \in Mutations
                   THEN {[r EXCEPT !.waiting = FALSE]} ELSE {}
       IN SetCtx(OnAnswer([Ctx EXCEPT !.reqs = (@ \ {r}) \cup late],
                          [r EXCEPT !.ok = FALSE]))
    /\ UNCHANGED <<bmc, modal, viewLoaded, clicks>>

-----------------------------------------------------------------------------
(* The user.  A modal covers the page; the loader does not.                *)

Click == clicks < MaxClicks /\ clicks' = clicks + 1

PageIdle == viewLoaded /\ modal = NoModal

\* $viewContentLoaded: getLocalUsers(); getUserRoles(); getAccountSettings()
ViewContentLoaded ==
    /\ ~viewLoaded /\ viewLoaded' = TRUE
    /\ SetCtx(Issue(Issue(GetLocalUsers(Ctx), Request("roles", Root, Absent, 0)),
                    Request("settings", Root, Absent, 0)))
    /\ UNCHANGED <<bmc, modal, clicks>>

\* initUserModal(user): returns when userRoles did not load; the modal's
\* controller reads $scope.localUsers.reduce and
\* $scope.accountSettings.AccountLockoutDuration and throws, so that no
\* modal opens, while either is unset
OpenUserModal(m) ==
    /\ PageIdle /\ roles = "ok" /\ Click
    /\ modal' = IF usersSet /\ settings = "ok" THEN m ELSE NoModal
    /\ UNCHANGED <<bmc, reqs, lists, batches, loading, usersSet, roles,
                   settings, tbl, viewLoaded>>

\* onClickAddUser
ClickAddUser == OpenUserModal(Modal("add", Root, <<>>))

\* the Edit action of row k
RowEdit(k) ==
    /\ k \in DOMAIN tbl.data
    /\ OpenUserModal(Modal("edit", tbl.data[k].name, <<>>))

\* the Delete action of row k, disabled for root: initRemoveModal([row])
RowDelete(k) ==
    /\ PageIdle /\ k \in DOMAIN tbl.data /\ tbl.data[k].name # Root /\ Click
    /\ modal' = Modal("remove", Root, <<tbl.data[k].name>>)
    /\ UNCHANGED <<bmc, reqs, lists, batches, loading, usersSet, roles,
                   settings, tbl, viewLoaded>>

\* a toolbar button: onEmitBatchAction with the table's filteredRows
BatchAction(a) ==
    LET f == T!FilteredRows(tbl)
        users == [k \in DOMAIN f |-> f[k].name]
    IN /\ PageIdle /\ users # <<>> /\ Click
       /\ IF a = "delete"
          THEN /\ modal' = Modal("remove", Root, users)
               /\ UNCHANGED <<reqs, lists, batches, loading, usersSet, roles,
                              settings, tbl>>
          ELSE /\ SetCtx(StartBatch(Ctx, "status", users,
                                    IF a = "enable" THEN "Enabled" ELSE "Disabled"))
               /\ UNCHANGED modal
       /\ UNCHANGED <<bmc, viewLoaded>>

\* the user modal's result: createUser for a name not in $scope.localUsers,
\* or updateUser(originalUsername, username, ...), the username one not in
\* existingUsernames, whose enabled is null (Absent) when the status
\* control stayed pristine; root's username and status controls are
\* disabled
SubmitUser(n, st) ==
    /\ modal.kind \in {"add", "edit"} /\ Click
    /\ LET others == {tbl.data[k].name : k \in DOMAIN tbl.data}
                        \ (IF modal.kind = "edit" THEN {modal.name} ELSE {})
           r == Request(IF modal.kind = "add" THEN "create" ELSE "update",
                        IF modal.kind = "add" THEN n ELSE modal.name, st, clicks)
       IN /\ n \notin others
          /\ modal.kind = "add" => st \in Statuses
          /\ modal.kind = "edit" /\ modal.name = Root => n = Root /\ st = Absent
          /\ SetCtx(Issue([Ctx EXCEPT !.loading = TRUE], [r EXCEPT !.to = n]))
    /\ modal' = NoModal
    /\ UNCHANGED <<bmc, viewLoaded>>

\* the remove modal's result: deleteUsers(users)
ConfirmRemove ==
    /\ modal.kind = "remove" /\ Click
    /\ SetCtx(StartBatch(Ctx, "delete", modal.users, Absent))
    /\ modal' = NoModal
    /\ UNCHANGED <<bmc, viewLoaded>>

\* a modal dismissed: its result's catch does nothing
CancelModal ==
    /\ modal # NoModal /\ Click /\ modal' = NoModal
    /\ UNCHANGED <<bmc, reqs, lists, batches, loading, usersSet, roles,
                   settings, tbl, viewLoaded>>

\* onClickAccountSettingsPolicy: the modal's controller reads
\* $scope.accountSettings and throws while it is unset
OpenSettings ==
    /\ PageIdle /\ settings = "ok" /\ Click
    /\ modal' = Modal("settings", Root, <<>>)
    /\ UNCHANGED <<bmc, reqs, lists, batches, loading, usersSet, roles,
                   settings, tbl, viewLoaded>>

\* the settings modal's result: updateAccountSettings PATCHes AccountService
SubmitSettings ==
    /\ modal.kind = "settings" /\ Click
    /\ SetCtx(Issue([Ctx EXCEPT !.loading = TRUE],
                    Request("save", Root, Absent, clicks)))
    /\ modal' = NoModal
    /\ UNCHANGED <<bmc, viewLoaded>>

\* the table's own controls
TableStep(t2) ==
    /\ PageIdle /\ Click /\ tbl' = t2
    /\ UNCHANGED <<bmc, reqs, lists, batches, loading, usersSet, roles,
                   settings, modal, viewLoaded>>

RowCheckbox(k) ==
    /\ k \in DOMAIN tbl.data /\ UserSelectable(tbl.data[k])
    /\ TableStep(T!RowCheckboxClicked(tbl, k))

HeaderCheckbox == TableStep(T!OnHeaderSelectChange(tbl))

ToolbarClose == tbl.sel # {} /\ TableStep(T!OnToolbarClose(tbl))

ClickSort(col) == Sortable /\ TableStep(T!OnClickSort(tbl, col))

-----------------------------------------------------------------------------

Init ==
    /\ bmc = [n \in Names |-> IF n \in DOMAIN InitAccounts THEN InitAccounts[n]
                                                          ELSE Absent]
    /\ reqs = {} /\ lists = <<>> /\ batches = <<>>
    /\ loading = FALSE /\ usersSet = FALSE
    /\ roles = Undef /\ settings = Undef /\ modal = NoModal
    /\ tbl = T!Fresh /\ viewLoaded = FALSE /\ clicks = 0

Rows == DOMAIN NameOrder

Next ==
    \/ ViewContentLoaded
    \/ \E r \in reqs, ok \in BOOLEAN : Serve(r, ok)
    \/ \E r \in reqs : Answer(r)
    \/ \E r \in reqs : TimeOut(r)
    \/ ClickAddUser
    \/ \E k \in Rows : RowEdit(k) \/ RowDelete(k) \/ RowCheckbox(k)
    \/ \E a \in {"delete", "enable", "disable"} : BatchAction(a)
    \/ \E n \in Names, st \in Statuses \cup {Absent} : SubmitUser(n, st)
    \/ ConfirmRemove
    \/ CancelModal
    \/ OpenSettings
    \/ SubmitSettings
    \/ HeaderCheckbox
    \/ ToolbarClose
    \/ \E col \in {0, 2} : ClickSort(col)

\* the BMC serves every request, and every request the page waits for is
\* answered or times out
Fairness == WF_vars(\E r \in reqs, ok \in BOOLEAN :
                        Serve(r, ok) \/ Answer(r) \/ TimeOut(r))

Spec == Init /\ [][Next]_vars /\ Fairness

-----------------------------------------------------------------------------
(* Properties.                                                             *)

Kinds == {"coll", "member", "delete", "status", "create", "update", "roles",
          "settings", "save"}

TypeOK ==
    /\ bmc \in [Names -> Statuses \cup {Absent}]
    /\ \A r \in reqs : r.kind \in Kinds /\ r.name \in Names
                       /\ r.served \in BOOLEAN /\ r.ok \in BOOLEAN
                       /\ r.waiting \in BOOLEAN
    /\ \A l \in DOMAIN lists : lists[l].st \in {"coll", "members", "ok", "failed"}
    /\ \A b \in DOMAIN batches : batches[b].pending \subseteq Names
    /\ loading \in BOOLEAN /\ usersSet \in BOOLEAN
    /\ roles \in {Undef, "null", "ok"} /\ settings \in {Undef, "null", "ok"}
    /\ tbl.sel \subseteq DOMAIN tbl.data 
    /\ tbl.count = Cardinality({k \in DOMAIN tbl.data : UserSelectable(tbl.data[k])})
    /\ clicks \in 0..MaxClicks

\* The root account is never removed nor enabled or disabled in a batch:
\* deleteAction is disabled for root and mapTableData makes its row
\* unselectable, so no row action and no batch action (selectAllRows and
\* the header checkbox included) puts root in deleteUsers or
\* updateUserStatus.
RootNeverDeleted == \A r \in reqs : r.kind \in {"delete", "status"} => r.name # Root

\* The page's loading indicator always goes off again: every path of
\* getLocalUsers, createUser, updateUser, deleteUsers, updateUserStatus and
\* updateAccountSettings ends in a finally that clears $scope.loading, once
\* the BMC has answered.
LoadingSettles == loading ~> ~loading

\* When nothing is in flight and the latest getLocalUsers resolved, the
\* table shows the BMC's accounts: every account with its status, and no
\* account that is gone.
TableFreshWhenSettled ==
    (reqs = {} /\ lists # <<>> /\ Last(lists).st = "ok") =>
        {<<tbl.data[k].name, tbl.data[k].status>> : k \in DOMAIN tbl.data}
            = {<<n, bmc[n]>> : n \in Existing}
=============================================================================
