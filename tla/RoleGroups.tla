------------------------------ MODULE RoleGroups ------------------------------
(***************************************************************************)
(* The role groups table of the LDAP page: the ldapUserRoles directive     *)
(* (ldap-user-roles.js), the part of ldapController's loadLdap that fills  *)
(* $scope.roleGroups, and the enabled service's RemoteRoleMapping on the   *)
(* BMC.  The directive's roleGroups is bound with '=' to the controller's   *)
(* array, and every operation builds its PATCH by putting that very array  *)
(* into the payload and changing it in place: an add appends the new group *)
(* at roleGroups.length, an edit sets the row's LocalRole, a removal sets  *)
(* the row to null.  Only the removals reload, through                      *)
(* $scope.$parent.loadLdap().                                              *)
(*                                                                         *)
(* The BMC applies a PATCH of the array the way Redfish defines it: the    *)
(* i-th element replaces the i-th member (or adds one past the end) and a  *)
(* null deletes it; members past the payload stay.  The LDAP service is    *)
(* the enabled one, so roleGroupType is 'LDAP'.                            *)
(***************************************************************************)
EXTENDS Naturals, Sequences, SequencesExt

CONSTANTS
    Groups,         \* RemoteGroup names
    Roles,          \* LocalRole names
    InitGroups,     \* the BMC's RemoteRoleMapping when the page loads
    MaxClicks       \* bound on the user's clicks

Group == [RemoteGroup : Groups, LocalRole : Roles]

\* a row of $scope.roleGroups: a group with its checkbox, or null
Row == [RemoteGroup : Groups, LocalRole : Roles, isSelected : BOOLEAN]
Null == [RemoteGroup |-> "", LocalRole |-> "", isSelected |-> FALSE]

ASSUME InitGroups \in Seq(Group) /\ MaxClicks \in Nat

VARIABLES
    bmc,            \* the BMC's RemoteRoleMapping
    reqs,           \* $http requests not yet answered
    listed,         \* whether loadLdap has set $scope.roleGroups yet
    roleGroups,     \* the controller's (and the directive's) roleGroups
    privileges,     \* whether getAccountServiceRoles filled $scope.privileges
    loading,        \* the directive's $scope.loading
    newGroup,       \* $scope.newGroup, the add and edit form
    selectedGroupIndex, \* $scope.selectedGroupIndex (0: '')
    modal,          \* the edit or remove confirmation that is open
    opened,         \* the group of the row that confirmation was opened on
    hasSelectedGroup,   \* $scope.hasSelectedGroup
    clicks          \* the user's clicks so far

vars == <<bmc, reqs, listed, roleGroups, privileges, loading, newGroup,
          selectedGroupIndex, modal, opened, hasSelectedGroup, clicks>>

\* the user-side variables a BMC step or a callback leaves alone
ui == <<newGroup, selectedGroupIndex, modal, opened, hasSelectedGroup, clicks>>

\* a request: kind load (loadLdap), roles (getAccountServiceRoles) or
\* patch (saveLdapProperties) with its op and payload; base is the list at
\* the click, same whether the row acted on is still the one its
\* confirmation was opened on, want what the user asked of the list; key
\* is the payload's roleGroupType, 'LDAP' or, before loadLdap set it, ''
Request(kind, op, payload, base, same, want) ==
    [kind |-> kind, op |-> op, payload |-> payload, base |-> base, same |-> same,
     want |-> want, key |-> "LDAP", served |-> FALSE, ok |-> FALSE, got |-> <<>>,
     waiting |-> TRUE]

NoPatch(kind) == Request(kind, "", <<>>, <<>>, TRUE, <<>>)

AsGroup(r) == [RemoteGroup |-> r.RemoteGroup, LocalRole |-> r.LocalRole]
AsRow(g) == [RemoteGroup |-> g.RemoteGroup, LocalRole |-> g.LocalRole, isSelected |-> FALSE]

\* the groups a list of rows shows: the rows that are not null
Shown(rows) == [i \in 1..Len(SelectSeq(rows, LAMBDA x : x # Null)) |->
                  AsGroup(SelectSeq(rows, LAMBDA x : x # Null)[i])]

\* the BMC's RemoteRoleMapping after a PATCH with the array p
Patched(cur, p) ==
    LET n == IF Len(p) > Len(cur) THEN Len(p) ELSE Len(cur)
        at(i) == IF i <= Len(p) THEN p[i] ELSE AsRow(cur[i])
    IN Shown([i \in 1..n |-> at(i)])

-----------------------------------------------------------------------------
(* Callbacks work on a record ctx: [reqs, listed, roleGroups, privileges,   *)
(* loading].                                                               *)

Ctx == [reqs |-> reqs, listed |-> listed, roleGroups |-> roleGroups,
        privileges |-> privileges, loading |-> loading]

SetCtx(ctx) ==
    /\ reqs' = ctx.reqs /\ listed' = ctx.listed /\ roleGroups' = ctx.roleGroups
    /\ privileges' = ctx.privileges /\ loading' = ctx.loading

\* $scope.$parent.loadLdap(): the AccountService and certificate GETs
LoadLdap(ctx) == [ctx EXCEPT !.reqs = @ \cup {NoPatch("load")}]

\* loadLdap's $q.all then sets roleGroups to the enabled service's
\* RemoteRoleMapping; a failed GET leaves the list as it was
Loaded(ctx, r) ==
    IF r.ok THEN [ctx EXCEPT !.listed = TRUE,
                             !.roleGroups = [i \in DOMAIN r.got |-> AsRow(r.got[i])]]
    ELSE ctx

\* the finally of a PATCH: loading off; after a removal, loadLdap
Saved(ctx, r) ==
    LET c == [ctx EXCEPT !.loading = FALSE]
    IN IF r.op \in {"remove", "removeMany"} THEN LoadLdap(c) ELSE c

OnAnswer(ctx, r) ==
    CASE r.kind = "load" -> Loaded(ctx, r)
      [] r.kind = "roles" -> [ctx EXCEPT !.privileges = r.ok, !.loading = FALSE]
      [] OTHER -> Saved(ctx, r)

-----------------------------------------------------------------------------
(* The BMC.                                                                *)

\* the BMC performs r (ok) or fails it without effect; a PATCH keyed ''
\* names no property of the AccountService and is refused
Serve(r, ok) ==
    /\ r \in reqs /\ ~r.served
    /\ LET done == ok /\ r.key = "LDAP"
       IN /\ bmc' = IF done /\ r.kind = "patch" THEN Patched(bmc, r.payload) ELSE bmc
          /\ reqs' = (reqs \ {r}) \cup
                     IF ~r.waiting THEN {}
                     ELSE {[r EXCEPT !.served = TRUE, !.ok = done, !.got = bmc]}
    /\ UNCHANGED <<listed, roleGroups, privileges, loading, ui>>

\* the answer to r reaches the page and its callbacks run
Answer(r) ==
    /\ r \in reqs /\ r.served /\ r.waiting
    /\ SetCtx(OnAnswer([Ctx EXCEPT !.reqs = @ \ {r}], r))
    /\ UNCHANGED <<bmc, ui>>

\* apiInterceptor's 20 s timeout: the page gets an error for r whether or
\* not the BMC performed it; a PATCH not served yet may still be
TimeOut(r) ==
    /\ r \in reqs /\ r.waiting
    /\ LET late == IF ~r.served /\ r.kind = "patch"
                   THEN {[r EXCEPT !.waiting = FALSE]} ELSE {}
       IN SetCtx(OnAnswer([Ctx EXCEPT !.reqs = (@ \ {r}) \cup late],
                          [r EXCEPT !.ok = FALSE]))
    /\ UNCHANGED <<bmc, ui>>

-----------------------------------------------------------------------------
(* The user.                                                               *)

Click == clicks < MaxClicks /\ clicks' = clicks + 1

\* the rows the table shows a button on
Rows == {i \in DOMAIN roleGroups : roleGroups[i] # Null}

\* send a PATCH of the array rows for op, the user having asked for want,
\* keyed by roleGroupType: '' until loadLdap's $q.all has set it
Patch(op, rows, same, want) ==
    /\ reqs' = reqs \cup {[Request("patch", op, rows, roleGroups, same, want)
                              EXCEPT !.key = IF listed THEN "LDAP" ELSE ""]}
    /\ roleGroups' = rows /\ loading' = TRUE

\* the selected row still holds the group its confirmation was opened on
StillOpened == selectedGroupIndex \in Rows /\ AsGroup(roleGroups[selectedGroupIndex]) = opened

\* mutant: the new group written at roleGroups.length - 1, over the last row
AddRoleGroupOverLast(g, role) ==
    /\ Click
    /\ newGroup' = [RemoteGroup |-> g, LocalRole |-> role]
    /\ Patch("add", IF roleGroups # <<>>
                   THEN [roleGroups EXCEPT ![Len(roleGroups)] = AsRow(newGroup')]
                   ELSE <<AsRow(newGroup')>>,
             TRUE, Append(Shown(roleGroups), newGroup'))
    /\ UNCHANGED <<bmc, listed, privileges, selectedGroupIndex, modal, opened,
                   hasSelectedGroup>>

\* addRoleGroup with the group typed into the form, written at
\* roleGroups.length; before loadLdap answered, roleGroups is the
\* controller's [] and roleGroupType ''
AddRoleGroup(g, role) ==
    /\ Click
    /\ newGroup' = [RemoteGroup |-> g, LocalRole |-> role]
    /\ Patch("add", Append(roleGroups, AsRow(newGroup')), TRUE,
             Append(Shown(roleGroups), newGroup'))
    /\ UNCHANGED <<bmc, listed, privileges, selectedGroupIndex, modal, opened,
                   hasSelectedGroup>>

\* editGroupFn opens the edit form on row i, and the user picks a role
EditGroupFn(i, role) ==
    /\ Click /\ modal = "none" /\ i \in Rows
    /\ modal' = "edit" /\ selectedGroupIndex' = i /\ opened' = AsGroup(roleGroups[i])
    /\ newGroup' = [RemoteGroup |-> roleGroups[i].RemoteGroup, LocalRole |-> role]
    /\ UNCHANGED <<bmc, reqs, listed, roleGroups, privileges, loading, hasSelectedGroup>>

\* editRoleGroup sets the selected row's LocalRole in place and PATCHes
EditRoleGroup ==
    /\ Click /\ modal = "edit"
    /\ LET i == selectedGroupIndex
       IN IF i \in Rows
          THEN Patch("edit", [roleGroups EXCEPT ![i].LocalRole = newGroup.LocalRole], StillOpened,
                     [Shown(roleGroups) EXCEPT ![i].LocalRole = newGroup.LocalRole])
          ELSE loading' = TRUE /\ UNCHANGED <<reqs, roleGroups>>
    /\ modal' = "none"
    /\ UNCHANGED <<bmc, listed, privileges, newGroup, selectedGroupIndex, opened,
                   hasSelectedGroup>>

\* removeGroupFn opens the removal confirmation for row i
RemoveGroupFn(i) ==
    /\ Click /\ modal = "none" /\ i \in Rows
    /\ modal' = "remove" /\ selectedGroupIndex' = i /\ opened' = AsGroup(roleGroups[i])
    /\ UNCHANGED <<bmc, reqs, listed, roleGroups, privileges, loading, newGroup,
                   hasSelectedGroup>>

\* removeRoleGroup sets the selected index to null (past the end of a list
\* a reload shortened, the holes between are sent as null too)
RemoveRoleGroup ==
    /\ Click /\ modal = "remove"
    /\ LET i == selectedGroupIndex
           rows == [j \in 1..(IF i > Len(roleGroups) THEN i ELSE Len(roleGroups)) |->
                      IF j = i \/ j > Len(roleGroups) THEN Null ELSE roleGroups[j]]
       IN Patch("remove", rows, StillOpened, IF i \in Rows THEN Shown([roleGroups EXCEPT ![i] = Null])
                                ELSE Shown(roleGroups))
    /\ modal' = "none"
    /\ UNCHANGED <<bmc, listed, privileges, newGroup, selectedGroupIndex, opened,
                   hasSelectedGroup>>

\* a row's checkbox, then roleGroupIsSelectedChanged
SelectRow(i) ==
    /\ Click /\ i \in Rows
    /\ roleGroups' = [roleGroups EXCEPT ![i].isSelected = ~@]
    /\ hasSelectedGroup' = \E j \in DOMAIN roleGroups' : roleGroups'[j].isSelected
    /\ UNCHANGED <<bmc, reqs, listed, privileges, loading, newGroup,
                   selectedGroupIndex, modal, opened>>

\* the first null row of a list, Len + 1 if none
FirstNull(rows) == IF \E i \in DOMAIN rows : rows[i] = Null
                   THEN CHOOSE i \in DOMAIN rows : rows[i] = Null /\ \A j \in 1..(i - 1) : rows[j] # Null
                   ELSE Len(rows) + 1

\* toggleAll sets every row to !$scope.all (v); a null row throws and
\* leaves the rows after it as they were
ToggleAll(v) ==
    /\ Click /\ listed
    /\ roleGroups' = [i \in DOMAIN roleGroups |->
                        IF i < FirstNull(roleGroups) THEN [roleGroups[i] EXCEPT !.isSelected = v]
                        ELSE roleGroups[i]]
    /\ UNCHANGED <<bmc, reqs, listed, privileges, loading, newGroup,
                   selectedGroupIndex, modal, opened, hasSelectedGroup>>

\* removeMultipleRoleGroups PATCHes the list with the selected rows null;
\* group['isSelected'] of a null row throws after loading was set
RemoveMultipleRoleGroups ==
    /\ Click /\ listed /\ modal = "none"
    /\ IF FirstNull(roleGroups) > Len(roleGroups)
       THEN Patch("removeMany",
                  [i \in DOMAIN roleGroups |-> IF roleGroups[i].isSelected THEN Null ELSE roleGroups[i]],
                  TRUE, Shown(SelectSeq(roleGroups, LAMBDA x : ~x.isSelected)))
       ELSE loading' = TRUE /\ UNCHANGED <<reqs, roleGroups>>
    /\ UNCHANGED <<bmc, listed, privileges, newGroup, selectedGroupIndex, modal, opened,
                   hasSelectedGroup>>

\* the LDAP page's $viewContentLoaded runs loadLdap; the directive asks
\* for the roles with its loader on
Init ==
    /\ bmc = InitGroups
    /\ reqs = {NoPatch("load"), NoPatch("roles")}
    /\ listed = FALSE /\ roleGroups = <<>> /\ privileges = FALSE /\ loading = TRUE
    /\ newGroup = [RemoteGroup |-> "", LocalRole |-> ""] /\ selectedGroupIndex = 0
    /\ modal = "none" /\ opened = AsGroup(Null) /\ hasSelectedGroup = FALSE /\ clicks = 0

Next ==
    \/ \E r \in reqs, ok \in BOOLEAN : Serve(r, ok)
    \/ \E r \in reqs : Answer(r) \/ TimeOut(r)
    \/ \E g \in Groups, role \in Roles : AddRoleGroup(g, role)
    \/ \E i \in DOMAIN roleGroups, role \in Roles : EditGroupFn(i, role)
    \/ EditRoleGroup
    \/ \E i \in DOMAIN roleGroups : RemoveGroupFn(i) \/ SelectRow(i)
    \/ RemoveRoleGroup
    \/ \E v \in BOOLEAN : ToggleAll(v)
    \/ RemoveMultipleRoleGroups

\* the BMC and $http: a request is eventually served, answered or timed out
Fairness ==
    WF_vars(\E r \in reqs, ok \in BOOLEAN : Serve(r, ok) \/ Answer(r) \/ TimeOut(r))

Spec == Init /\ [][Next]_vars /\ Fairness

-----------------------------------------------------------------------------
(* Properties.                                                             *)

TypeOK ==
    /\ bmc \in Seq(Group) /\ roleGroups \in Seq(Row \cup {Null})
    /\ listed \in BOOLEAN /\ privileges \in BOOLEAN /\ loading \in BOOLEAN
    /\ modal \in {"none", "edit", "remove"} /\ clicks \in 0..MaxClicks

\* A role-group PATCH that the BMC performs on the very list the page
\* showed at the click, keyed by the LDAP service, with no removed (null) row left in it, makes the
\* BMC's RemoteRoleMapping what the user asked: the list with the typed
\* group appended, the row's role changed, the row or the selected rows
\* gone.  addRoleGroup, editRoleGroup and the two removals build the
\* payload by changing $scope.roleGroups in place, and the whole array is
\* written back.
RoleGroupPatchFaithful ==
    [][\A r \in reqs :
         (/\ Serve(r, TRUE) /\ r.kind = "patch" /\ r.key = "LDAP" /\ r.same
          /\ \A i \in DOMAIN r.base : r.base[i] # Null
          /\ Shown(r.base) = bmc)
           => bmc' = r.want]_vars
=============================================================================
