# TLA+ models of the OpenBMC web UI: virtual media, power, firmware, accounts, LDAP and its role groups, certificates, network, SNMP, remote logging, event log, login and date/time

This directory holds TLA+ specifications of the parts of the repository that
have real protocol and concurrency behaviour, the TLC configurations that
check them, and `PROJECT.json`, which lists the components, the runs, the
mutants, the code each definition models ("map"), the findings and the
hazards.

## 1. Inventory

### Components

| Component | Source | Modules | Status |
|---|---|---|---|
| NBD protocol engine (`NBDServer` of jsnbd) | `src/openbmc_modules/jsnbd/web/js/nbd.js` | `NBDProtocol`, `NBDServer`, `NBDAbstract`, `NBDWire` | modelled |
| Copy of `NBDServer` in the virtual-media controller | `.../server-control/controllers/virtual-media-controller.js` lines 73-396 | `VirtualMedia` (lifecycle); the handlers are those of `NBDServer` | partly |
| Virtual media controller and `nbdServerService` | `virtual-media-controller.js` lines 1-71, `common/services/nbdServerService.js` | `VirtualMedia` | modelled |
| Host power operations and the header's host-state display | `power-operations-controller.js`, `common/directives/app-header.js` | `HostPower` | partly |
| Firmware update page | `configuration/controllers/firmware-controller.js` | `Firmware` | partly (no TFTP download) |
| User accounts page and the `bmcTable` component | `access-control/controllers/user-controller.js`, `common/components/table/table.js`, `table-checkbox.js`, `table-toolbar.js` | `UserAccounts`, `BMCTable` | modelled (the other page controllers are not) |
| LDAP settings page | `access-control/controllers/ldap-controller.js` | `Ldap` | modelled (useSSL, certificate contents and toasts abstracted) |
| LDAP role groups table | `common/directives/ldap-user-roles.js`, `ldap-controller.js` 77-85 and 289-297 | `RoleGroups` | modelled (sorting and the modal templates left out) |
| Login, logout and the session | `login/controllers/login-controller.js`, `common/services/userModel.js`, `index.js` 189-231, `app-header.js` 119-155, `api-utils.js` 490-533, `apiInterceptor.js` 47-68 | `Session` | partly (phosphor-webui only; webui-vue's Authentication store is not modelled) |
| Certificate management page | `access-control/controllers/certificate-controller.js`, `common/directives/certificate.js` | `Certificates` | modelled (modal templates, CSR fields and display helpers abstracted) |
| Network settings page | `configuration/controllers/network-controller.js` | `Network` | modelled (one interface; setting values abstracted) |
| Date and time settings page | `configuration/controllers/date-time-controller.js` | `DateTime` | modelled (dates, server lists abstracted; timezone display left out) |
| SNMP settings page | `configuration/controllers/snmp-controller.js` | `Snmp` | modelled (addresses and ports abstracted) |
| Event log page and the header's server health | `server-health/controllers/log-controller.js`, `app-header.js` 70-74 and 119-142, `dataService.js` 95-108, `api-utils.js` 841-917 and 1642-1679 | `EventLog` | modelled (filters, search and export are display only) |
| Remote logging server element | `server-health/directives/remote-logging-server.js`, `api-utils.js` 1680-1738 | `RemoteLogging` | modelled (its host page and templates are absent) |
| Routed views (`access-control/index.js`, `server-control/index.js`, `configuration/index.js`) | the ngRoute routes of the nine pages, the remote logging element, the LDAP role groups table and the login view composed | `WebUIPages` | modelled |
| REST client `APIUtils`, HTTP interceptor, data service | `common/services/api-utils.js`, `apiInterceptor.js`, `dataService.js` | `HostPower`, `Firmware`, `UserAccounts`, `Ldap`, `Certificates`, `Network`, `DateTime`, `Snmp`, `RemoteLogging`, `EventLog` (the requests those pages make) | partly |
| Vuex stores, event-subscription plugin, consoles, other page controllers, D-Bus browser, build config | the other files under `src/` | none | not modelled (see section 5) |

### How the parts interact

All of this code runs on the browser's single event-loop thread. Every
callback (a WebSocket event, an `$http` answer or error, an `$interval`
firing, a FileReader completion, a user click) runs to completion, so each
is one atomic action of a module. Concurrency comes from the order in which
these callbacks are dispatched and from the BMC, which serves and answers
requests in any order.

* Virtual media: the page (`virtualMediaController`) builds an `NBDServer`
  for each `startVM` and hands it to `nbdServerService`, which outlives the
  controller; `findExistingConnection` restores the device when the user
  comes back. The server speaks NBD over a WebSocket: `onopen` sends the
  greeting, `onmessage` appends the chunk to `msgbuf` and runs the handler of
  the current state until it needs more bytes, READs complete later in a
  FileReader callback.
* Power: `powerOperationsController` runs a promise chain of PUTs and
  `checkHostStatus` waits, an `$interval` comparing `dataService.server_state`
  with a target. That field is written by the header's `loadServerStatus`,
  a GET issued whenever the `/subscribe` WebSocket reports a change.
* Firmware: `activateConfirmed` PUTs `RequestedActivation`, then
  `waitForActive` polls the image's Activation with an `$interval` kept in
  the one controller variable `pollActivationTimer`, then the reboot step
  reboots the BMC or powers on/reboots the host. Upload, delete and priority
  changes each send one request and reload the list.
* User accounts: `getLocalUsers` GETs the Accounts collection, then every
  member, joined by `$q.all`, and hands the rows to the `bmcTable`
  component, whose `$onChanges` resets its selection. The table's
  checkboxes, header checkbox and toolbar select rows; a batch action
  (Remove, Enable, Disable) or a row action opens a modal or calls
  `deleteUsers`/`updateUserStatus` directly, which join one DELETE or PATCH
  per user with `$q.all` and refresh the table in `finally`.
* LDAP role groups: the `ldapUserRoles` directive shares `roleGroups`
  with `ldapController` through a two-way binding; each operation puts
  that array, changed in place, into a PATCH of the AccountService, and
  the removals call the controller's `loadLdap` again.
* Session: `LoginController.login` POSTs `/login`; the answer's cookie
  goes with every later request. `app.run` guards the authenticated routes
  with `userModel.isLoggedIn()`, and `apiInterceptor` turns any 401 away
  from `/login` into `'timedout-user'`, which clears the login and routes
  to `/login`. The header's `loadData` runs at start and on
  `'user-logged-in'`; its logout POSTs `/logout`.

## 2. Modules

| Module | Models |
|---|---|
| `NBDWire.tla` | the JavaScript number conversions of the wire format (`ToUint32`, `ToInt32`, `&`, the size words) with the word width as a parameter |
| `NBDProtocol.tla` | the NBD constants, message sets and frames shared by the two NBD levels |
| `NBDServer.tla` | the `NBDServer` object at the byte level: its WebSocket, `msgbuf`, FileReaders, and the remote client as the environment |
| `NBDAbstract.tla` | the same object at the level of whole messages: what the engine promises |
| `VirtualMedia.tla` | the virtual-media controller, `nbdServerService` and the lifecycle of each `NBDServer` and its socket |
| `HostPower.tla` | the power operations, their `checkHostStatus` intervals, the `/subscribe` socket, `loadServerStatus` and the interceptor |
| `Firmware.tla` | the firmware page's activation chain, uploads, deletions, priority changes and the BMC's software objects |
| `BMCTable.tla` | the `bmcTable` component's controller: each operation maps the table's state to the state after the call |
| `UserAccounts.tla` | the user accounts page, its `APIUtils` calls and the BMC's AccountService, with a `BMCTable` instance for the table |
| `Ldap.tla` | the LDAP settings page: `loadLdap` with its certificate GETs, the save's two chained PATCHes, `updateServiceEnabled`, and the BMC's two directory services |
| `Certificates.tla` | the certificate page: `loadCertificates` with its location and certificate GETs, `isExpiring` against `getBmcTime`, uploads, the directive's delete and replace, CSR generation |
| `Network.tla` | the network page: `loadNetworkInfo`, the form, `ipv4sToDelete`, `setNetworkSettings` with its PUTs, deletes, `updateIPV4` chains and adds, the reload `$timeout`, and the BMC's interface |
| `Snmp.tla` | the SNMP page: the load, adding, editing and removing managers, `setSNMP` with its POSTs, PUTs and Deletes under one `$q.all`, the refresh on success, and the BMC's manager objects |
| `RemoteLogging.tla` | the remote logging server element: its load, the modal's add, edit and remove, `setRemoteLoggingServer`'s two PUTs under `$q.all`, `updateRemoteLoggingServer`'s disable-then-set chain with its retry, and the BMC's rsyslog Address and Port |
| `EventLog.tla` | the event log page: `loadLogs`, row selection, `accept` with `deleteLogs`, `resolve` with `resolveLogs`, the header's `loadServerHealth` and refresh, `updateServerHealth`, and the BMC's logging entries |
| `WebUIPages.tla` | the routed views: one of the user accounts, power operations, virtual media, LDAP, firmware, certificate, network, SNMP and event log pages, the remote logging element, the role groups table or the login view is shown, and only its model takes steps |
| `RoleGroups.tla` | the LDAP role groups table: add, edit, remove, multiple remove, row selection, toggle-all, the reload after removals, and the BMC's `RemoteRoleMapping` |
| `Session.tla` | login, logout, the route guard, `'timedout-user'`, the interceptor's 401/403/-1 branches, the header's `loadData`, and the BMC's sessions |
| `DateTime.tla` | the date and time page: the load, the form, `saveDateTimeSettings`' PUT chain and its 20 s `$timeout` running `setDateTime`, `$route.reload()` with the old controller's callbacks, and the BMC's time manager |
| `MCNBDServer.tla`, `MCDateTime.tla`, `MCFirmware.tla`, `MCUserAccounts.tla`, `MCLdap.tla`, `MCCertificates.tla`, `MCNetwork.tla`, `MCRemoteLogging.tla`, `MCEventLog.tla`, `MCRoleGroups.tla`, `MCWebUIPages.tla` (and `MCSession.cfg`, which sets `Session`'s two constants directly) | constant values for the runs and for each page checked alone; `MCNBDServer` also states the export-size round trip |

### `NBDServer` and `NBDAbstract`

Variables of `NBDServer`: `state`, `msgbuf` (null is the empty sequence),
`cflags`, `ws` (which connection `this.ws` is), `sock` (each socket's
readyState), `reads` (FileReaders whose callback has not run), `out` (the
frames each socket carried); the client's side is `sent`, `pending` (bytes
not yet delivered) and `cphase`.

| Action | Code (`nbd.js`) |
|---|---|
| `Start` | `start()` (62-69) |
| `Stop` | `stop()` called by the page (71-75) |
| `WsOpen` | `_on_ws_open` and `_negotiate` (84-90, 134-152) |
| `WsClose` | the socket fails or the peer closes it; no handler (62-69) |
| `WsMessage(c, n)` | `_on_ws_message` with the first `n` pending bytes, the whole handler loop `Pump` included (92-132) |
| `ReadDone(r, ok)` | `reader.onload` / `reader.onerror` (328-341) |
| `ClientSend(c)` | the remote client writes one whole message |

Every byte is a record `[c, m, k]` (byte `k` of message `m` of connection
`c`) and message lengths are the real wire lengths. A handler reading a
header from the first bytes of a message gets its fields; from other bytes it
gets `Garbage`, whose magic never matches. A request's handle is its message
index; reply frames carry a ghost `src`, the connection of the request.
Offsets are exact and `MAX_SAFE_INTEGER` is scaled to 3.

`NBDAbstract` has the same variables except that `msgbuf` and `pending` are
replaced by `consumed[c]`, the number of messages of `c` the server has
taken; one `Receive(c)` step takes any number of whole messages in order,
each handled by the handler of the state it is in (`Serve`, `Deliver`).
`NBDServer!Abs` maps `consumed` to the index before the first message still
in `msgbuf` or pending (`Consumed`), so a byte step that completes no
message is a stuttering step of the abstract specification. The refinement
is checked as `ImplementsAbstractSafety` (the safety part, on the large
transmission model) and `ImplementsAbstract` (with the abstract fairness,
on the small liveness model). It states spec section 3's "any chunking of the
incoming stream yields the same responses".

### `VirtualMedia`

`device` is `$scope.devices[0]`, `srvMap` the service's entry, `nbdState` and
`ready` the state and readyState of each server object. Actions: `Reload`
(a new controller and `findExistingConnection`), `ChooseFile`, `ResetFile`,
`StartVM`, `StopVM`, and per server `WsOpen`, `ProtocolStop` (DISC or a
handler error), `WsFail` (the BMC closes or the socket fails) and `WsClosed`
(a close handshake completes).

### `HostPower`

`prog` is the remaining steps of the operation's promise chain, `reqs` the
requests in flight, `intervals` the `checkHostStatus` intervals, `host` the
real host state, `serverState` `dataService.server_state`. Actions:
`StartOp(op)` (one of the five operations), `Serve`, `Answer`, `TimeOut`
(the interceptor's `response`/`responseError` with the callbacks they
resolve), `HostStep` (the host finishes a transition), `OnHostEvent` (the
`/subscribe` message that issues `loadServerStatus`), `SubscriptionClose`,
`IntervalFires` (the interval body `Tick`).

### `Firmware`

`act` is each software object's Activation on the BMC, `fw` the page's list,
`sel`/`rebootOpt`/`confirm` the modal's scope fields, `reqs` the requests in
flight (a bag: two alike pending requests are interchangeable), `chain` the
step of each confirmed activation, `timers` the running `waitForActive`
intervals with the ticks they have run, `pollVar` `pollActivationTimer`,
`reboots` the reboots the page sent (with a ghost flag: was the image
Active?). Actions:

| Action | Code (`firmware-controller.js`) |
|---|---|
| `ActivateImage(i, rb)` | `activateImage` (49-54), the reboot checkbox |
| `CancelModal` | the modal dismissed |
| `ActivateConfirmed(c)` | `activateConfirmed` (95-105, 141) |
| `Upload(i)` | `upload` (177-196) |
| `Modify(kind, i)` | `confirmDeleteImage`, `confirmChangePriority` (280-309) |
| `Serve(r, ok)` | the BMC performs or refuses a request |
| `ActivationEnds(i)` | the BMC's activation ends Active or Failed |
| `Answer(r, off)`, `TimeOut(r, off)` | the answer or error callbacks (`OnAnswer`), up to the reboot step (`RebootStep`, 116-172) |
| `IntervalFires(t, off)` | one firing of `waitForActive`'s interval (`Tick`, 59-91) |

The callbacks read `$scope.activate_image_id`, `activate_image_type` and
`activate.reboot` when they run, as the code does. `off` is what
`dataService.server_state` shows should the reboot step run. A GET that
timed out before the BMC served it is dropped (serving it changes nothing);
a PUT, POST or DELETE that timed out may still be performed. The
`deferred.reject(error)` of the Failed branch throws (`error` is unbound),
so that branch cancels the interval and never settles the deferred.

### `UserAccounts` and `BMCTable`

`BMCTable` is a module of operators on one record, the table controller's
state: `data` (the rows in display order), `sel` (`selectedRows`, a set of
row indices), `header`, `some`, `asc`, `activeSort` and `count`
(`selectableRowCount`). `UserAccounts` instantiates it as `T` with
`mapTableData`'s `selectable` (not root) and the sort keys of the name and
status columns, and keeps the table in the variable `tbl`.

`bmc` is each account's status on the BMC (or absent), `reqs` the requests
in flight, `lists` each `getAllUserAccounts` call with its members and
results, `batches` each `$q.all` of a batch action, and `loading`,
`usersSet`, `roles`, `settings`, `modal` the controller's scope fields.
An account is its name and Enabled status; roles, passwords and lockout are
left out. Actions:

| Action | Code |
|---|---|
| `ViewContentLoaded` | `$viewContentLoaded` (471-478): `getLocalUsers`, `getUserRoles`, `getAccountSettings` |
| `ClickAddUser`, `RowEdit(k)` | `onClickAddUser`, the Edit row action, `initUserModal` (297-357) |
| `RowDelete(k)` | the Delete row action, disabled for root (431-436) |
| `BatchAction(a)` | `onEmitBatchAction` (438-455) with `filteredRows` (`table.js` 190-194) |
| `SubmitUser(n, st)` | the user modal's result: `createUser`, or `updateUser(originalUsername, username, ...)`, which may rename the account to a name not in `existingUsernames`; root's username and status controls are disabled (321-394) |
| `ConfirmRemove`, `CancelModal` | the remove modal's result, `deleteUsers` (159-191); a dismissed modal |
| `OpenSettings`, `SubmitSettings` | `initAccountSettingsModal`, `updateAccountSettings` (237-295) |
| `RowCheckbox(k)`, `HeaderCheckbox`, `ToolbarClose`, `ClickSort(col)` | the table's `onRowSelectChange`, `onHeaderSelectChange`, `onToolbarClose`, `onClickSort` |
| `Serve(r, ok)` | the BMC performs a request or fails it; a member, DELETE or PATCH of a missing account and a POST of an existing one fail |
| `Answer(r)`, `TimeOut(r)` | the answer, or the interceptor's 20 s timeout, runs the callbacks (`OnAnswer`) |

The modal controllers of `initUserModal` and `initAccountSettingsModal`
read `$scope.localUsers` and `$scope.accountSettings` unguarded; the model
opens no modal while they are unset. The templates (`*.html`) are not in
the repository: the model assumes, as the jsdoc of `onRowSelectChange`
says, that a row checkbox passes the row's index, that the loader does not
block the page while a modal does, and that the toolbar shows only with a
selection.

### `Ldap`

`bmc` is the BMC's two services (`LDAP`, `ActiveDirectory`), each with its
`ServiceEnabled` flag and its settings (one model value of `Configs`
standing for addresses, base DN, bind DN and role groups). `loads` holds one
record per `loadLdap` call: whether the AccountService GET answered, the
properties it produced and the state of the two `getCertificate` chains;
`ldapProperties` and `originalLdapProperties` are the scope's copies, with
`def = FALSE` for the `undefined` a failed GET resolves with. `disabledFor`
is a ghost: the saves whose disable the BMC performed.

| Action | Code (`ldap-controller.js`) |
|---|---|
| `ViewContentLoaded` | `$viewContentLoaded` (25-27), `loadLdap` (29-76) |
| `EditForm(t, c)`, `CheckService` | the form's fields and its enable checkbox (ng-model), `updateServiceEnabled` with the box checked (135-140) |
| `UncheckService` | `updateServiceEnabled` with the box cleared (135-157): the toggle PATCH |
| `SaveLdapSettings` | `saveLdapSettings` (94-106): the disable of the other service first |
| `Serve(r, ok)` | the BMC performs or fails a GET or PATCH |
| `Answer(r)`, `TimeOut(r)` | the callbacks (`OnAnswer`: 103-157, `getCertificate` 164-179, `$q.all` 77-85) |

The template (`ldap.html`) is not in the repository; the model assumes the
loader covers nothing (the form stays usable while a load is in flight),
that Save needs a service type chosen, and that the settings can be edited
only with the enable box checked.

### `Certificates`

`bmc` maps each certificate location to the expiry class of the
certificate there (`expired`, `expiring` within 30 days, `valid`, against
the BMC's time) or `absent`; `LocType` gives its type. `certificates` is
`$scope.certificates` as a bag of shown entries (location, the class read,
`isExpired`, `isExpiring`): the `finally`'s sort orders the list and no
property reads the order. `loads` holds each `loadCertificates` call: the
locations GET, then the certificate GETs still pending before its `$q.all`
settles. `bmcTime` says whether `$scope.bmcTime` is set.

| Action | Code |
|---|---|
| `Init` | the controller's constructor and its `loadCertificates()` (17-45, 296) |
| `ViewContentLoaded` | `$viewContentLoaded`, `getBmcTime` (28-30, 271-277) |
| `UploadCertificate(t, pem, e)` | `uploadCertificate` (81-103) of a file of type `t` |
| `DeleteCert(l)` | the directive's remove modal and `deleteCert` (`certificate.js` 38-95), TrustStore only |
| `ReplaceCertificate(l, pem, e)` | the directive's `replaceCertificate` (97-133) |
| `GetCSRCode`, `CloseCSR` | `getCSRCode` and the download modal (147-199), `resetCSRModal` (239-257) |
| `Serve(r, ok)` | the BMC performs or fails a request; an upload needs a free location of its type |
| `Answer(r)`, `TimeOut(r)` | the callbacks (`OnAnswer`, `CertResolved`, `Settle`: 38-113) |

### `Network`

`bmc` is the interface on the BMC: each scalar setting (`Fields`: MAC
address, default gateway, hostname, DNS servers, each compared with the
last load and PUT when it differs), `DHCPEnabled` and the static IPv4
addresses. An address's object id is derived from the address (the
enumerate's `ipv4/<hash>`), so the model names an address by its id and an
address added again gets its old id. `ds` is what the last load left in
`dataService` and `$scope.oldInterface`, `form` is `$scope.interface` with
`hostname` and `defaultGateway`: its `ipv4` values carry an id (`NoId` for
one added on the page), an address (`Bad` for any value `validIPV4IP` or
the prefix check refuses, the empty new field included) and the update
flag. `saves` holds each `setNetworkSettings`: its `$q.all` (`open`, with
the number of parts pending, then `timer` for the armed reload, `done`,
`failed`, or `none` when it returned early or had nothing to wait for), and
as ghosts the form's addresses and whether no other save had a request
outstanding when it was clicked.

| Action | Code (`network-controller.js`) |
|---|---|
| `Init` | the constructor's `loadNetworkInfo()` (18-30) |
| `EditForm` | a setting typed or a DNS field added or removed (40-46), DHCP switched, an address typed (sets its update flag) |
| `AddIpv4Field`, `RemoveIpv4Address(i)` | `addIpv4Field` (48-51), `removeIpv4Address` (53-60) |
| `SetNetworkSettings` | `setNetworkSettings` (62-140): the PUTs, `removeIPV4s` (an array `$q.all` does not wait on), the values in order up to the first invalid one, `updateIPV4` or `addIPV4` (`UpdateOrAdd`) |
| `Refresh` | `refresh` (280-282) |
| `Serve(r, ok)` | the BMC performs or fails a GET, PUT or POST; a DELETE of an address it does not hold fails |
| `Answer(r)`, `TimeOut(r)` | the callbacks (`OnAnswer`: 169-278, `updateIPV4`'s chained add with the address `$scope.interface.ipv4.values[index]` holds when the delete answers (264-266; a value no longer there throws and rejects the chain), `PartSettled`: the `$q.all`, 141-166; `Loaded`: 284-310) |
| `TimerFires(s)` | the reload `$timeout` (154-158): `loadNetworkInfo`, loading off, the saved toast |

The view (`network.html`) is not in the repository: the model lets the
user act only once a load has set the interface (before it,
`$scope.interface` is `{}` and `setNetworkSettings` throws at line 69),
and at any time after, a save in progress included.

### `DateTime`

`bmc` is the time manager's state: `TimeSyncMethod`, `TimeOwner`, the NTP
server list and the BMC's and host's clocks (`Dates`, to the second, since
the page drops milliseconds). It refuses a value not in its enumeration
(the page sends `...Method.` with an empty mode before a load) and a time
set while NTP synchronises it, except the host's in Split mode, as the
comment at lines 82-91 and the time manager's README describe. `$route.reload()`
builds a new controller while the old one's requests and `$timeout` stay
pending, so `forms`, `loadings` and `loads` hold one scope per controller
(`gen` is the one shown). `saves` holds each `saveDateTimeSettings`: the
chain's stage, whether it took the Manual/Split branch, whether its
`$timeout` is still armed, the time PUTs its `$q.all` waits on, and the
toast.

| Action | Code (`date-time-controller.js`) |
|---|---|
| `Init`, `Refresh` | the constructor (12-80): both GETs and the `$q.all` finally; `refresh` (154-156) |
| `EditForm` | mode, owner, a date typed; `addNTPField`/`removeNTPField` (158-164) |
| `SaveDateTimeSettings` | `saveDateTimeSettings` (92-116): loading, `setTimeMode`, the `$timeout` armed at once in the Manual/Split branch |
| `TimerFires(s)` | `setDateTime` (118-152) on its controller's scope: the BMC and host time PUTs, the `TypeError` of an undefined date, the `$q.all` |
| `Serve`, `Answer`, `TimeOut` | the BMC, and the callbacks: `ChainStep` (the chain, each step reading the scope when it runs), `TimeSettled`, `LoadSettled`, `TimeLoaded` |

The page is not part of `WebUIPages`: its loader really does not settle
(an undefined date, a failed chain in the Manual branch), so it cannot
join `PagesSettle`.

### `Snmp`

`mgrs` is the BMC's SNMP manager objects, by id; the Client action
creates one with the next id (`lastId`, bounded by `MaxIds`), and a PUT or
Delete of an object the BMC does not hold fails. `managers` and
`toDelete` are the shown controller's `$scope.managers` (path, address,
port and the two update flags) and `managersToDelete`; `gen` counts the
controllers `$route` built, so a late answer to an older controller's
request changes nothing shown. `loaded` records whether the list was
filled and from which BMC state; `saves` holds each `setSNMP`'s `$q.all`
with ghosts for the property (the list saved as a bag of entries, whether
it was the controller's first save, whether no other change was
outstanding).

| Action | Code (`snmp-controller.js`) |
|---|---|
| `Init` | the constructor (12-40): `getSNMPManagers`, its callbacks and finally |
| `AddNewSNMPManager`, `RemoveSNMPManager(i)` | `addNewSNMPManager` (42-44), `removeSNMPManager` (46-53) |
| `EditManager(i)` | an address or port typed; the view sets the update flag |
| `SetSNMP` | `setSNMP` (59-115): the empty-field early return, `SaveRequests` (72-100), the `$q.all` |
| `Refresh` | `refresh` (55-57) |
| `Serve`, `Answer`, `TimeOut` | the BMC, and the callbacks: `Loaded`, `PartSettled` (the `$q.all`, whose success refreshes), `SaveEnded` (its finally) |

`SnmpSavedTruthful` is stated for a controller's first save from a list
loaded from the managers the BMC still held at the click: a later save
sends again the POST of a manager the BMC created while the page timed
out, and what the BMC does with it (a duplicate or a refusal) is
phosphor-snmp's behaviour, outside the repository (see the hazards).

### `RemoteLogging`

`bmc` is the BMC's `logging/config/remote` object (Address and Port; ''
and 0 when disabled). `remoteServer`, `form`, `loadError`, `loading` are
the element's scope; `Undef` is an undefined server and a form `{}`, whose
fields are undefined and are sent as such (the BMC refuses them). `modal`
is the open modal; it closes as its action starts, so the actions of
several modals overlap. `ops` holds each action: its kind, which `$q.all`
of its chain is open (`step`: the first set, the disable, the set after a
disable that succeeded, the set in the `catch`), how many of its two PUTs
are still to resolve, and a ghost `alone` (no other request outstanding
at its toast).

| Action | Code |
|---|---|
| `Init`, `Loaded` | the scope (41-46) and `$onInit` (141-151) with `getRemoteLoggingServer` (api-utils 1700-1722) |
| `InitModal(type)` | `initModal` (48-62) |
| `TypeServer(e)` | the modal's inputs, bound to `remoteServerForm` (the template is absent) |
| `CloseModal` | the modal's result (63-77): `addServer` (85-87), `editServer` (103-105), `removeServer` (120-122) |
| `DismissModal` | the result's catch (78-82), `setFormValues` |
| `Serve`, `Answer`, `TimeOut` | the BMC and the callbacks: `PartSettled` (the `$q.all` of api-utils 1697-1698), `Settled` (`updateRemoteLoggingServer`'s then and catch, 1726-1738), `Ended` (the three actions' then and catch, 88-134) |

`RemovedTruthful` states that a removal that toasts success with nothing
else outstanding leaves the BMC disabled and the element showing no
server. The same statement for an edit is false, see the hazards.

### `EventLog`

`bmc` is the BMC's logging entries (id to Resolved); `Priority` gives
the priority `getLogs` maps each entry's Severity to. `logs` is the shown
controller's `$scope.logs` (Resolved and the row's `selected`), `shown`
numbers the `getLogs` answer it holds (an item object belongs to one
answer), `gen` counts the controllers built by the header's refresh.
`batches` holds each `deleteLogs` and `resolveLogs` `$q.all` with the
entries and the list it was sent from. `health` is
`dataService.server_health`; `healthFrom` is the ghost of the entries it
was computed from.

| Action | Code |
|---|---|
| `Init` | the controller (19-54, 207) and the header's `loadData` (app-header 119-127) |
| `SelectRow(id)`, `SelectAll(v)` | a row's checkbox and `$watch('all')` (157-161); `SelectedEvents` is `$watch('logs')` (200-205) |
| `Accept` | `accept` (174-179): `deleteLogs` (api-utils 1642-1663) |
| `Resolve` | `resolve` (181-198): `resolveLogs` (api-utils 1665-1679) |
| `Refresh` | the header's `refresh` (app-header 139-142): `loadServerHealth` and `$route.reload()` |
| `Serve`, `Answer`, `TimeOut` | the BMC and the callbacks: `Loaded` (`loadLogs`' then 58-73, `loadServerHealth`'s then), `PartSettled` (the two `$q.all`) |

`updateServerHealth` is `HealthLoop`, a recursive operator over the
entries in path order with the loop's early return; `HealthOfLastAnswer`
compares it with the rule its comment states.

### `RoleGroups`

`bmc` is the LDAP service's `RemoteRoleMapping` (a sequence of groups),
`roleGroups` the shared `$scope.roleGroups`, a sequence of rows, each a
group with its `isSelected` or `Null` for a row a removal set to null.
`listed` says whether `loadLdap` filled it, `privileges` whether
`getAccountServiceRoles` did; `selectedGroupIndex`, `modal` and `opened`
are the edit or remove confirmation and the row it was opened on.
A request carries its payload, the list at the click (`base`) and what
the user asked of the list (`want`).

| Action | Code |
|---|---|
| `Init` | the directive's scope and `getAccountServiceRoles` (14-37), `loadLdap` (ldap-controller 29-85) |
| `AddRoleGroup(g, role)` | `addRoleGroup` (43-70): the array with the new group at `roleGroups.length`; before `loadLdap` answered, the controller's `[]` (ldap-controller 20-21) keyed by the empty `roleGroupType`, which the BMC refuses |
| `EditGroupFn(i, role)`, `EditRoleGroup` | `editGroupFn` (72-77), `editRoleGroup` (79-104) |
| `RemoveGroupFn(i)`, `RemoveRoleGroup` | `removeGroupFn` (106-109), `removeRoleGroup` (111-136): the row set to null, the reload in `finally` |
| `SelectRow(i)`, `ToggleAll(v)` | a row's checkbox with `roleGroupIsSelectedChanged` (142-150), `toggleAll` (183-188), which throws at a null row |
| `RemoveMultipleRoleGroups` | `removeMultipleRoleGroups` (152-181), which throws at a null row with `loading` left on |
| `Serve`, `Answer`, `TimeOut` | the BMC's PATCH (`Patched`), `loadLdap`'s `$q.all` (`Loaded`), the `finally` callbacks (`Saved`) |

The array PATCH is applied as Redfish defines it for arrays (the BMC's
code is not in the repository): the i-th element replaces the i-th
member or adds one past the end, null deletes it, members past the
payload stay. An operation on a row that is not there (an edit of a
removed row, a stale index) throws before its PATCH and leaves `loading`
on.

### `Session`

`sessions` are the BMC's sessions, `lastSid` the last one created,
`cookie` the session the browser sends, `loginId` is `isLoggedIn()`
(LOGIN_ID and IsAuthenticated are set and removed together), `path` the
route (`login`, the authenticated `page`, `unauthorized`), and the
login page's `invalidCredentials` and `serverUnreachable` and
`dataService.server_unreachable` (`unreachable`).

| Action | Code |
|---|---|
| `Init` | the app at `/login`; the header's `loadData` (app-header 119-127) has sent its two unguarded GETs without a session |
| `Login(cred)` | `LoginController.login` (31-59): empty fields return, else `APIUtils.login` |
| `Logout` | the header's `logout` (129-137) with `APIUtils.logout` |
| `OpenPage` | `$routeChangeStart` (index.js 194-210) and the page's GET |
| `Serve(r, status)`, `ExpireSession(s)` | the BMC: a login creates a session, a logout deletes the one its cookie names, a request without a live session gets 401, a GET may get 403; sessions time out |
| `Answer(r)`, `TimeOut(r)` | `apiInterceptor` (`Intercepted`: 401 to `'timedout-user'` unless on `/login`, 403 to `/unauthorized`, -1), then `userModel.login`'s and `logout`'s callbacks (`LoggedIn`, `LoggedOut`); a success emits `'user-logged-in'`, whose `loadData` sends GETs |

A failed logout passes a null response and `response.status` throws:
`LoggedOut` leaves everything as it was.

### `WebUIPages`

`page` is the routed view, chosen in `Init`; the twelve views are
instances with their own variables, and only the shown page steps. No page
reads what another writes, so the composed state space is the sum of the
pages' spaces. Each page's fairness is taken with the page as a conjunct
of its fair actions: conjoining the pages' `Fairness` directly would make
every behaviour of a page other than power unfair (the power page's first
GET is enabled for ever there), and liveness on those pages would hold
vacuously. The pages' liveness properties are checked as one leads-to,
`PagesSettle`, over a page-indexed `Busy`: since the page never changes
it is their conjunction, and TLC checks it in one pass where four
separate properties take it three times as long.

## 3. Runs

| Run | Config | Checks | Shows |
|---|---|---|---|
| `nbd_negotiation` | `MCNBDServer_neg.cfg` | `BufferFramed`, `NegotiationTranscript`, `SizeRoundTrip` | options with and without payload, rejected and accepted, corrupt option headers, all chunkings: framing holds and each option is answered in order with the right padding; the size words sent, and those of every size below 2^4 with 2-bit words, read back as the size |
| `nbd_transmission` | `MCNBDServer_tx.cfg` | `TypeOK`, `BufferFramed`, `RepliesAnswerRequests`, `ImplementsAbstractSafety` | every command type pipelined, reads in range, at the end and past MAX_SAFE, completing in any order: each reply answers one request with an allowed code; the byte level implements the message level (65 k states, ~2 min) |
| `nbd_progress` | `MCNBDServer_live.cfg` | `EveryRequestAnswered`, `ImplementsAbstract` | under fair delivery and FileReader completion every READ and WRITE is answered unless the socket closes, and the abstract fairness holds |
| `vm_reload_orphan` | `VirtualMedia_reload.cfg` | `NoOrphanConnection` | violation: a reload while the socket connects leaves a connection no button reaches |
| `power_stale_success` | `HostPower_stale.cfg` | `SuccessOnFreshState` | violation: a warm reboot is reported done from a host-state answer read before the reboot |
| `fw_reboot_after_failure` | `MCFirmware_reboot.cfg` | `RebootOnlyAfterActive` | violation: a failed or timed-out activation still reboots |
| `fw_interval_leak` | `MCFirmware_leak.cfg` | `ActivationPollingEnds` | violation: two overlapping activations share `pollActivationTimer` and one interval polls for ever |
| `pages` | `MCWebUIPages.cfg` | `TypeOK`, `RootNeverDeleted`, `IntervalsCancelled`, `EnableAfterDisable`, `RemovedTruthful`, `ResolvedShownTruthful`, `HealthOfLastAnswer`, `PageNeedsLogin`, `RoleGroupPatchFaithful`, `SnmpSavedTruthful`, `PagesSettle` | each routed page with all its actions, requests performed, failed or timed out and answered in any order: root is never removed, enabled or disabled by a batch; power intervals are cancelled; an LDAP save's enable is never in flight before its disable was performed; the users' and certificates' loaders always go off, every power operation ends and every firmware activation's poll interval is cancelled, with uploads, deletions or priority changes during it; every network save's and every SNMP load's and save's loader goes off; an SNMP controller's first save, when it toasts saved, has made the BMC hold the managers it listed; a remote logging removal that toasts success alone leaves the BMC disabled and every remote logging action turns the loader off; no event log entry is shown resolved that the BMC has not resolved, whatever answers come late, and the header's health is the reference rule applied to the last log answer; the authenticated page is shown only while `isLoggedIn()` holds, through logins, logouts, session expiry and answers in any order; a role-group PATCH performed on the list the table showed, unchanged since, makes the BMC's mapping exactly the list the user asked for; every login is answered or times out (297 k states, ~135 s) |
| `date_saved_unconfirmed` | `MCDateTime_saved.cfg` | `SavedOnlyIfAllSet` | violation: a Manual save toasts 'Date and time settings saved' while its mode PUT is pending or failed |
| `ldap_load_stuck` | `MCLdap_stuck.cfg` | `LoadingSettles` | violation: a failed certificate-collection GET rejects `$q.all` and the LDAP loader stays on |
| `net_saved_untruthful` | `MCNetwork_saved.cfg` | `SavedReportTruthful` | violation: a save toasts 'Network settings saved' while the DELETE of an address the user removed is still unserved |
| `cert_list_unfaithful` | `MCCertificates_shown.cfg` | `CertificatesShownFaithfully` | violation: a certificate answered before the BMC time is not marked expired; an overlapping reload lists a certificate twice |

Bounds. NBD: a 2-byte file, reads of length 1 or 2 at offsets 0 (in range),
2 (at the end) and 4 (past the scaled `MAX_SAFE_INTEGER`), WRITE payloads of
0 and 2 bytes and option payloads of 0 and 1 byte, at most 4 messages per
connection (flags, an option and two commands in flight), every chunk
length. `MaxStarts = 1` because the controller builds a new `NBDServer` per
`startVM`. VirtualMedia: three
server objects and two reloads, enough for a reload between start and open
and a second start. HostPower: one operation of each kind, a timeout of two
poll intervals (one firing before it and one at it). Firmware: two images
(a BMC image on the BMC, a host image that can be uploaded), two clicks
(open the modal and one of upload/delete/priority/re-open), a timeout of two
poll intervals so the image can become Active before it; one activation in
the `pages` run, two in the leak run. UserAccounts: root, `u1` and `u2`
(the first two on the BMC in the passing run, so that `u2` can be created;
all three in the violation run, so that a batch joins two requests) and two
clicks: enough for each modal opened and submitted, a header checkbox and a
batch action, a row checkbox and the toolbar's close, one sort. Three
clicks (two operations in flight at once) take TLC over seven minutes.
Ldap: two settings values and the LDAP certificate installed (so both
certificate chains, the member GET and the `null` answer happen); one click
in `pages` (every action fires), two in `MCLdap_stale.cfg` (a save, or an
uncheck, and its reload; not a run, see section 4), none in `ldap_load_stuck`. Three clicks exceed
16 M states. Certificates: an expired CA certificate and a free HTTPS
location (so an upload succeeds, a delete is offered and the expiry is
read), one click, files of validity `valid`; a second present certificate
or a second click takes the page past 300 k states. Network: one setting
with two values, two addresses (the interface holds the first, DHCP off)
and three clicks: enough for an address removed, edited or added and a
save, a second save or a refresh, with every chain and early return (12 k
states alone; four clicks are too many for the composed run). DateTime:
both modes, the four owners, two server lists and two dates, the BMC in
Manual mode owned by the BMC, two clicks (a save, or an edit and a save);
the violation is six states deep. Snmp: two addresses, two ports, one
manager on the BMC, three object ids and three clicks (an edit or an
added manager's two fields, a removal, a save, a refresh); without the
first-save condition and with five clicks the check also passed (6.8 M
states, seven minutes): the re-sent POST happens only when the BMC no
longer holds what the list was loaded from, which the property excludes. EventLog: an unresolved High entry before an unresolved Medium one (so the loop's early return matters), two clicks (select and resolve, select and delete, a refresh and one more); three clicks give 370 k states alone, too many for the composed run. RemoteLogging: two addresses, one port (the composed run; `MCRemoteLogging.cfg` has two ports, 154 k states), the BMC configured, and three clicks: one add or edit with a typed server, or a removal and another modal; four clicks exceed 300 s alone. RoleGroups: three groups, two roles, two groups on the BMC and two clicks (an add, an edit or a removal with its confirmation, a selection and a multiple removal); three clicks give 2.3 M states alone, and `RoleGroupPatchFaithful` held there too. Session: two sessions and three clicks: a login, a logout and a second login, so that an answer from the first session can arrive during the second (four clicks give 742 k states alone). The composed run keeps
each page's bounds; its deadlock is
not checked, so the deadlock freedom `vm_page` used to check for the
virtual-media page alone is no longer part of a run.

Deadlock is not checked: each page is idle once its bounded user has acted
and every answer is in.

Fairness. NBD: weak fairness on a connecting socket opening, on delivering
pending bytes of an open socket and on FileReader completion. HostPower and
Firmware: weak fairness on `$interval` firing (the browser keeps firing an
uncancelled interval) and on every request being answered or timing out
(the interceptor's 20 s default timeout, `uploadImage`'s explicit one).
UserAccounts: weak fairness on the BMC serving and on every request being
answered or timing out, for the same reason; Ldap, Certificates, Network,
Snmp, RemoteLogging, EventLog, RoleGroups and Session likewise, and Network's reload `$timeout` fires. The
user, the BMC finishing an activation or a host transition, and the peer
closing a socket are not assumed to act.

Mutants: each property of a passing run is violated by a plausible slip in
the code it is about (`PROJECT.json` "mutants"): an option payload left
unconsumed, client flags not stored, a negative errno, an off-by-one
`slice`, a missing end-of-file check, a WRITE waiting for one byte too many,
a size word masked to 31 bits, a server given
the wrong id, an interval body that does not cancel itself or never times
out, `selectableRowCount` not reset, root's row left selectable, `loading`
cleared only on success, an LDAP save sending its enable together with
its disable, a certificate load whose `$q.all` has no `catch`, a network save whose
failure leaves the loader on, a remote logging `$q.all` resolving at its
first PUT, a failed removal leaving the loader on, a resolve marking its entries
when a PUT failed, `updateServerHealth` without its `return`, an added role group written over the last row instead of after it, a logout callback that clears the login but stays on the page.

## 4. Findings

1. `user-controller.js:150`/`226`: `updateUser` and `createUser` refresh the
   table only on success and `updateUserStatus`/`deleteUsers` once, when
   `$q.all` settles at the first failure; a PATCH the BMC performed after
   the page timed out, or one of the batch still pending, leaves the table
   showing a status the account no longer has. `TableFreshWhenSettled`
   states it and TLC finds it violated with `MCUserAccounts_stale.cfg`
   (`tlc -config MCUserAccounts_stale.cfg MCUserAccounts`); it is not among
   the runs of `PROJECT.json`, which are limited in number.
2. `virtual-media-controller.js:61`: `findExistingConnection` restores only
   an OPEN socket; a reload while it connects orphans the connection.
3. `app-header.js:80`: host-state answers are applied in arrival order; a
   stale one completes a warm reboot while the host is off.
4. `firmware-controller.js:116`: the error callbacks of the activation
   chain return normally, so the reboot runs after a failed or timed-out
   activation.
5. `firmware-controller.js:59`: overlapping activations share
   `pollActivationTimer`; one interval is never cancelled and polls the BMC
   until the page is left.
6. `ldap-controller.js:77`: `loadLdap`'s `$q.all` has no rejection
   handler; a failed GET of a certificate collection (a BMC without a
   truststore), of a member (whose error handler calls the unbound
   `json.stringify`) or of the AccountService leaves the loader on for ever.
7. `ldap-controller.js:122`/`152`: the page reloads only when a PATCH
   answers 200. A timed-out PATCH the BMC performed, or a save whose
   disable succeeded and whose enable failed (the BMC then has neither
   service enabled), leaves the form showing settings the BMC no longer has.
   `FreshWhenSettled` states it and TLC finds it violated with
   `MCLdap_stale.cfg` (`tlc -config MCLdap_stale.cfg MCLdap`); it is not
   among the runs of `PROJECT.json`, which are limited in number.
8. `certificate-controller.js:121`: `isExpiring` subtracts
   `$scope.bmcTime / 1000` before `getBmcTime` has answered (the list is
   loaded by the constructor, the time only at `$viewContentLoaded`); the
   NaN difference marks an expired certificate as neither expired nor
   expiring. `certificate-controller.js:110`: a reload overlapping an
   earlier load gets that load's late certificates pushed into its new
   list, which then shows a certificate twice (also reached under the
   same property with one upload).
9. `network-controller.js:97`: `promises.push(removeIPV4s())` pushes an
   array, which `$q.all` treats as a resolved value: the save reloads and
   toasts 'Network settings saved' without waiting for the DELETEs of the
   removed addresses, and whatever they answer. With them awaited the
   property still fails: the DELETEs and the adds of one save go out
   together, so an address removed and added back in one save can end up
   deleted. `ipv4sToDelete` is also never cleared (line 57), so every later
   save repeats the DELETEs, which remove an address added back since (it
   gets its old id).
10. `date-time-controller.js:98`: `.then($timeout(setDateTime, 20000))`
   calls `$timeout` at the click, so `setDateTime` runs 20 s later whatever
   the mode, owner and NTP chain did (the chain has no rejection handler),
   and its `$q.all` toasts 'saved' from the time PUTs alone; the comment at
   lines 82-91 says the delay is meant to follow the mode change. When
   `getTime` failed, `$scope.bmc.date` is undefined and `setDateTime`
   throws before its `$q.all`, leaving the loader on.

Also seen while modelling, without a run of their own (see the hazards):
`nbd.js:62`/`333`: `msgbuf` survives `stop()`/`start()` and FileReader
callbacks send on `this.ws` when they complete, so a restarted object would
parse the old connection's leftover bytes and send late READ replies to the
new client; this is latent only, as no caller in the repository restarts
an object (the virtual-media page builds a new one per start), so it is
not a hazard of this code (the model reaches it with `MaxStarts = 2`); `table.js:229`: `selectedRows` keeps row
indices across a sort, so later clicks can select rows the user never
chose; `user-controller.js:347`: Add user and Edit open nothing until, or
if never, the account settings load (a TypeError in the modal's
controller, not listed as a hazard);
a zero-length READ at offset `file.size` succeeds where spec 8 asks for
NOSPC; the virtual-media device stays active when the BMC closes its socket;
`api-utils.js:1731`: `updateRemoteLoggingServer` sends the set as soon as
the disable's `$q.all` rejects, while the other disable PUT may still be
in flight; when it lands last the BMC keeps the new address with port 0
(or '' with the new port) while the element toasts success and shows the
new server (TLC reaches it in 13 states of `MCRemoteLogging` with the
edit statement as invariant, kept as a hazard);
`log-controller.js:58`: `loadLogs` has no rejection handler, so a failed
GET leaves the loader on; `api-utils.js:1661`: `deleteLogs` never rejects,
so after a failed POST nothing reloads and the list keeps deleted entries;
`log-controller.js:190`: `resolve` marks the item objects it sent, and
the header's health is not recomputed;
`remote-logging-server.js:96`: a failed add shows no server although one
of its PUTs may have been performed;
`snmp-controller.js:78`: after a failed save the next one POSTs again
every manager without a path, one the BMC created while the page timed out
included, and Deletes again paths already gone;
the Failed branch of `waitForActive` throws a ReferenceError; delete and
priority changes leave `$scope.loading` set on failure; `warmReboot` sets
`$scope.uploading`, which only a later upload clears.

## 5. Not modelled

* NBD: double rounding of offsets above 2^53 (the checks are monotone),
  payload contents, memory growth from trusted lengths.
* Firmware: the TFTP download and `waitForDownload` (its count comparison
  with `$scope.firmwares`), and the host-state polling after `powerOn` /
  `warmReboot` (`pollHostStatusTillOn`/`TilReboot` return no promise, so the
  page ignores their result).
* Power page: boot settings and TPM; the header's other loaders.
* User accounts: roles, passwords, lockout;
* Network: `selectInterface` (the model has one interface), the MAC
  address's case folding, the DNS list's `filter(Boolean)` (a setting is
  one value), and a save before the first load (the view is absent; the
  code would throw at line 69 with `loading` left on);
* Date and time: the timezone strings (`getUserTimezone`, `createOffset`,
  display only) and the NTP list's `filter(Boolean)` (a list is one value);
* Certificates: the modal templates, the CSR's fields, `copySuccess` and
  `getDays` (display only), the directive's own `loading` flag (left set
  by a non-.pem replace);
* LDAP: `useSSL`, the certificate contents and the role-group and
  address lists' shapes (an empty `ServiceAddresses` makes `getUseSsl`
  throw; the model's settings are single values); `bmcTable`'s row
  expansion and row-action emitters, which change no state the page reads.
* Event log: the severity, status, date and search filters, the search
  items, the export data and the `eventId` row expansion (display only;
  select-all acts on every row, not only the filtered ones); `confirm`
  (set by the absent template).
* Remote logging: the page that hosts the element and its templates are
  not in the repository; the element is a page of its own with its own
  `loading`, and the modal's inputs set both fields at once.
* System log page (`syslog-controller.js`): not modelled; its
  `selectRecordType` answers arriving out of order would show one record
  type's entries under another, the same pattern as the certificate list.
* Login: the `?next` redirect, the host field (`dataService.setHost`) and
  webui-vue's Authentication store. Two hazards of `Session` have no
  property: a 401 to a request of an earlier session (or to the header's
  unguarded start-up GETs) arriving after a new login sends the new user
  to `/login` (TLC reaches it in six steps), and a logout's late `ok`
  after a re-login clears the new login. Both end on the login page, not
  in an unsafe state.
* LDAP role groups: sorting (display only), a concurrent writer of the
  BMC's mapping, and the TypeErrors of `toggleAll` and
  `removeMultipleRoleGroups` at a null row (modelled, but no property
  states that `loading` goes off; they leave it on).
* D-Bus browser (`rest-dbus/resources/dbus.js`): `format_one_type`'s dict
  branch resumes at `i+1`, on the closing brace, so a signature with a
  member after a dict (`a{sv}i`) is rendered with a stray `}`; a pure
  string function with no state, outside the web UI's protocols.
* The Vuex stores, consoles (the protocol is in
  xterm.js and noVNC), other page controllers, the D-Bus browser and build
  configuration: they copy REST answers into view state and have no
  protocol of their own (spec section 1 puts them out of scope).

## 6. Plan

Next: the stale-scope hazard of the firmware chain as its own property
(the reboot matches the type of the image activated); the virtual-media
copy's `start()` order and token as a variant of `NBDServer`; a message-level
abstract specification of the power operations.
