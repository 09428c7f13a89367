---------------------------- MODULE VirtualMedia ----------------------------
(***************************************************************************)
(* The virtual-media page of phosphor-webui: virtualMediaController, the   *)
(* nbdServerService singleton that outlives it, and the lifecycle of the   *)
(* NBDServer copy in virtual-media-controller.js (lines 73-396).           *)
(*                                                                         *)
(* The controller is re-created each time the user navigates to the page; *)
(* the service is not.  Every startVM creates a new NBDServer object; its  *)
(* WebSocket goes through the readyStates CONNECTING (0), OPEN (1),        *)
(* CLOSING (2) and CLOSED (3).  The NBD protocol itself is the module      *)
(* NBDServer; here a server is its state and its socket, and the protocol  *)
(* appears only where it calls this.stop() (NBD_CMD_DISC or a protocol     *)
(* error).  One device, id 0, as the controller hard-codes.                *)
(***************************************************************************)
EXTENDS Integers, FiniteSets

CONSTANTS
    MaxServers,     \* bound on the NBDServer objects startVM creates
    MaxReloads,     \* bound on re-creations of the controller
    Files           \* File objects the user may pick

ASSUME MaxServers \in Nat \ {0} /\ MaxReloads \in Nat /\ Files # {}

\* WebSocket.readyState; NotCreated for objects startVM has not made yet
CONNECTING == 0
OPEN == 1
CLOSING == 2
CLOSED == 3
NotCreated == -1

\* NBD_STATE_* of the copy (lines 99-103); the negotiation and transmission
\* states are one value here
NBD_STATE_UNKNOWN == 1
NBD_STATE_OPEN == 2
NBD_STATE_RUNNING == 3

Servers == 1..MaxServers
NoServer == 0
NoFile == ""

VARIABLES
    device,     \* $scope.devices[0]: isActive, file, nbdServer
    srvMap,     \* nbdServerService.nbdServerMap[0], or NoEntry
    nbdState,   \* this.state of each NBDServer object
    ready,      \* this.ws.readyState of each NBDServer object
    created,    \* NBDServer objects created so far
    reloads     \* controller re-creations so far

vars == <<device, srvMap, nbdState, ready, created, reloads>>

NoEntry == [server |-> NoServer, file |-> NoFile]

\* the vmDevice the controller builds, before findExistingConnection
FreshDevice == [isActive |-> FALSE, file |-> NoFile, nbdServer |-> NoServer]

\* findExistingConnection: restore the device only when the kept server's
\* socket is OPEN
FindExistingConnection(d) ==
    IF srvMap # NoEntry /\ ready[srvMap.server] = OPEN
    THEN [d EXCEPT !.isActive = TRUE, !.file = srvMap.file,
                   !.nbdServer = srvMap.server]
    ELSE d

\* NBDServer.stop(): ws.close() and state UNKNOWN; close() does nothing on
\* a socket that is already CLOSING or CLOSED
StopServer(s) ==
    /\ nbdState' = [nbdState EXCEPT ![s] = NBD_STATE_UNKNOWN]
    /\ ready' = [ready EXCEPT ![s] = IF @ \in {CONNECTING, OPEN} THEN CLOSING
                                                               ELSE @]

-----------------------------------------------------------------------------

Init ==
    /\ srvMap = NoEntry
    /\ device = FindExistingConnection(FreshDevice)
    /\ nbdState = [s \in Servers |-> NBD_STATE_UNKNOWN]
    /\ ready = [s \in Servers |-> NotCreated]
    /\ created = 0
    /\ reloads = 0

\* the user navigates back to the page: a new controller, a new device
Reload ==
    /\ reloads < MaxReloads
    /\ reloads' = reloads + 1
    /\ device' = FindExistingConnection(FreshDevice)
    /\ UNCHANGED <<srvMap, nbdState, ready, created>>

\* the file input (ng-model of the page) picks a file
ChooseFile ==
    /\ \E f \in Files : device' = [device EXCEPT !.file = f]
    /\ UNCHANGED <<srvMap, nbdState, ready, created, reloads>>

\* resetFile
ResetFile ==
    /\ device' = [device EXCEPT !.file = NoFile]
    /\ UNCHANGED <<srvMap, nbdState, ready, created, reloads>>

\* A mutant of startVM, a plausible slip in the controller:
\* the new server takes the count of servers before it as its id
StartVMOffByOne ==
    /\ ~device.isActive
    /\ device.file # NoFile
    /\ created < MaxServers
    /\ LET s == created IN
       /\ created' = created + 1
       /\ device' = [device EXCEPT !.isActive = TRUE, !.nbdServer = s]
       /\ srvMap' = [server |-> s, file |-> device.file]
       /\ ready' = [ready EXCEPT ![s] = CONNECTING]
       /\ nbdState' = [nbdState EXCEPT ![s] = NBD_STATE_OPEN]
    /\ UNCHANGED reloads
\* startVM: the page offers it for an inactive device with a file; a new
\* NBDServer, kept in the service, then start(): new WebSocket, state OPEN
StartVM ==
    /\ ~device.isActive
    /\ device.file # NoFile
    /\ created < MaxServers
    /\ LET s == created + 1 IN
       /\ created' = s
       /\ device' = [device EXCEPT !.isActive = TRUE, !.nbdServer = s]
       /\ srvMap' = [server |-> s, file |-> device.file]
       /\ ready' = [ready EXCEPT ![s] = CONNECTING]
       /\ nbdState' = [nbdState EXCEPT ![s] = NBD_STATE_OPEN]
    /\ UNCHANGED reloads

\* stopVM: the page offers it for an active device
StopVM ==
    /\ device.isActive
    /\ device' = [device EXCEPT !.isActive = FALSE]
    /\ StopServer(device.nbdServer)
    /\ UNCHANGED <<srvMap, created, reloads>>

\* _on_ws_open: logs, client.flags = 0, _negotiate: WAIT_CFLAGS
WsOpen(s) ==
    /\ ready[s] = CONNECTING
    /\ ready' = [ready EXCEPT ![s] = OPEN]
    /\ nbdState' = [nbdState EXCEPT ![s] = NBD_STATE_RUNNING]
    /\ UNCHANGED <<device, srvMap, created, reloads>>

\* _on_ws_message calls this.stop(): NBD_CMD_DISC from the host, or a
\* handler error (see module NBDServer)
ProtocolStop(s) ==
    /\ ready[s] = OPEN
    /\ nbdState[s] = NBD_STATE_RUNNING
    /\ StopServer(s)
    /\ UNCHANGED <<device, srvMap, created, reloads>>

\* the socket fails to connect or the BMC closes it: _on_ws_error and
\* _on_ws_close only log
WsFail(s) ==
    /\ ready[s] \in {CONNECTING, OPEN}
    /\ ready' = [ready EXCEPT ![s] = CLOSED]
    /\ UNCHANGED <<device, srvMap, nbdState, created, reloads>>

\* the closing handshake of a close() completes: _on_ws_close logs
WsClosed(s) ==
    /\ ready[s] = CLOSING
    /\ ready' = [ready EXCEPT ![s] = CLOSED]
    /\ UNCHANGED <<device, srvMap, nbdState, created, reloads>>

Next ==
    \/ Reload
    \/ ChooseFile
    \/ ResetFile
    \/ StartVM
    \/ StopVM
    \/ \E s \in Servers : WsOpen(s) \/ ProtocolStop(s) \/ WsFail(s)
                          \/ WsClosed(s)

Spec == Init /\ [][Next]_vars

-----------------------------------------------------------------------------

TypeOK ==
    /\ device \in [isActive : BOOLEAN, file : Files \cup {NoFile},
                   nbdServer : Servers \cup {NoServer}]
    /\ srvMap \in [server : Servers, file : Files] \cup {NoEntry}
    /\ nbdState \in [Servers -> {NBD_STATE_UNKNOWN, NBD_STATE_OPEN,
                                 NBD_STATE_RUNNING}]
    /\ ready \in [Servers -> {NotCreated, CONNECTING, OPEN, CLOSING, CLOSED}]
    /\ created \in 0..MaxServers /\ reloads \in 0..MaxReloads

\* servers whose WebSocket is connecting or open: each is a connection the
\* BMC serves as the virtual media device
Live == {s \in Servers : ready[s] \in {CONNECTING, OPEN}}

\* Every live connection is one the page can stop: it is the device's
\* nbdServer while the device is active.  startVM, stopVM and
\* findExistingConnection must together never leave a WebSocket to the
\* BMC that no button of the page reaches.
NoOrphanConnection ==
    \A s \in Live : device.isActive /\ device.nbdServer = s

=============================================================================
