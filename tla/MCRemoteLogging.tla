--------------------------- MODULE MCRemoteLogging ---------------------------
(* Model-checking instance of RemoteLogging: two addresses and ports, the   *)
(* BMC configured with the first.                                           *)
EXTENDS RemoteLogging

MCAddrs == {"10.0.0.1", "10.0.0.2"}
MCInitServer == [Address |-> "10.0.0.1", Port |-> 1]
=============================================================================
