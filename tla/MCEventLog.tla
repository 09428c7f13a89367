------------------------------ MODULE MCEventLog ------------------------------
(* Model-checking instance of EventLog: an unresolved High entry listed    *)
(* before an unresolved Medium one.               *)
EXTENDS EventLog

MCPriority == (1 :> "High") @@ (2 :> "Medium")
MCInitLogs == (1 :> FALSE) @@ (2 :> FALSE)
=============================================================================
