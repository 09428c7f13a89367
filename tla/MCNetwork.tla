----------------------------- MODULE MCNetwork -----------------------------
(* Model-checking instance of Network: one setting with two values, two   *)
(* addresses, the interface holding the first one with DHCP off.          *)
EXTENDS Network, TLC

CONSTANTS v0, v1, a1, a2, mac

MCAddrOrder == <<a1, a2>>
MCInitNet == [set |-> [k \in {mac} |-> v0], dhcp |-> FALSE, addrs |-> {a1}]
=============================================================================
