----------------------------- MODULE MCDateTime -----------------------------
(* The date and time page with two NTP server lists and two dates; the    *)
(* BMC starts in Manual mode owned by the BMC, as shipped.                *)
EXTENDS DateTime, TLC

CONSTANTS n0, n1, d1, d2

MCModes == {"NTP", "Manual"}
MCOwners == {"BMC", "Host", "Both", "Split"}
MCInitTime == [mode |-> "Manual", owner |-> "BMC", ntp |-> n0, bmc |-> d1, host |-> d1]
=============================================================================
