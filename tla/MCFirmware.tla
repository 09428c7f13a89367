----------------------------- MODULE MCFirmware ----------------------------
(* Model-checking instance of Firmware: a BMC image on the BMC when the   *)
(* page loads and a host image that an upload creates.                    *)
EXTENDS Firmware

CONSTANTS bmcImg, hostImg

MCImgType == [i \in {bmcImg, hostImg} |-> IF i = bmcImg THEN "BMC" ELSE "Host"]
=============================================================================
