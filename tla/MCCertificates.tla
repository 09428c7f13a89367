--------------------------- MODULE MCCertificates ---------------------------
(* Model-checking instance of Certificates: an expired CA (TrustStore)    *)
(* certificate on the BMC when the page loads and a free HTTPS location.  *)
EXTENDS Certificates, TLC

CONSTANTS https, ca, h1, t1

MCLocType == (h1 :> https) @@ (t1 :> ca)
MCInitCerts == (h1 :> Absent) @@ (t1 :> "expired")
=============================================================================
