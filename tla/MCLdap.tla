------------------------------- MODULE MCLdap -------------------------------
(* Model-checking instance of Ldap: two settings a service may hold, LDAP  *)
(* enabled with the first, the LDAP certificate installed.                 *)
EXTENDS Ldap

CONSTANTS c1, c2

MCInitServices == [s \in Services |->
                      [enabled |-> s = "LDAP", cfg |-> c1]]
=============================================================================
