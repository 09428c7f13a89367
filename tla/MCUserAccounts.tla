--------------------------- MODULE MCUserAccounts ---------------------------
(* Model-checking instance of UserAccounts: root and two other accounts,   *)
(* named in string order root < u1 < u2.                                   *)
EXTENDS UserAccounts

CONSTANTS root, u1, u2

MCNameOrder == <<root, u1, u2>>

\* no default-sort binding
MCNoDefaultSort == -1

\* root and u1 exist, u2 may be created
MCInitAccounts == (root :> "Enabled") @@ (u1 :> "Enabled")
\* root, u1 and u2 exist, u2 disabled
MCInitAll == (root :> "Enabled") @@ (u1 :> "Enabled") @@ (u2 :> "Disabled")
=============================================================================
