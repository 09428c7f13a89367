----------------------------- MODULE MCRoleGroups -----------------------------
(* Model-checking instance of RoleGroups: two groups mapped to different   *)
(* roles on the BMC, a third name to add.                                  *)
EXTENDS RoleGroups

MCGroups == {"admins", "ops", "guests"}
MCRoles == {"Administrator", "ReadOnly"}
MCInitGroups == <<[RemoteGroup |-> "admins", LocalRole |-> "Administrator"],
                  [RemoteGroup |-> "ops", LocalRole |-> "ReadOnly"]>>
=============================================================================
