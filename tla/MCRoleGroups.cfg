CONSTANTS
    Groups <- MCGroups
    Roles <- MCRoles
    InitGroups <- MCInitGroups
    MaxClicks = 2
SPECIFICATION Spec
INVARIANT TypeOK
PROPERTY RoleGroupPatchFaithful
CHECK_DEADLOCK FALSE
