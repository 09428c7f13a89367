\* Root and two other accounts, so that one batch action joins two requests.
CONSTANTS
    root = root
    u1 = u1
    u2 = u2
    Names = {root, u1, u2}
    Root = root
    NameOrder <- MCNameOrder
    InitAccounts <- MCInitAll
    Sortable = FALSE
    DefaultSort <- MCNoDefaultSort
    MaxClicks = 2

SPECIFICATION Spec

INVARIANT TableFreshWhenSettled

\* the page waits for the user once the bounded clicks are spent
CHECK_DEADLOCK FALSE
