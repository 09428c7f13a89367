\* Login, logout and session expiry: two sessions, three clicks
CONSTANTS
    MaxSessions = 2
    MaxClicks = 3
SPECIFICATION Spec
INVARIANT TypeOK
INVARIANT PageNeedsLogin
CHECK_DEADLOCK FALSE
