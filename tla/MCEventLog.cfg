CONSTANTS
    Ids = {1, 2}
    Priority <- MCPriority
    InitLogs <- MCInitLogs
    MaxClicks = 2
SPECIFICATION Spec
INVARIANT TypeOK
INVARIANT ResolvedShownTruthful
INVARIANT HealthOfLastAnswer
CHECK_DEADLOCK FALSE
