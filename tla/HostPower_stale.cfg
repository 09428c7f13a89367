CONSTANTS
    UserOps = {0}
    MaxOps = 1
    PollTimeout = 2
    HostInit = {"Running"}
SPECIFICATION Spec
PROPERTY SuccessOnFreshState
CHECK_DEADLOCK FALSE
