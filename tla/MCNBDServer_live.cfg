\* Progress: pipelined READ, WRITE and DISC commands, split into any chunks.
CONSTANTS
    FileSize = 2
    MaxSafe = 3
    MaxStarts = 1
    MaxMsgs = 4
    OptCodes = {1}
    OptLens = {0}
    CmdTypes <- LiveCmdTypes
    ReadOffsets <- LiveReadOffsets
    ReadLens = {1}
    WriteLens = {2}
    Magics = {TRUE}
    ClientFlags = {3}
    WordBits = 2

SPECIFICATION Spec

PROPERTY EveryRequestAnswered
PROPERTY ImplementsAbstract

\* the session ends once the bounded client has sent its last message
CHECK_DEADLOCK FALSE
