\* Transmission: every command type, pipelined, with reads in and out of range.
CONSTANTS
    FileSize = 2
    MaxSafe = 3
    MaxStarts = 1
    MaxMsgs = 4
    OptCodes = {1}
    OptLens = {0}
    CmdTypes <- TxCmdTypes
    ReadOffsets <- TxReadOffsets
    ReadLens = {1, 2}
    WriteLens = {0, 2}
    Magics = {TRUE, FALSE}
    ClientFlags = {3}
    WordBits = 2

SPECIFICATION Spec

INVARIANT TypeOK
INVARIANT BufferFramed
INVARIANT RepliesAnswerRequests
PROPERTY ImplementsAbstractSafety



\* the session ends once the bounded client has sent its last message
CHECK_DEADLOCK FALSE
