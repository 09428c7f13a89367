\* Negotiation: client flags with and without NO_ZEROES, rejected and
\* accepted options with and without payload, corrupt option headers.
CONSTANTS
    FileSize = 2
    MaxSafe = 3
    MaxStarts = 1
    MaxMsgs = 4
    OptCodes <- NegOptCodes
    OptLens = {0, 1}
    CmdTypes <- NegCmdTypes
    ReadOffsets = {0}
    ReadLens = {1}
    WriteLens = {0}
    Magics = {TRUE, FALSE}
    ClientFlags <- NegClientFlags
    WordBits = 2

SPECIFICATION Spec

INVARIANT BufferFramed
INVARIANT NegotiationTranscript
INVARIANT SizeRoundTrip

\* the session ends once the bounded client has sent its last message
CHECK_DEADLOCK FALSE
