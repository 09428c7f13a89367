---------------------------- MODULE NBDProtocol ----------------------------
(***************************************************************************)
(* The vocabulary of jsnbd's NBD server that the byte-level model          *)
(* (NBDServer) and the message-level model (NBDAbstract) share: the        *)
(* constants of nbd.js, the messages a fixed-newstyle client sends, the    *)
(* frames the server sends, and the client's negotiation phases.           *)
(***************************************************************************)
EXTENDS Integers, NBDWire

CONSTANTS
    FileSize,       \* file.size of the exported File
    MaxSafe,        \* Number.MAX_SAFE_INTEGER, scaled down
    MaxStarts,      \* bound on calls of start() on the one object
    MaxMsgs,        \* bound on the messages a client sends per connection
    OptCodes,       \* option codes the client may request
    OptLens,        \* option payload lengths the client may send
    CmdTypes,       \* command types the client may send
    ReadOffsets,    \* offsets of READ requests
    ReadLens,       \* lengths of READ requests
    WriteLens,      \* lengths (payload sizes) of WRITE requests
    Magics,         \* TRUE: correct magic; FALSE: a corrupt header
    ClientFlags,    \* values of the client flags word
    WordBits        \* bits of a wire word (32 in nbd.js, scaled down)

ASSUME
    /\ FileSize \in Nat /\ MaxSafe \in Nat /\ FileSize <= MaxSafe
    /\ MaxStarts \in Nat \ {0} /\ MaxMsgs \in Nat \ {0}
    /\ Magics \subseteq BOOLEAN /\ TRUE \in Magics
    /\ WordBits \in Nat \ {0} /\ FileSize < 2^(2 * WordBits)
    /\ ClientFlags \subseteq 0..(2^WordBits - 1)

\* nbd.js lines 18-52
NBD_FLAG_HAS_FLAGS == 1
NBD_FLAG_READ_ONLY == 2
NBD_OPT_EXPORT_NAME == 1
\* NBD_REP_FLAG_ERROR | 1, 2^31 + 1 in nbd.js
NBD_REP_ERR_UNSUP == "NBD_REP_ERR_UNSUP"
NBD_CMD_READ == 0
NBD_CMD_WRITE == 1
NBD_CMD_DISC == 2
NBD_CMD_TRIM == 4
EPERM == 1
EIO == 5
EINVAL == 22
ENOSPC == 28
NBD_STATE_UNKNOWN == 1
NBD_STATE_OPEN == 2
NBD_STATE_WAIT_CFLAGS == 3
NBD_STATE_WAIT_OPTION == 4
NBD_STATE_TRANSMISSION == 5

\* the states that have an entry in recv_handlers
HandledStates == {NBD_STATE_WAIT_CFLAGS, NBD_STATE_WAIT_OPTION,
                  NBD_STATE_TRANSMISSION}

Conns == 1..MaxStarts
NoSocket == 0

-----------------------------------------------------------------------------
(* Messages of the client.                                                 *)

CFlagsMsgs == [t : {"cflags"}, flags : ClientFlags]
OptMsgs == [t : {"opt"}, magic : Magics, opt : OptCodes, len : OptLens]
CmdMsgs ==
    [t : {"cmd"}, magic : Magics, type : {NBD_CMD_READ} \cap CmdTypes,
     offset : ReadOffsets, length : ReadLens]
    \cup [t : {"cmd"}, magic : Magics, type : {NBD_CMD_WRITE} \cap CmdTypes,
          offset : {0}, length : WriteLens]
    \cup [t : {"cmd"}, magic : Magics,
          type : CmdTypes \ {NBD_CMD_READ, NBD_CMD_WRITE},
          offset : {0}, length : {0}]
Msgs == CFlagsMsgs \cup OptMsgs \cup CmdMsgs


-----------------------------------------------------------------------------
(* Frames the server sends.                                                *)

Greeting == [kind |-> "greeting"]
ExportInfo(pad) ==
    [kind |-> "exportInfo", hi |-> SizeHi(FileSize, WordBits),
     lo |-> SizeLo(FileSize, WordBits),
     flags |-> NBD_FLAG_HAS_FLAGS + NBD_FLAG_READ_ONLY, pad |-> pad]
OptReply(opt) == [kind |-> "optReply", opt |-> opt, err |-> NBD_REP_ERR_UNSUP]
Reply(h, rc, len, src) ==
    [kind |-> "reply", h |-> h, err |-> rc, len |-> len, src |-> src]

-----------------------------------------------------------------------------
(* The client's side: fixed-newstyle negotiation, then commands.  It may   *)
(* send ahead of the server's replies.                                     *)

ClientMsgs(phase) ==
    CASE phase = "flags"        -> CFlagsMsgs
      [] phase = "options"      -> OptMsgs
      [] phase = "transmission" -> CmdMsgs
      [] phase = "done"         -> {}

NextPhase(phase, msg) ==
    CASE msg.t = "cflags" -> "options"
      [] ~msg.magic -> "done"
      [] msg.t = "opt" /\ msg.opt = NBD_OPT_EXPORT_NAME -> "transmission"
      [] msg.t = "opt" -> "options"
      [] msg.type = NBD_CMD_DISC -> "done"
      [] OTHER -> "transmission"

=============================================================================
