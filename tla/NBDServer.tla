----------------------------- MODULE NBDServer -----------------------------
(***************************************************************************)
(* The NBDServer object of jsnbd (src/openbmc_modules/jsnbd/web/js/nbd.js) *)
(* and the remote NBD client that talks to it over one WebSocket.          *)
(*                                                                         *)
(* The browser runs every WebSocket and FileReader callback to completion  *)
(* on one thread, so each callback is ONE action: _on_ws_message appends a *)
(* chunk to msgbuf and runs the recv_handlers loop (the RECURSIVE operator *)
(* Pump) until a handler needs more bytes, fails, or the buffer empties.   *)
(*                                                                         *)
(* Bytes are kept: every byte is a record [c, m, k], byte k of message m   *)
(* that the client sent on connection c.  A handler decodes a header only  *)
(* from bytes that are the first bytes of one message (Decode); any other  *)
(* bytes decode as Garbage, whose magic never matches.  The lengths of the *)
(* messages are the wire lengths of nbd.js (4, 16+len, 28(+len)).          *)
(*                                                                         *)
(* Fields of a frame that the code only echoes or fills with constants are *)
(* kept as values; the 64-bit handle of a request is its message index m.  *)
(* Reply frames carry a ghost field src: the connection whose request they *)
(* answer.                                                                 *)
(***************************************************************************)
EXTENDS Integers, Sequences, SequencesExt, FiniteSets, NBDProtocol

VARIABLES
    state,      \* this.state
    msgbuf,     \* this.msgbuf (null is <<>>)
    cflags,     \* this.client.flags
    ws,         \* this.ws: the connection of the current WebSocket
    sock,       \* readyState of each WebSocket: connecting, open, closed
    reads,      \* FileReaders whose onload/onerror has not yet run
    out,        \* frames each WebSocket carried to the client
    sent,       \* messages the client sent on each connection
    pending,    \* bytes the client sent that are not yet delivered
    cphase      \* the client's negotiation phase per connection

vars == <<state, msgbuf, cflags, ws, sock, reads, out, sent, pending, cphase>>

-----------------------------------------------------------------------------
(* Bytes of the client's messages.                                         *)

Garbage == [t |-> "garbage"]

\* bytes of a message on the wire
MsgLen(msg) ==
    CASE msg.t = "cflags" -> 4
      [] msg.t = "opt"    -> 16 + msg.len
      [] msg.t = "cmd"    -> 28 + (IF msg.type = NBD_CMD_WRITE
                                   THEN msg.length ELSE 0)

Byte == [c : Conns, m : 1..MaxMsgs, k : Nat]
MsgBytes(c, m, msg) == [k \in 1..MsgLen(msg) |-> [c |-> c, m |-> m, k |-> k]]

\* the whole byte stream the client sent on connection c, from message i on
StreamFrom(c, i) ==
    FlattenSeq([j \in 1..(Len(sent[c]) - i + 1) |->
                    MsgBytes(c, i + j - 1, sent[c][i + j - 1])])

\* DataView reads of the first n bytes: a header of one message or garbage
Aligned(buf, n) ==
    \A i \in 1..n : /\ buf[i].c = buf[1].c /\ buf[i].m = buf[1].m
                    /\ buf[i].k = i
Decode(buf, n) == IF Aligned(buf, n) THEN sent[buf[1].c][buf[1].m] ELSE Garbage

-----------------------------------------------------------------------------
(* One pass of the recv_handlers loop works on a record s of the object's  *)
(* fields: [state, buf, cflags, wsOpen, sends, reads, src].  A handler    *)
(* returns [n |-> consumed, s |-> the record after it].                    *)

Send(s, f) == IF s.wsOpen THEN [s EXCEPT !.sends = Append(@, f)] ELSE s

\* this.stop(): ws.close() and state UNKNOWN; msgbuf is left as it is
StopRec(s) == [s EXCEPT !.wsOpen = FALSE, !.state = NBD_STATE_UNKNOWN]

Result(n, s) == [n |-> n, s |-> s]

\* mutant: the flags word is read but not stored in this.client.flags
HandleCflagsNotStored(s) ==
    IF Len(s.buf) < 4 THEN Result(0, s)
    ELSE Result(4, [s EXCEPT !.state = NBD_STATE_WAIT_OPTION])

\* _handle_cflags
HandleCflags(s) ==
    IF Len(s.buf) < 4 THEN Result(0, s)
    ELSE LET msg == Decode(s.buf, 4)
         IN Result(4, [s EXCEPT !.cflags = IF msg.t = "cflags" THEN msg.flags
                                                               ELSE 0,
                                !.state = NBD_STATE_WAIT_OPTION])

\* mutant: the option payload is not consumed (returns 16)
HandleOptionNoPayload(s) ==
    IF Len(s.buf) < 16 THEN Result(0, s)
    ELSE LET msg == Decode(s.buf, 16) IN
         IF ~(msg.t = "opt" /\ msg.magic) THEN Result(-1, s)
         ELSE IF Len(s.buf) < 16 + msg.len THEN Result(0, s)
         ELSE IF msg.opt = NBD_OPT_EXPORT_NAME
         THEN Result(16, [Send(s, ExportInfo(Padded(s.cflags, WordBits)))
                             EXCEPT !.state = NBD_STATE_TRANSMISSION])
         ELSE Result(16, Send(s, OptReply(msg.opt)))

\* _handle_option
HandleOption(s) ==
    IF Len(s.buf) < 16 THEN Result(0, s)
    ELSE LET msg == Decode(s.buf, 16) IN
         IF ~(msg.t = "opt" /\ msg.magic) THEN Result(-1, s)
         ELSE IF Len(s.buf) < 16 + msg.len THEN Result(0, s)
         ELSE IF msg.opt = NBD_OPT_EXPORT_NAME
         THEN Result(16 + msg.len,
                     [Send(s, ExportInfo(Padded(s.cflags, WordBits)))
                        EXCEPT !.state = NBD_STATE_TRANSMISSION])
         ELSE Result(16 + msg.len, Send(s, OptReply(msg.opt)))

\* mutant: the range check against file.size is missing
ReadRejectedNoSizeCheck(msg) ==
    \/ msg.offset > MaxSafe
    \/ msg.offset + msg.length > MaxSafe

\* _handle_cmd_read: the checks made before the FileReader is started
ReadRejected(msg) ==
    \/ msg.offset > MaxSafe
    \/ msg.offset + msg.length > MaxSafe
    \/ msg.offset + msg.length > FileSize

\* _handle_cmd_read: starts a FileReader on [offset, offset+length)
HandleCmdRead(s, h, msg) ==
    IF ReadRejected(msg) THEN Send(s, Reply(h, ENOSPC, 0, s.src))
    ELSE [s EXCEPT !.reads = @ \cup {[src |-> s.src, h |-> h,
                                      len |-> msg.length]}]

\* Mutants of the handlers, each a plausible slip in nbd.js.
\* a WRITE answered with a negative errno, as a C server would return it
HandleCmdWriteNegErrno(s, h, msg) ==
    IF Len(s.buf) < 28 + msg.length THEN Result(0, s)
    ELSE Result(28 + msg.length, Send(s, Reply(h, -EPERM, 0, s.src)))
\* a WRITE that waits for one byte more than its payload
HandleCmdWriteOffByOne(s, h, msg) ==
    IF Len(s.buf) < 28 + msg.length + 1 THEN Result(0, s)
    ELSE Result(28 + msg.length, Send(s, Reply(h, EPERM, 0, s.src)))

\* _handle_cmd, case NBD_CMD_WRITE: the payload is consumed, then EPERM
HandleCmdWrite(s, h, msg) ==
    IF Len(s.buf) < 28 + msg.length THEN Result(0, s)
    ELSE Result(28 + msg.length, Send(s, Reply(h, EPERM, 0, s.src)))

\* _handle_cmd together with _create_cmd_response for its error replies
HandleCmd(s) ==
    IF Len(s.buf) < 28 THEN Result(0, s)
    ELSE LET msg == Decode(s.buf, 28)
             h == s.buf[1].m
         IN
         IF ~(msg.t = "cmd" /\ msg.magic) THEN Result(-1, s)
         ELSE CASE msg.type = NBD_CMD_READ ->
                     Result(28, HandleCmdRead(s, h, msg))
                [] msg.type = NBD_CMD_DISC ->
                     Result(28, StopRec(s))
                [] msg.type = NBD_CMD_WRITE ->
                     HandleCmdWrite(s, h, msg)
                [] msg.type = NBD_CMD_TRIM ->
                     Result(28, Send(s, Reply(h, EPERM, 0, s.src)))
                [] OTHER ->
                     Result(28, Send(s, Reply(h, EINVAL, 0, s.src)))

Handler(s) ==
    CASE s.state = NBD_STATE_WAIT_CFLAGS  -> HandleCflags(s)
      [] s.state = NBD_STATE_WAIT_OPTION  -> HandleOption(s)
      [] s.state = NBD_STATE_TRANSMISSION -> HandleCmd(s)

\* mutant: msgbuf.slice(consumed) off by one
RECURSIVE PumpSliceOffByOne(_)
PumpSliceOffByOne(s) ==
    IF s.state \notin HandledStates THEN StopRec(s)
    ELSE LET r == Handler(s) IN
         IF r.n < 0 THEN StopRec(r.s)
         ELSE IF r.n = 0 THEN r.s
         ELSE IF r.n = Len(r.s.buf) THEN [r.s EXCEPT !.buf = <<>>]
         ELSE PumpSliceOffByOne([r.s EXCEPT !.buf = SubSeq(@, r.n, Len(@))])

\* the for(;;) loop of _on_ws_message
RECURSIVE Pump(_)
Pump(s) ==
    IF s.state \notin HandledStates THEN StopRec(s)
    ELSE LET r == Handler(s) IN
         IF r.n < 0 THEN StopRec(r.s)
         ELSE IF r.n = 0 THEN r.s
         ELSE IF r.n = Len(r.s.buf) THEN [r.s EXCEPT !.buf = <<>>]
         ELSE Pump([r.s EXCEPT !.buf = SubSeq(@, r.n + 1, Len(@))])

-----------------------------------------------------------------------------

Init ==
    /\ state = NBD_STATE_UNKNOWN
    /\ msgbuf = <<>>
    /\ cflags = 0
    /\ ws = NoSocket
    /\ sock = [c \in Conns |-> "none"]
    /\ reads = {}
    /\ out = [c \in Conns |-> <<>>]
    /\ sent = [c \in Conns |-> <<>>]
    /\ pending = [c \in Conns |-> <<>>]
    /\ cphase = [c \in Conns |-> "flags"]

\* start(): a new WebSocket; the caller starts an object that is not running
Start ==
    /\ state = NBD_STATE_UNKNOWN
    /\ ws < MaxStarts
    /\ state' = NBD_STATE_OPEN
    /\ ws' = ws + 1
    /\ sock' = [sock EXCEPT ![ws + 1] = "connecting"]
    /\ UNCHANGED <<msgbuf, cflags, reads, out, sent, pending, cphase>>

\* stop(), called by the page at any time after start()
Stop ==
    /\ ws # NoSocket
    /\ state # NBD_STATE_UNKNOWN
    /\ state' = NBD_STATE_UNKNOWN
    /\ sock' = [sock EXCEPT ![ws] = "closed"]
    /\ UNCHANGED <<msgbuf, cflags, ws, reads, out, sent, pending, cphase>>

\* _on_ws_open: client.flags = 0, then _negotiate sends the greeting
WsOpen ==
    /\ ws # NoSocket
    /\ sock[ws] = "connecting"
    /\ sock' = [sock EXCEPT ![ws] = "open"]
    /\ cflags' = 0
    /\ state' = NBD_STATE_WAIT_CFLAGS
    /\ out' = [out EXCEPT ![ws] = Append(@, Greeting)]
    /\ UNCHANGED <<msgbuf, ws, reads, sent, pending, cphase>>

\* the WebSocket fails to connect, or the peer closes it: nbd.js has no
\* onclose or onerror handler, so nothing else changes
WsClose ==
    /\ ws # NoSocket
    /\ sock[ws] \in {"connecting", "open"}
    /\ sock' = [sock EXCEPT ![ws] = "closed"]
    /\ UNCHANGED <<state, msgbuf, cflags, ws, reads, out, sent, pending,
                   cphase>>

\* the client writes one whole message to its end of the socket
ClientSend(c) ==
    /\ c # NoSocket
    /\ sock[c] = "open"
    /\ Len(sent[c]) < MaxMsgs
    /\ \E msg \in ClientMsgs(cphase[c]) :
          /\ sent' = [sent EXCEPT ![c] = Append(@, msg)]
          /\ pending' = [pending EXCEPT ![c] =
                            @ \o MsgBytes(c, Len(sent[c]) + 1, msg)]
          /\ cphase' = [cphase EXCEPT ![c] = NextPhase(@, msg)]
    /\ UNCHANGED <<state, msgbuf, cflags, ws, sock, reads, out>>

\* _on_ws_message: a chunk of the first n pending bytes arrives
WsMessage(c, n) ==
    /\ sock[c] = "open"
    /\ n \in 1..Len(pending[c])
    /\ LET s == Pump([state |-> state,
                      buf |-> msgbuf \o SubSeq(pending[c], 1, n),
                      cflags |-> cflags, wsOpen |-> TRUE,
                      sends |-> <<>>, reads |-> reads, src |-> ws])
       IN /\ state' = s.state
          /\ msgbuf' = s.buf
          /\ cflags' = s.cflags
          /\ reads' = s.reads
          /\ out' = [out EXCEPT ![ws] = @ \o s.sends]
          /\ sock' = [sock EXCEPT ![ws] = IF s.wsOpen THEN @ ELSE "closed"]
    /\ pending' = [pending EXCEPT ![c] = SubSeq(@, n + 1, Len(@))]
    /\ UNCHANGED <<ws, sent, cphase>>

\* reader.onload (ok) or reader.onerror: send on this.ws, whichever socket
\* that is now; a send on a closed socket is dropped, on a connecting one
\* it throws
ReadDone(r, ok) ==
    /\ r \in reads
    /\ reads' = reads \ {r}
    /\ out' = IF sock[ws] = "open"
              THEN [out EXCEPT ![ws] = Append(@,
                       IF ok THEN Reply(r.h, 0, r.len, r.src)
                       ELSE Reply(r.h, EIO, 0, r.src))]
              ELSE out
    /\ UNCHANGED <<state, msgbuf, cflags, ws, sock, sent, pending, cphase>>

Next ==
    \/ Start
    \/ Stop
    \/ WsOpen
    \/ WsClose
    \/ \E c \in Conns : ClientSend(c)
    \/ \E c \in Conns : \E n \in 1..Len(pending[c]) : WsMessage(c, n)
    \/ \E r \in reads, ok \in BOOLEAN : ReadDone(r, ok)

\* The event loop delivers what the client sent while the socket is open,
\* a WebSocket that is connecting eventually opens or fails, and every
\* FileReader eventually fires onload or onerror.  The page's start/stop
\* and the client's sends are not assumed.
Fairness ==
    /\ WF_vars(WsOpen)
    /\ \A c \in Conns : WF_vars(\E n \in 1..Len(pending[c]) : WsMessage(c, n))
    /\ WF_vars(\E r \in reads, ok \in BOOLEAN : ReadDone(r, ok))

Spec == Init /\ [][Next]_vars /\ Fairness

-----------------------------------------------------------------------------
(* Refinement of the message-level specification NBDAbstract.  A message  *)
(* counts as consumed once its last byte has left msgbuf: the unconsumed  *)
(* bytes, msgbuf followed by what is in transit, begin with the first byte *)
(* not consumed (one start of the object: msgbuf holds only bytes of the   *)
(* current connection).  msgbuf and pending are hidden.                    *)

Consumed ==
    [c \in Conns |->
        LET buf == (IF c = ws THEN msgbuf ELSE <<>>) \o pending[c]
        IN IF buf = <<>> THEN Len(sent[c]) ELSE buf[1].m - 1]

Abs == INSTANCE NBDAbstract WITH consumed <- Consumed

-----------------------------------------------------------------------------
(* Properties.                                                             *)

Frames ==
    {Greeting} \cup [kind : {"exportInfo"}, hi : Nat, lo : Nat, flags : {3},
                     pad : BOOLEAN]
    \cup [kind : {"optReply"}, opt : OptCodes, err : {NBD_REP_ERR_UNSUP}]
    \cup [kind : {"reply"}, h : 1..MaxMsgs, err : {0, EPERM, EIO, EINVAL, ENOSPC},
          len : Nat, src : Conns]

TypeOK ==
    /\ state \in {NBD_STATE_UNKNOWN, NBD_STATE_OPEN} \cup HandledStates
    /\ msgbuf \in Seq(Byte)
    /\ cflags \in ClientFlags \cup {0}
    /\ ws \in {NoSocket} \cup Conns
    /\ sock \in [Conns -> {"none", "connecting", "open", "closed"}]
    /\ reads \subseteq [src : Conns, h : 1..MaxMsgs, len : ReadLens]
    /\ out \in [Conns -> Seq(Frames)]
    /\ sent \in [Conns -> Seq(Msgs)]
    /\ pending \in [Conns -> Seq(Byte)]
    /\ cphase \in [Conns -> {"flags", "options", "transmission", "done"}]

\* The state the handler of the next message expects
Expects(st) ==
    CASE st = NBD_STATE_WAIT_CFLAGS  -> "cflags"
      [] st = NBD_STATE_WAIT_OPTION  -> "opt"
      [] st = NBD_STATE_TRANSMISSION -> "cmd"

(* Framing (spec 3, "Invariant"): while the object serves a connection, the *)
(* unconsumed bytes, msgbuf followed by what is still in transit, are the  *)
(* client's stream from the start of some message on, and that message is  *)
(* of the kind the current state's handler parses.  It is what keeps a     *)
(* WRITE payload, an option payload or a fragment of an earlier message    *)
(* from being parsed as a header, across any chunking of _on_ws_message.   *)
BufferFramed ==
    state \in HandledStates =>
        \E i \in 1..Len(sent[ws]) + 1 :
            /\ msgbuf \o pending[ws] = StreamFrom(ws, i)
            /\ i <= Len(sent[ws]) => sent[ws][i].t = Expects(state)

\* the error codes spec 4.4, 4.5 and 7 allow as the answer to msg: a READ
\* inside the file succeeds or fails with EIO, one past its end gets ENOSPC
AllowedErrs(msg) ==
    CASE msg.type = NBD_CMD_READ ->
              IF msg.offset + msg.length <= FileSize THEN {0, EIO} ELSE {ENOSPC}
      [] msg.type \in {NBD_CMD_WRITE, NBD_CMD_TRIM} -> {EPERM}
      [] OTHER -> {EINVAL}

(* Replies answer requests (spec 4.4-4.6, 8): every reply frame a socket   *)
(* carries answers a well-formed command that the client sent on that same *)
(* connection and that is not DISCONNECT, with an error code the command   *)
(* allows, data only on success and exactly as long as asked, and no       *)
(* request is answered twice, although READ replies are sent from          *)
(* FileReader callbacks in any order relative to the synchronous replies.  *)
RepliesAnswerRequests ==
    \A c \in Conns : \A i \in DOMAIN out[c] :
        LET f == out[c][i] IN
        f.kind = "reply" =>
            /\ f.src = c
            /\ f.h \in DOMAIN sent[c]
            /\ sent[c][f.h].t = "cmd" /\ sent[c][f.h].magic
            /\ sent[c][f.h].type # NBD_CMD_DISC
            /\ f.err \in AllowedErrs(sent[c][f.h])
            /\ f.len = IF f.err = 0 THEN sent[c][f.h].length ELSE 0
            /\ \A j \in DOMAIN out[c] :
                  (j # i /\ out[c][j].kind = "reply") => out[c][j].h # f.h

\* the negotiation frames a server following the client's messages sends:
\* the greeting, then one reply per option, padded as the client's flags ask
ExpectedNegotiation(c) ==
    LET opts == SelectSeq(sent[c], LAMBDA msg : msg.t = "opt" /\ msg.magic)
        pad == Len(sent[c]) > 0 /\ Padded(sent[c][1].flags, WordBits)
    IN <<Greeting>> \o
       [i \in 1..Len(opts) |->
           IF opts[i].opt = NBD_OPT_EXPORT_NAME THEN ExportInfo(pad)
           ELSE OptReply(opts[i].opt)]

(* Negotiation transcript (spec 4.2, 4.3): what each socket carried before *)
(* transmission is a prefix of the greeting followed by one answer per     *)
(* option in the order the client sent them -- a rejection that echoes the *)
(* option, or the export info with the padding the client's flags ask for  *)
(* -- and no command reply precedes the export info.                       *)
NegotiationTranscript ==
    \A c \in Conns :
        /\ IsPrefix(SelectSeq(out[c], LAMBDA f : f.kind # "reply"),
                    ExpectedNegotiation(c))
        /\ \A i \in DOMAIN out[c] :
              out[c][i].kind = "reply" =>
                  \E j \in 1..(i - 1) : out[c][j].kind = "exportInfo"

\* a well-formed command of the client other than DISCONNECT
Request(c, h) ==
    /\ h \in DOMAIN sent[c]
    /\ sent[c][h].t = "cmd" /\ sent[c][h].magic
    /\ sent[c][h].type # NBD_CMD_DISC

Answered(c, h) == \E i \in DOMAIN out[c] : out[c][i].kind = "reply" /\ out[c][i].h = h

(* Progress (spec 4.1, 4.5): every request the client sends is eventually  *)
(* answered, or its socket is closed -- a WRITE waiting for its payload,   *)
(* a message split over chunks, or a READ in a FileReader never stalls the *)
(* connection for good.  Since sent and out only grow and a closed socket  *)
(* stays closed, "infinitely often all requests sent so far are answered   *)
(* or the socket is closed" says that each request is answered in time.   *)
EveryRequestAnswered ==
    \A c \in Conns :
        []<>(\/ sock[c] = "closed"
             \/ \A h \in DOMAIN sent[c] : Request(c, h) => Answered(c, h))

(* The byte-level server implements the message-level one (spec 3: "any  *)
(* chunking of the incoming stream yields the same responses"): however   *)
(* _on_ws_message's chunks split the messages, each step either takes     *)
(* whole messages in order and answers them as NBDAbstract!Serve does, or *)
(* only moves bytes.                                                       *)
ImplementsAbstractSafety == Abs!SafetySpec

(* ... and, under the event loop's fairness, every message sent on an     *)
(* open socket is eventually taken: no chunking leaves a whole message    *)
(* waiting in msgbuf or in transit.                                        *)
ImplementsAbstract == Abs!Spec

=============================================================================
