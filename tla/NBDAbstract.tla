---------------------------- MODULE NBDAbstract ----------------------------
(***************************************************************************)
(* What jsnbd's NBDServer promises, at the level of whole messages: the    *)
(* server takes the client's messages in the order they were sent, each   *)
(* exactly once, and answers each by the handler of the state it is in.   *)
(* How the bytes are split into WebSocket chunks is invisible here: one   *)
(* step receives any number of whole messages (spec 3, "any chunking of   *)
(* the incoming stream yields the same responses").                        *)
(*                                                                         *)
(* consumed[c] counts the messages of connection c the server has taken.  *)
(* Everything else is as in NBDServer, which refines this module (see     *)
(* NBDServer!Abs).                                                         *)
(***************************************************************************)
EXTENDS Integers, Sequences, NBDProtocol

VARIABLES
    state,      \* this.state
    cflags,     \* this.client.flags
    ws,         \* this.ws: the connection of the current WebSocket
    sock,       \* readyState of each WebSocket: connecting, open, closed
    reads,      \* FileReaders whose onload/onerror has not yet run
    out,        \* frames each WebSocket carried to the client
    sent,       \* messages the client sent on each connection
    cphase,     \* the client's negotiation phase per connection
    consumed    \* messages of each connection the server has taken

vars == <<state, cflags, ws, sock, reads, out, sent, cphase, consumed>>

-----------------------------------------------------------------------------
(* One message is answered on a record s of the object's fields:          *)
(* [state, cflags, wsOpen, sends, reads, src, n], n the messages taken.    *)

SendMsg(s, f) == IF s.wsOpen THEN [s EXCEPT !.sends = Append(@, f)] ELSE s

StopMsg(s) == [s EXCEPT !.wsOpen = FALSE, !.state = NBD_STATE_UNKNOWN]

\* a READ the server answers with ENOSPC (spec 4.5): it ends past the file
OutOfRange(msg) == msg.offset + msg.length > FileSize

\* the handler of the current state applied to message h, the n-th taken:
\* _handle_cflags, _handle_option or _handle_cmd as one step
Serve(s, h, msg) ==
    LET t == [s EXCEPT !.n = @ + 1] IN
    CASE s.state = NBD_STATE_WAIT_CFLAGS ->
            [t EXCEPT !.cflags = msg.flags, !.state = NBD_STATE_WAIT_OPTION]
      [] s.state = NBD_STATE_WAIT_OPTION /\ msg.opt = NBD_OPT_EXPORT_NAME ->
            [SendMsg(t, ExportInfo(Padded(s.cflags, WordBits)))
                EXCEPT !.state = NBD_STATE_TRANSMISSION]
      [] s.state = NBD_STATE_WAIT_OPTION -> SendMsg(t, OptReply(msg.opt))
      [] msg.type = NBD_CMD_READ /\ OutOfRange(msg) ->
            SendMsg(t, Reply(h, ENOSPC, 0, s.src))
      [] msg.type = NBD_CMD_READ ->
            [t EXCEPT !.reads = @ \cup {[src |-> s.src, h |-> h,
                                         len |-> msg.length]}]
      [] msg.type = NBD_CMD_DISC -> StopMsg(t)
      [] msg.type \in {NBD_CMD_WRITE, NBD_CMD_TRIM} ->
            SendMsg(t, Reply(h, EPERM, 0, s.src))
      [] OTHER -> SendMsg(t, Reply(h, EINVAL, 0, s.src))

\* messages i..last of connection c, in order; a header with a wrong magic
\* stops the object and is not taken, and nothing is taken once stopped
RECURSIVE Deliver(_, _, _, _)
Deliver(s, c, i, last) ==
    IF i > last \/ s.state \notin HandledStates THEN s
    ELSE IF sent[c][i].t # "cflags" /\ ~sent[c][i].magic THEN StopMsg(s)
    ELSE Deliver(Serve(s, i, sent[c][i]), c, i + 1, last)

-----------------------------------------------------------------------------

Init ==
    /\ state = NBD_STATE_UNKNOWN
    /\ cflags = 0
    /\ ws = NoSocket
    /\ sock = [c \in Conns |-> "none"]
    /\ reads = {}
    /\ out = [c \in Conns |-> <<>>]
    /\ sent = [c \in Conns |-> <<>>]
    /\ cphase = [c \in Conns |-> "flags"]
    /\ consumed = [c \in Conns |-> 0]

Start ==
    /\ state = NBD_STATE_UNKNOWN
    /\ ws < MaxStarts
    /\ state' = NBD_STATE_OPEN
    /\ ws' = ws + 1
    /\ sock' = [sock EXCEPT ![ws + 1] = "connecting"]
    /\ UNCHANGED <<cflags, reads, out, sent, cphase, consumed>>

Stop ==
    /\ ws # NoSocket
    /\ state # NBD_STATE_UNKNOWN
    /\ state' = NBD_STATE_UNKNOWN
    /\ sock' = [sock EXCEPT ![ws] = "closed"]
    /\ UNCHANGED <<cflags, ws, reads, out, sent, cphase, consumed>>

WsOpen ==
    /\ ws # NoSocket
    /\ sock[ws] = "connecting"
    /\ sock' = [sock EXCEPT ![ws] = "open"]
    /\ cflags' = 0
    /\ state' = NBD_STATE_WAIT_CFLAGS
    /\ out' = [out EXCEPT ![ws] = Append(@, Greeting)]
    /\ UNCHANGED <<ws, reads, sent, cphase, consumed>>

WsClose ==
    /\ ws # NoSocket
    /\ sock[ws] \in {"connecting", "open"}
    /\ sock' = [sock EXCEPT ![ws] = "closed"]
    /\ UNCHANGED <<state, cflags, ws, reads, out, sent, cphase, consumed>>

\* the client sends one whole message
ClientSend(c) ==
    /\ c # NoSocket
    /\ sock[c] = "open"
    /\ Len(sent[c]) < MaxMsgs
    /\ \E msg \in ClientMsgs(cphase[c]) :
          /\ sent' = [sent EXCEPT ![c] = Append(@, msg)]
          /\ cphase' = [cphase EXCEPT ![c] = NextPhase(@, msg)]
    /\ UNCHANGED <<state, cflags, ws, sock, reads, out, consumed>>

\* the server takes the next messages of c, up to message last
Receive(c) ==
    /\ sock[c] = "open"
    /\ \E last \in (consumed[c] + 1)..Len(sent[c]) :
          LET s == Deliver([state |-> state, cflags |-> cflags,
                            wsOpen |-> TRUE, sends |-> <<>>, reads |-> reads,
                            src |-> ws, n |-> consumed[c]],
                           c, consumed[c] + 1, last)
          IN /\ state' = s.state
             /\ cflags' = s.cflags
             /\ reads' = s.reads
             /\ out' = [out EXCEPT ![ws] = @ \o s.sends]
             /\ sock' = [sock EXCEPT ![ws] = IF s.wsOpen THEN @ ELSE "closed"]
             /\ consumed' = [consumed EXCEPT ![c] = s.n]
    /\ UNCHANGED <<ws, sent, cphase>>

ReadDone(r, ok) ==
    /\ r \in reads
    /\ reads' = reads \ {r}
    /\ out' = IF sock[ws] = "open"
              THEN [out EXCEPT ![ws] = Append(@,
                       IF ok THEN Reply(r.h, 0, r.len, r.src)
                       ELSE Reply(r.h, EIO, 0, r.src))]
              ELSE out
    /\ UNCHANGED <<state, cflags, ws, sock, sent, cphase, consumed>>

Next ==
    \/ Start
    \/ Stop
    \/ WsOpen
    \/ WsClose
    \/ \E c \in Conns : ClientSend(c)
    \/ \E c \in Conns : Receive(c)
    \/ \E r \in reads, ok \in BOOLEAN : ReadDone(r, ok)

SafetySpec == Init /\ [][Next]_vars

\* a connecting socket opens or fails, messages sent on an open socket are
\* taken, and every FileReader completes
Spec ==
    /\ SafetySpec
    /\ WF_vars(WsOpen)
    /\ \A c \in Conns : WF_vars(Receive(c))
    /\ WF_vars(\E r \in reads, ok \in BOOLEAN : ReadDone(r, ok))

=============================================================================
