------------------------------ MODULE Cascade -------------------------------
(***************************************************************************)
(* One connection of the listen command whose bytes are copied to a second *)
(* hadock.  The decoder of the connection reads through an io.TeeReader:   *)
(* what it reads is written to the proxy before it is decoded.  The proxy  *)
(* discards what it is given after an error, until a goroutine has         *)
(* connected again; then it goes on with the next bytes, wherever in a     *)
(* frame they are, and the decoder of the second hadock looks for a        *)
(* preamble, four bytes at a time.                                         *)
(*                                                                         *)
(* Positions in the stream count bytes.  The bytes of a frame are taken to *)
(* hold no preamble but the one at its start.                              *)
(***************************************************************************)
EXTENDS Naturals, Sequences, SequencesExt, FiniteSetsExt

CONSTANTS
    Streams,        \* what a client may send: sequences of lengths of frames
    Reads,          \* how much is read at once
    MaxBreaks       \* bound: connections to the second hadock that break

ASSUME CascadeAssumption ==
    /\ \A s \in Streams : s \in Seq(Nat \ 0 .. 3)
    /\ Reads \subseteq Nat \ {0}
    /\ MaxBreaks \in Nat

VARIABLES
    stream,         \* what the client sends
    lpc,            \* the connection: "dial", "read", "write", "ended", "closed"
    pos,            \* bytes read from the client
    written,        \* bytes given to the proxy
    writer,         \* writer of the proxy: "none" (no proxy), "conn", "discard"
    conns,          \* connections to the second hadock, see Connection
    cur,            \* number of the Conn of the proxy, 0 for none
    dialing,        \* goroutines that try to connect again
    closing,        \* connections such a goroutine replaced and is to close
    late,           \* one was dialing when the handler returned
    up,             \* the second hadock accepts connections
    stalled,        \* it does not read what is written to it
    breaks          \* connections broken so far

vars == <<stream, lpc, written, pos, writer, conns, cur, dialing, closing, late,
          up, stalled, breaks>>

\* What a connection carries, from where, and what was decoded from it.
Connection(p) == [start |-> p, len |-> 0, open |-> TRUE, alive |-> TRUE,
                  at |-> p, got |-> <<>>]

Init ==
    /\ stream \in Streams
    /\ lpc = "dial"
    /\ pos = 0
    /\ written = 0
    /\ writer = "none"
    /\ conns = <<>>
    /\ cur = 0
    /\ dialing = 0
    /\ closing = {}
    /\ late = FALSE
    /\ up \in BOOLEAN
    /\ stalled = FALSE
    /\ breaks = 0

Begin(k) == FoldLeft(LAMBDA x, y : x + y, 0, SubSeq(stream, 1, k - 1))
End(k)   == Begin(k) + stream[k]
Total    == Begin(Len(stream) + 1)

-----------------------------------------------------------------------------
(* The handler of the connection and the decoder that reads from it. *)

\* cascading.Proxy: without a connection there is no proxy for this client.
Proxy ==
    /\ lpc = "dial"
    /\ lpc' = "read"
    /\ IF up
       THEN conns' = <<Connection(0)>> /\ cur' = 1 /\ writer' = "conn"
       ELSE UNCHANGED <<conns, cur, writer>>
    /\ UNCHANGED <<stream, written, pos, dialing, closing, late, up, stalled, breaks>>

\* The TeeReader has read up to n bytes from the client.
Read(n) ==
    /\ lpc = "read"
    /\ pos < Total
    /\ pos' = Min({pos + n, Total})
    /\ IF writer = "none"
       THEN written' = pos' /\ UNCHANGED lpc
       ELSE lpc' = "write" /\ UNCHANGED written
    /\ UNCHANGED <<stream, writer, conns, cur, dialing, closing, late, up, stalled, breaks>>

\* proxy.Write succeeds; what a broken connection takes is lost.
WriteConn ==
    /\ lpc = "write"
    /\ writer = "conn"
    /\ ~stalled
    /\ lpc' = "read"
    /\ written' = pos
    /\ conns' = [conns EXCEPT ![cur].len = IF conns[cur].alive THEN @ + (pos - written) ELSE @]
    /\ UNCHANGED <<stream, pos, writer, cur, dialing, closing, late, up, stalled, breaks>>

\* proxy.Write has an error: it is not returned, what follows is discarded and a
\* goroutine connects again.
Failed ==
    /\ lpc' = "read"
    /\ written' = pos
    /\ writer' = "discard"
    /\ dialing' = dialing + 1

WriteFails ==
    /\ lpc = "write"
    /\ writer = "conn"
    /\ ~conns[cur].alive
    /\ Failed
    /\ UNCHANGED <<stream, pos, conns, cur, closing, late, up, stalled, breaks>>

\* The connection breaks in the middle of a write: a part of it arrives.
WriteBreaks ==
    /\ lpc = "write"
    /\ writer = "conn"
    /\ conns[cur].alive
    /\ breaks < MaxBreaks
    /\ breaks' = breaks + 1
    /\ \E n \in 0 .. pos - written :
          conns' = [conns EXCEPT ![cur].len = @ + n, ![cur].alive = FALSE]
    /\ Failed
    /\ UNCHANGED <<stream, pos, cur, closing, late, up, stalled>>

\* Fault: Write waits for the new connection.
WriteDiscardWaits ==
    /\ lpc = "write"
    /\ writer = "discard"
    /\ dialing = 0
    /\ lpc' = "read"
    /\ written' = pos
    /\ UNCHANGED <<stream, pos, writer, conns, cur, dialing, closing, late, up, stalled, breaks>>

WriteDiscard ==
    /\ lpc = "write"
    /\ writer = "discard"
    /\ lpc' = "read"
    /\ written' = pos
    /\ UNCHANGED <<stream, pos, writer, conns, cur, dialing, closing, late, up, stalled, breaks>>

\* The client has closed the connection: the decoder returns.
ReadEnd ==
    /\ lpc = "read"
    /\ pos = Total
    /\ lpc' = "ended"
    /\ UNCHANGED <<stream, written, pos, writer, conns, cur, dialing, closing, late,
                   up, stalled, breaks>>

\* The deferred calls of the handler close the Conn the proxy has now; what was
\* written to it still arrives.
HandlerClose ==
    /\ lpc = "ended"
    /\ lpc' = "closed"
    /\ late' = (dialing > 0)
    /\ conns' = IF cur = 0 THEN conns ELSE [conns EXCEPT ![cur].open = FALSE]
    /\ UNCHANGED <<stream, written, pos, writer, cur, dialing, closing, up, stalled, breaks>>

-----------------------------------------------------------------------------
(* proxy.reconnect. *)

\* Fault: the writer of the proxy is not replaced with its Conn.
RedialMute ==
    /\ dialing > 0
    /\ up
    /\ dialing' = dialing - 1
    /\ conns' = Append(conns, Connection(written))
    /\ cur' = Len(conns')
    /\ closing' = closing \cup {cur}
    /\ UNCHANGED <<stream, lpc, written, pos, writer, late, up, stalled, breaks>>

\* DialTimeout succeeds; under the lock the new connection is put in place.
Redial ==
    /\ dialing > 0
    /\ up
    /\ dialing' = dialing - 1
    /\ conns' = Append(conns, Connection(written))
    /\ cur' = Len(conns')
    /\ closing' = closing \cup {cur}
    /\ writer' = "conn"
    /\ UNCHANGED <<stream, lpc, written, pos, late, up, stalled, breaks>>

\* Fault: the connection to be closed is looked up when the goroutine returns.
CloseOldLate(c) ==
    /\ c \in closing
    /\ closing' = closing \ {c}
    /\ conns' = [conns EXCEPT ![cur].open = FALSE]
    /\ UNCHANGED <<stream, lpc, written, pos, writer, cur, dialing, late, up, stalled, breaks>>

\* The deferred Close of the connection that was there when it started.
CloseOld(c) ==
    /\ c \in closing
    /\ closing' = closing \ {c}
    /\ conns' = [conns EXCEPT ![c].open = FALSE]
    /\ UNCHANGED <<stream, lpc, written, pos, writer, cur, dialing, late, up, stalled, breaks>>

-----------------------------------------------------------------------------
(* The second hadock and the network. *)

\* Fault: the decoder skips two bytes too many.
SkippedSix(p) == p + 6

\* What readPreamble has read of something else than a preamble.
Skipped(p) == p + 4

\* The frame that begins at p, if any, and where the decoder goes on from p.
FrameAt(p) == {k \in DOMAIN stream : Begin(k) = p}
After(p)   == IF FrameAt(p) = {} THEN Skipped(p) ELSE End(CHOOSE k \in FrameAt(p) : TRUE)

\* As much as it needs for that has arrived on connection c.
Arrived(c) == After(conns[c].at) <= conns[c].start + conns[c].len

\* DecodePacket: a preamble that is not one is skipped, a frame is read whole.
RemoteRead(c) ==
    /\ ~stalled
    /\ Arrived(c)
    /\ conns' = [conns EXCEPT ![c].at  = After(@),
                              ![c].got = @ \o SetToSeq(FrameAt(conns[c].at))]
    /\ UNCHANGED <<stream, lpc, written, pos, writer, cur, dialing, closing, late,
                   up, stalled, breaks>>

\* A connection breaks; what was not delivered yet is lost from somewhere on.
Break(c) ==
    /\ conns[c].alive
    /\ breaks < MaxBreaks
    /\ breaks' = breaks + 1
    /\ \E n \in 0 .. conns[c].len :
          /\ conns[c].at <= conns[c].start + n
          /\ conns' = [conns EXCEPT ![c].len = n, ![c].alive = FALSE]
    /\ UNCHANGED <<stream, lpc, written, pos, writer, cur, dialing, closing, late, up, stalled>>

RemoteChanges ==
    /\ \/ up' = ~up /\ UNCHANGED stalled
       \/ stalled' = ~stalled /\ UNCHANGED up
    /\ UNCHANGED <<stream, lpc, written, pos, writer, conns, cur, dialing, closing, late, breaks>>

-----------------------------------------------------------------------------
LocalStep ==
    \/ Proxy
    \/ \E n \in Reads : Read(n)
    \/ WriteConn \/ WriteFails \/ WriteBreaks \/ WriteDiscard
    \/ ReadEnd
    \/ HandlerClose

ReconnectStep == Redial \/ \E c \in closing : CloseOld(c)

RemoteStep == \E c \in DOMAIN conns : RemoteRead(c)

Next ==
    \/ LocalStep
    \/ ReconnectStep
    \/ RemoteStep
    \/ \E c \in DOMAIN conns : Break(c)
    \/ RemoteChanges

\* The goroutines run, those of the second hadock too, while it reads.  The
\* client sends all of its stream here.
Spec ==
    /\ Init /\ [][Next]_vars
    /\ WF_vars(LocalStep) /\ WF_vars(ReconnectStep) /\ WF_vars(RemoteStep)

-----------------------------------------------------------------------------
(* Properties. *)

\* The decoder of the connection gets everything the client sends, whatever
\* happens to the second hadock and to the connections to it.
LocalComplete == lpc \in {"ended", "closed"} => pos = Total

\* The second hadock gets the frames in the order they were sent and each at
\* most once, on a connection and from one connection to the next.
RemoteOrdered ==
    \A b, c \in DOMAIN conns : \A i \in DOMAIN conns[b].got, j \in DOMAIN conns[c].got :
        b < c \/ (b = c /\ i < j) => conns[b].got[i] < conns[c].got[j]

\* Frames that begin at a multiple of four bytes from the start of connection c,
\* which are those its decoder can be in step with, and the frames from there on.
InStepOf(c) == {k \in DOMAIN stream : /\ Begin(k) >= conns[c].start
                                     /\ (Begin(k) - conns[c].start) % 4 = 0}
Due(c)      == {k \in DOMAIN stream : \E j \in InStepOf(c) : j <= k}

\* A connection that was made in the middle of a frame is back in step at the
\* first such frame: that one and all the frames behind it that arrived whole
\* are decoded, once everything that arrived is read.
RemoteFinds ==
    \A c \in DOMAIN conns :
        ~Arrived(c) =>
            \A k \in Due(c) :
                End(k) <= conns[c].start + conns[c].len => k \in ToSet(conns[c].got)

\* The second hadock gets what it can get, in order and once.
RemoteExact == RemoteOrdered /\ RemoteFinds

\* No connection to the second hadock is left open: the open ones are the one
\* the proxy writes to, until the handler returns, and the ones a goroutine is
\* about to close.  Only a goroutine that was still dialing when the handler
\* returned leaves its connection open, for ever.  There is at most one such
\* goroutine, and only while the proxy discards.
NoLeak ==
    /\ dialing = IF writer = "discard" THEN 1 ELSE 0
    /\ \A c \in DOMAIN conns : conns[c].open =>
           c \in closing \/ (c = cur /\ (lpc # "closed" \/ late))

\* Everything the client sends is decoded and its connection is released, with
\* or without a second hadock, if that one does not stop reading for good: a
\* write to it that never returns stops the reading of the client.
LocalEnds ==
    /\ []LocalComplete
    /\ <>[]~stalled => <>(lpc = "closed")

\* What the client sends after the proxy has connected again reaches the second
\* hadock, if that one goes on reading and this connection does not break too:
\* all the frames from the first one it can be in step with, to the last.
Forwarded ==
    <>[]~stalled =>
        (lpc = "closed" ~> \/ cur = 0 \/ ~conns[cur].alive
                           \/ Due(cur) \subseteq ToSet(conns[cur].got))
=============================================================================
