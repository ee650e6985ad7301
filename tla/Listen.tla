------------------------------- MODULE Listen -------------------------------
(***************************************************************************)
(* The listen command in binary mode: one goroutine that accepts           *)
(* connections, per connection a decoder (hadock.DecodeBinaryPackets) and  *)
(* a handler (the closure of ListenPackets), one converter (Convert), the  *)
(* loop of runListen that stores, notifies and queues for the modules, the *)
(* goroutine of the notification pool and the goroutine of the modules.    *)
(*                                                                         *)
(*   decoder(c) -> handler(c) -> q -> Convert -> iq -> runListen -> pq, mq *)
(*                                                                         *)
(* A packet is the pair <<c, n>>: the n-th frame of connection c.  What is *)
(* inside a frame (its instance, whether it decodes, the class of the HRDL *)
(* packet) is chosen when the code first looks at it.                      *)
(***************************************************************************)
EXTENDS Naturals, Sequences, FiniteSets

CONSTANTS
    Conns,          \* connections a client opens, each at most once
    MaxFrames,      \* bound: frames a client sends on one connection
    InstanceIds,    \* instances a frame can carry
    Instances,      \* the configured instances; {} means every instance
    Size,           \* capacity of q: the configured buffer, 1 if that is 0
    Buffer,         \* capacity of iq and of the queue of the modules
    PoolOn,         \* the pool has an interval (and so a queue)
    PoolCap,        \* capacity of the queue of the pool
    HasModules      \* at least one module is configured

ASSUME ListenAssumption ==
    /\ MaxFrames \in Nat
    /\ Size \in Nat \ {0}
    /\ Buffer \in Nat
    /\ Size = (IF Buffer = 0 THEN 1 ELSE Buffer)
    /\ PoolCap \in Nat \ {0}
    /\ PoolOn \in BOOLEAN
    /\ HasModules \in BOOLEAN
    /\ Instances \subseteq InstanceIds

Frame == Conns \X (1 .. MaxFrames)

VARIABLES
    proc,           \* the process: "up", "panicked" or "exited"
    accepting,      \* the accept loop runs; q is closed when it ends
    conn,           \* conn[c]: "new", "open", "eof" or "closed"
    pos,            \* pos[c]: frames of c the decoder has consumed
    dec,            \* dec[c]: packet the decoder of c is sending, if any
    hand,           \* hand[c]: packet the handler of c is sending, if any
    q,              \* channel of ListenPackets
    conv,           \* packet Convert is sending, if any
    iq,             \* channel of Convert
    iqClosed,       \* Convert has returned
    pc,             \* step of the loop of runListen
    item,           \* item of that iteration, if any
    pq,             \* queue of the pool
    mq,             \* queue of the modules
    mod,            \* goroutine of the modules: "recv" or "busy"
    rejected,       \* frames the decoder dropped
    errors,         \* packets Convert could not decode
    skipped,        \* packets Convert dropped because iq was full
    tried           \* tried[c]: frames of c given to fs.Store, in order

inVars   == <<accepting, conn, pos, dec, hand, rejected>>
convVars == <<conv, iqClosed, errors, skipped>>
mainVars == <<pc, item, tried>>
outVars  == <<pq, mq, mod>>
vars == <<proc, inVars, q, convVars, iq, mainVars, outVars>>

\* The contents of a channel, as a set.
Elems(s) == {s[i] : i \in DOMAIN s}

Init ==
    /\ proc = "up"
    /\ accepting = TRUE
    /\ conn = [c \in Conns |-> "new"]
    /\ pos = [c \in Conns |-> 0]
    /\ dec = [c \in Conns |-> {}]
    /\ hand = [c \in Conns |-> {}]
    /\ q = <<>>
    /\ conv = {}
    /\ iq = <<>>
    /\ iqClosed = FALSE
    /\ pc = "recv"
    /\ item = {}
    /\ pq = <<>>
    /\ mq = <<>>
    /\ mod = "recv"
    /\ rejected = {}
    /\ errors = {}
    /\ skipped = {}
    /\ tried = [c \in Conns |-> <<>>]

-----------------------------------------------------------------------------
(* The accept loop of ListenPackets. *)

Accept(c) ==
    /\ proc = "up"
    /\ accepting
    /\ conn[c] = "new"
    /\ conn' = [conn EXCEPT ![c] = "open"]
    /\ UNCHANGED <<proc, accepting, pos, dec, hand, rejected, q, convVars, iq,
                   mainVars, outVars>>

\* Any error of Accept ends the loop: the listener and q are closed while the
\* handlers of the accepted connections keep running.
AcceptFail ==
    /\ proc = "up"
    /\ accepting
    /\ accepting' = FALSE
    /\ UNCHANGED <<proc, conn, pos, dec, hand, rejected, q, convVars, iq,
                   mainVars, outVars>>

-----------------------------------------------------------------------------
(* The decoder of one connection, DecodeBinaryPackets. *)

Reading(c) == conn[c] = "open" /\ dec[c] = {}

\* The binary search in the sorted configuration.
Wanted(i) == Instances = {} \/ i \in Instances

\* A complete packet; the checksum is compared but a mismatch is ignored.
ReadPacket(c) ==
    /\ proc = "up"
    /\ Reading(c)
    /\ pos[c] < MaxFrames
    /\ pos' = [pos EXCEPT ![c] = @ + 1]
    /\ \E i \in InstanceIds :
          IF Wanted(i)
          THEN /\ dec' = [dec EXCEPT ![c] = {<<c, pos[c] + 1>>}]
               /\ UNCHANGED rejected
          ELSE /\ rejected' = rejected \cup {<<c, pos[c] + 1>>}
               /\ UNCHANGED dec
    /\ UNCHANGED <<proc, accepting, conn, hand, q, convVars, iq, mainVars,
                   outVars>>

\* ErrSkip, or any error other than the ones that end the connection.
ReadFailure(c) ==
    /\ proc = "up"
    /\ Reading(c)
    /\ pos[c] < MaxFrames
    /\ pos' = [pos EXCEPT ![c] = @ + 1]
    /\ rejected' = rejected \cup {<<c, pos[c] + 1>>}
    /\ UNCHANGED <<proc, accepting, conn, dec, hand, q, convVars, iq, mainVars,
                   outVars>>

\* End of file or an unsupported protocol: the decoder returns and closes its
\* channel.
ReadEnd(c) ==
    /\ proc = "up"
    /\ Reading(c)
    /\ conn' = [conn EXCEPT ![c] = "eof"]
    /\ UNCHANGED <<proc, accepting, pos, dec, hand, rejected, q, convVars, iq,
                   mainVars, outVars>>

-----------------------------------------------------------------------------
(* The handler of one connection, the closure of ListenPackets. *)

\* The channel of the decoder is unbuffered: a send meets a receive.
HandlerRecv(c) ==
    /\ proc = "up"
    /\ dec[c] # {}
    /\ hand[c] = {}
    /\ hand' = [hand EXCEPT ![c] = dec[c]]
    /\ dec' = [dec EXCEPT ![c] = {}]
    /\ UNCHANGED <<proc, accepting, conn, pos, rejected, q, convVars, iq,
                   mainVars, outVars>>

\* Fault: a select with a default branch, so that a full q loses the packet.
HandlerSendLossy(c) ==
    /\ proc = "up"
    /\ accepting
    /\ \E x \in hand[c] : q' = IF Len(q) < Size THEN Append(q, x) ELSE q
    /\ hand' = [hand EXCEPT ![c] = {}]
    /\ UNCHANGED <<proc, accepting, conn, pos, dec, rejected, convVars, iq,
                   mainVars, outVars>>

HandlerSend(c) ==
    /\ proc = "up"
    /\ accepting
    /\ Len(q) < Size
    /\ \E x \in hand[c] : q' = Append(q, x)
    /\ hand' = [hand EXCEPT ![c] = {}]
    /\ UNCHANGED <<proc, accepting, conn, pos, dec, rejected, convVars, iq,
                   mainVars, outVars>>

\* A send on a closed channel, also one that was blocked when it was closed.
HandlerPanic(c) ==
    /\ proc = "up"
    /\ ~accepting
    /\ hand[c] # {}
    /\ proc' = "panicked"
    /\ UNCHANGED <<inVars, q, convVars, iq, mainVars, outVars>>

\* The channel of the decoder is closed and drained: the socket is closed.
HandlerClose(c) ==
    /\ proc = "up"
    /\ conn[c] = "eof"
    /\ hand[c] = {}
    /\ conn' = [conn EXCEPT ![c] = "closed"]
    /\ UNCHANGED <<proc, accepting, pos, dec, hand, rejected, q, convVars, iq,
                   mainVars, outVars>>

-----------------------------------------------------------------------------
(* Convert. *)

\* The next packet is a table or an image; Convert is about to send its item.
ConvertRecv ==
    /\ proc = "up"
    /\ ~iqClosed
    /\ conv = {}
    /\ q # <<>>
    /\ conv' = {Head(q)}
    /\ q' = Tail(q)
    /\ UNCHANGED <<proc, inVars, iqClosed, errors, skipped, iq, mainVars,
                   outVars>>

\* No decoder for its version, a decoding error, or neither table nor image.
ConvertError ==
    /\ proc = "up"
    /\ ~iqClosed
    /\ conv = {}
    /\ q # <<>>
    /\ errors' = errors \cup {Head(q)}
    /\ q' = Tail(q)
    /\ UNCHANGED <<proc, inVars, conv, iqClosed, skipped, iq, mainVars,
                   outVars>>

\* Fault: room for one item too many.
ConvertSendOverfull ==
    /\ proc = "up"
    /\ Len(iq) <= Buffer
    /\ \E x \in conv : iq' = Append(iq, x)
    /\ conv' = {}
    /\ UNCHANGED <<proc, inVars, q, iqClosed, errors, skipped, mainVars,
                   outVars>>

ConvertSend ==
    /\ proc = "up"
    /\ Len(iq) < Buffer
    /\ \E x \in conv : iq' = Append(iq, x)
    /\ conv' = {}
    /\ UNCHANGED <<proc, inVars, q, iqClosed, errors, skipped, mainVars,
                   outVars>>

\* With a buffer of 0 the send succeeds only while runListen is parked on the
\* receive; the same holds for the queue of the modules.
ConvertHandOff ==
    /\ proc = "up"
    /\ Buffer = 0
    /\ conv # {}
    /\ pc = "recv"
    /\ item' = conv
    /\ pc' = "store"
    /\ conv' = {}
    /\ UNCHANGED <<proc, inVars, q, iqClosed, errors, skipped, iq, tried,
                   outVars>>

\* Fault: no default branch, the send blocks.
ConvertSkipBlocked == FALSE

\* The default branch of the select.
ConvertSkip ==
    /\ proc = "up"
    /\ conv # {}
    /\ Len(iq) = Buffer
    /\ skipped' = skipped \cup conv
    /\ conv' = {}
    /\ UNCHANGED <<proc, inVars, q, iqClosed, errors, iq, mainVars, outVars>>

\* Fault: Convert returns as soon as q is closed.
ConvertReturnEarly ==
    /\ proc = "up"
    /\ ~accepting
    /\ ~iqClosed
    /\ conv = {}
    /\ iqClosed' = TRUE
    /\ UNCHANGED <<proc, inVars, q, conv, errors, skipped, iq, mainVars,
                   outVars>>

\* The range over q ends when q is closed and empty; iq is closed.
ConvertReturn ==
    /\ proc = "up"
    /\ ~accepting
    /\ ~iqClosed
    /\ q = <<>>
    /\ conv = {}
    /\ iqClosed' = TRUE
    /\ UNCHANGED <<proc, inVars, q, conv, errors, skipped, iq, mainVars,
                   outVars>>

-----------------------------------------------------------------------------
(* The loop of runListen. *)

\* Fault: several workers, as in the version that is commented out: whichever
\* runs first stores first.
MainRecvAny ==
    /\ proc = "up"
    /\ pc = "recv"
    /\ \E i \in DOMAIN iq :
          /\ item' = {iq[i]}
          /\ iq' = SubSeq(iq, 1, i - 1) \o SubSeq(iq, i + 1, Len(iq))
    /\ pc' = "store"
    /\ UNCHANGED <<proc, inVars, q, convVars, tried, outVars>>

MainRecv ==
    /\ proc = "up"
    /\ pc = "recv"
    /\ iq # <<>>
    /\ item' = {Head(iq)}
    /\ iq' = Tail(iq)
    /\ pc' = "store"
    /\ UNCHANGED <<proc, inVars, q, convVars, tried, outVars>>

\* Fault: a failed store is tried again.
MainStoreRetry ==
    /\ proc = "up"
    /\ pc = "store"
    /\ \E x \in item : tried' = [tried EXCEPT ![x[1]] = Append(@, x[2])]
    /\ pc' \in {"store", "notify"}
    /\ UNCHANGED <<proc, inVars, q, convVars, iq, item, outVars>>

\* The outcome of fs.Store is only logged: a failure changes nothing here.
MainStore ==
    /\ proc = "up"
    /\ pc = "store"
    /\ \E x \in item : tried' = [tried EXCEPT ![x[1]] = Append(@, x[2])]
    /\ pc' = "notify"
    /\ UNCHANGED <<proc, inVars, q, convVars, iq, item, outVars>>

\* Fault: the notification does not wait for the storage.
MainNotifyEarly ==
    /\ proc = "up"
    /\ pc \in {"store", "notify"}
    /\ pc' = IF pc = "store" THEN "store" ELSE "queue"
    /\ \E recent \in BOOLEAN :
          IF PoolOn /\ recent /\ Len(pq) < PoolCap
          THEN \E x \in item : pq' = Append(pq, x)
          ELSE UNCHANGED pq
    /\ UNCHANGED <<proc, inVars, q, convVars, iq, item, tried, mq, mod>>

\* Pool.Notify: nothing without a queue or for a packet that is too old, and
\* the packet is dropped when the queue is full.
MainNotify ==
    /\ proc = "up"
    /\ pc = "notify"
    /\ pc' = "queue"
    /\ \E recent \in BOOLEAN :
          IF PoolOn /\ recent /\ Len(pq) < PoolCap
          THEN \E x \in item : pq' = Append(pq, x)
          ELSE UNCHANGED pq
    /\ UNCHANGED <<proc, inVars, q, convVars, iq, item, tried, mq, mod>>

MainQueue ==
    /\ proc = "up"
    /\ pc = "queue"
    /\ pc' = "recv"
    /\ item' = {}
    /\ \/ /\ HasModules
          /\ Len(mq) < Buffer
          /\ \E x \in item : mq' = Append(mq, x)
          /\ UNCHANGED mod
       \/ /\ HasModules
          /\ Buffer = 0
          /\ mod = "recv"
          /\ mod' = "busy"
          /\ UNCHANGED mq
       \/ /\ HasModules => Len(mq) = Buffer
          /\ UNCHANGED <<mq, mod>>
    /\ UNCHANGED <<proc, inVars, q, convVars, iq, tried, pq>>

\* The range over iq ends, runListen returns and the process exits, whatever
\* the other goroutines are doing.
MainReturn ==
    /\ proc = "up"
    /\ pc = "recv"
    /\ iqClosed
    /\ iq = <<>>
    /\ proc' = "exited"
    /\ UNCHANGED <<inVars, q, convVars, iq, mainVars, outVars>>

-----------------------------------------------------------------------------
(* The consumers: the pool (its aggregation is not part of this module) and *)
(* the modules.                                                             *)

PoolRecv ==
    /\ proc = "up"
    /\ pq # <<>>
    /\ pq' = Tail(pq)
    /\ UNCHANGED <<proc, inVars, q, convVars, iq, mainVars, mq, mod>>

ModuleRecv ==
    /\ proc = "up"
    /\ mod = "recv"
    /\ mq # <<>>
    /\ mq' = Tail(mq)
    /\ mod' = "busy"
    /\ UNCHANGED <<proc, inVars, q, convVars, iq, mainVars, pq>>

\* ms.Process has returned, with or without an error.
ModuleDone ==
    /\ proc = "up"
    /\ mod = "busy"
    /\ mod' = "recv"
    /\ UNCHANGED <<proc, inVars, q, convVars, iq, mainVars, pq, mq>>

-----------------------------------------------------------------------------
HandlerStep(c) ==
    HandlerRecv(c) \/ HandlerSend(c) \/ HandlerPanic(c) \/ HandlerClose(c)

ConvertStep ==
    \/ ConvertRecv \/ ConvertError \/ ConvertSend \/ ConvertHandOff
    \/ ConvertSkip \/ ConvertReturn

MainStep == MainRecv \/ MainStore \/ MainNotify \/ MainQueue \/ MainReturn

\* The process has stopped: the only states the system may remain in.
Stopped == proc # "up" /\ UNCHANGED vars

Next ==
    \/ \E c \in Conns :
          \/ Accept(c)
          \/ ReadPacket(c)
          \/ ReadFailure(c)
          \/ ReadEnd(c)
          \/ HandlerStep(c)
    \/ AcceptFail
    \/ ConvertStep
    \/ MainStep
    \/ PoolRecv
    \/ ModuleRecv
    \/ ModuleDone
    \/ Stopped

Spec == Init /\ [][Next]_vars

\* Handlers and converter are scheduled when they can run.  Nothing is assumed
\* of the clients (a connection may never be opened, stay silent, or never be
\* closed), nor of the storage, which may hang in fs.Store for ever.
FairSpec ==
    /\ Spec
    /\ \A c \in Conns : WF_vars(HandlerStep(c))
    /\ WF_vars(ConvertStep)

-----------------------------------------------------------------------------
(* Properties. *)

\* Every variable keeps its type; a goroutine holds at most one packet and the
\* channels of ListenPackets, Convert, the pool and the modules keep to their
\* capacity.
TypeOK ==
    /\ proc \in {"up", "panicked", "exited"}
    /\ accepting \in BOOLEAN
    /\ conn \in [Conns -> {"new", "open", "eof", "closed"}]
    /\ pos \in [Conns -> 0 .. MaxFrames]
    /\ dec \in [Conns -> SUBSET Frame]
    /\ hand \in [Conns -> SUBSET Frame]
    /\ q \in Seq(Frame) /\ Len(q) <= Size
    /\ conv \subseteq Frame
    /\ iq \in Seq(Frame) /\ Len(iq) <= Buffer
    /\ iqClosed \in BOOLEAN
    /\ pc \in {"recv", "store", "notify", "queue"}
    /\ item \subseteq Frame
    /\ pq \in Seq(Frame) /\ Len(pq) <= PoolCap
    /\ mq \in Seq(Frame) /\ Len(mq) <= Buffer
    /\ mod \in {"recv", "busy"}
    /\ rejected \subseteq Frame
    /\ errors \subseteq Frame
    /\ skipped \subseteq Frame
    /\ tried \in [Conns -> Seq(1 .. MaxFrames)]

\* The frames given to fs.Store.
Tried == {x \in Frame : x[2] \in Elems(tried[x[1]])}

\* The packets of one connection reach fs.Store in the order in which the
\* client sent them, and none of them twice, whatever is dropped on the way and
\* however the five goroutines a packet passes through interleave.
StoredInOrder ==
    \A c \in Conns : \A i, j \in DOMAIN tried[c] :
        i < j => tried[c][i] < tried[c][j]

\* Where a frame can be.
Places ==
    [rejected |-> rejected,
     decoder  |-> UNION {dec[c] : c \in Conns},
     handler  |-> UNION {hand[c] : c \in Conns},
     q        |-> Elems(q),
     convert  |-> conv,
     errors   |-> errors,
     skipped  |-> skipped,
     iq       |-> Elems(iq),
     main     |-> IF pc = "store" THEN item ELSE {},
     stored   |-> Tried]

\* No silent loss and no duplication: every frame the decoders consumed is in
\* exactly one place, in flight or counted under one outcome, also after the
\* process stopped.
Accounted ==
    \A x \in Frame :
        Cardinality({p \in DOMAIN Places : x \in Places[p]}) =
            IF x[2] <= pos[x[1]] THEN 1 ELSE 0

\* Closing q is the graceful way to stop: runListen returns only when every
\* packet that had entered q was converted and stored (or counted as dropped).
ExitDrained ==
    proc = "exited" => q = <<>> /\ conv = {} /\ iq = <<>> /\ item = {}

\* Nobody hears of a packet before it was given to the storage: what waits for
\* the notifiers or the modules has been through fs.Store.
AnnouncedAfterStore == Elems(pq) \cup Elems(mq) \subseteq Tried

\* If the calls of fs.Store return, every packet that entered q is settled,
\* unless the process panics: the pipeline never blocks on the modules, which
\* may stand still.
QueuedSettles ==
    WF_vars(MainStep) =>
        \A x \in Frame :
            x \in Elems(q) ~>
                (x \in errors \cup skipped \cup Tried \/ proc = "panicked")

\* A connection whose client is gone is closed, unless the process stops, even
\* when the storage hangs: the converter goes on dropping packets.
ConnReleased ==
    \A c \in Conns : conn[c] = "eof" ~> (conn[c] = "closed" \/ proc # "up")

\* The pipeline is a lossy queue per connection.
LastTried(c) == IF tried[c] = <<>> THEN 0 ELSE tried[c][Len(tried[c])]

Fifo == INSTANCE LossyFifo
            WITH received <- pos, last <- [c \in Conns |-> LastTried(c)]

\* Every step of the goroutines is a step of LossyFifo or leaves the frames
\* received and stored as they are.
ImplementsFifo == Fifo!FifoSpec

\* README.md, "For each packets received, hadock will: [...] store the raw
\* data": when the process stops, no packet that was received is left
\* unhandled.
ReceivedIsHandled ==
    proc # "up" =>
        \A x \in Frame :
            x[2] <= pos[x[1]] =>
                x \in rejected \cup errors \cup skipped \cup Tried
=============================================================================
