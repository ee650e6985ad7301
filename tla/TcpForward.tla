----------------------------- MODULE TcpForward -----------------------------
(***************************************************************************)
(* The forwarding plug-in of the ground station software: the threads in   *)
(* which the StreamAPI calls TcpForwardPlugin::handlePacket, the thread of *)
(* TcpForwardClient that owns the socket (loop), and the thread that calls *)
(* Init and Reset.  A buffer is named by the sequence number written into  *)
(* it; the critical sections under bufferQueueMutex are single steps, and  *)
(* so is every read of the unlocked flags active and connected.            *)
(***************************************************************************)
EXTENDS Naturals, Sequences, FiniteSets

CONSTANTS
    Threads,        \* threads in which handlePacket is called
    MaxPackets,     \* bound: packets received, below 2^16
    MaxStarts,      \* bound: calls of Init
    QueueSize,      \* configured size of the queue; 0 means unbounded
    Parts,          \* calls of ::send a buffer takes
    MaxFds,         \* descriptors the process may hold
    EarlyReset,     \* Reset may come before the new thread has run
    NameMayFail     \* gethostbyname may fail

ASSUME TcpForwardAssumption ==
    /\ MaxPackets \in Nat /\ MaxPackets <= 65535
    /\ MaxStarts \in Nat
    /\ QueueSize \in Nat
    /\ Parts \in Nat \ {0}
    /\ MaxFds \in Nat
    /\ EarlyReset \in BOOLEAN
    /\ NameMayFail \in BOOLEAN

Buffer == 0 .. MaxPackets - 1

VARIABLES
    active,         \* static flag active
    connected,      \* static flag connected
    queue,          \* bufferQueue
    sequence,       \* sequenceCounter
    by,             \* by[n + 1]: the thread that built buffer n
    cpc,            \* cpc[t]: step of thread t in handlePacket and send
    cbuf,           \* cbuf[t]: buffer thread t holds, if any
    freed,          \* freed[n]: how often buffer n was deleted
    spc,            \* step of the thread of the client
    sbuf,           \* buffer that thread is sending, if any
    left,           \* calls of ::send it still needs
    fds,            \* descriptors in use, leaked ones included
    main,           \* caller of Init and Reset: "idle", "running" or "join"
    starts,         \* calls of Init so far
    serverUp,       \* the TCP server listens
    alive,          \* the current connection is not broken
    room,           \* its socket takes more: the server reads what it is sent
    wire            \* what was written to the current connection, by buffer

callVars == <<sequence, by, cpc, cbuf>>
envVars  == <<serverUp, alive, room>>
vars == <<active, connected, queue, callVars, freed, spc, sbuf, left, fds,
          main, starts, envVars, wire>>

Elems(s) == {s[i] : i \in DOMAIN s}

Init ==
    /\ active = FALSE
    /\ connected = FALSE
    /\ queue = <<>>
    /\ sequence = 0
    /\ by = <<>>
    /\ cpc = [t \in Threads |-> "idle"]
    /\ cbuf = [t \in Threads |-> {}]
    /\ freed = [n \in Buffer |-> 0]
    /\ spc = "none"
    /\ sbuf = {}
    /\ left = 0
    /\ fds = 0
    /\ main = "idle"
    /\ starts = 0
    /\ serverUp \in BOOLEAN
    /\ alive = FALSE
    /\ room = TRUE
    /\ wire = <<>>

\* delete[] of every buffer of a set.
Delete(S) == freed' = [n \in Buffer |-> IF n \in S THEN freed[n] + 1 ELSE freed[n]]

-----------------------------------------------------------------------------
(* TcpForwardPlugin::handlePacket and TcpForwardClient::send. *)

\* Draw a number under sequenceCounterMutex and build the buffer.
TakeSequence(t) ==
    /\ cpc[t] = "idle"
    /\ sequence < MaxPackets
    /\ sequence' = sequence + 1
    /\ by' = Append(by, t)
    /\ cbuf' = [cbuf EXCEPT ![t] = {sequence}]
    /\ cpc' = [cpc EXCEPT ![t] = "check"]
    /\ UNCHANGED <<active, connected, queue, freed, spc, sbuf, left, fds, main,
                   starts, envVars, wire>>

\* The test of active and connected, without the lock.
CheckConnected(t) ==
    /\ cpc[t] = "check"
    /\ IF active /\ connected
       THEN /\ cpc' = [cpc EXCEPT ![t] = "push"]
            /\ UNCHANGED <<cbuf, freed>>
       ELSE /\ cpc' = [cpc EXCEPT ![t] = "idle"]
            /\ cbuf' = [cbuf EXCEPT ![t] = {}]
            /\ Delete(cbuf[t])
    /\ UNCHANGED <<active, connected, queue, sequence, by, spc, sbuf, left,
                   fds, main, starts, envVars, wire>>

\* Fault: room for one buffer too many.
FullLate == QueueSize # 0 /\ QueueSize < Len(queue)

Full == QueueSize # 0 /\ QueueSize <= Len(queue)

\* The rest of send, under the lock: the oldest buffer makes room.
Push(t) ==
    /\ cpc[t] = "push"
    /\ \E n \in cbuf[t] :
          IF Full
          THEN /\ queue' = Append(Tail(queue), n)
               /\ Delete({Head(queue)})
          ELSE /\ queue' = Append(queue, n)
               /\ UNCHANGED freed
    /\ cpc' = [cpc EXCEPT ![t] = "idle"]
    /\ cbuf' = [cbuf EXCEPT ![t] = {}]
    /\ UNCHANGED <<active, connected, sequence, by, spc, sbuf, left, fds, main,
                   starts, envVars, wire>>

-----------------------------------------------------------------------------
(* Init and Reset: TcpForwardClient::start and shutdown. *)

Start ==
    /\ main = "idle"
    /\ starts < MaxStarts
    /\ starts' = starts + 1
    /\ main' = "running"
    /\ active' = TRUE
    /\ spc' = "start"
    /\ UNCHANGED <<connected, queue, callVars, freed, sbuf, left, fds, envVars,
                   wire>>

\* shutdown clears the flag and joins the thread.
Shutdown ==
    /\ main = "running"
    /\ EarlyReset \/ spc # "start"
    /\ IF active
       THEN active' = FALSE /\ main' = "join"
       ELSE main' = "idle" /\ UNCHANGED active
    /\ UNCHANGED <<connected, queue, callVars, freed, spc, sbuf, left, fds,
                   starts, envVars, wire>>

Joined ==
    /\ main = "join"
    /\ spc = "none"
    /\ main' = "idle"
    /\ UNCHANGED <<active, connected, queue, callVars, freed, spc, sbuf, left,
                   fds, starts, envVars, wire>>

-----------------------------------------------------------------------------
(* The thread of the client: loop, connect, reconnect and disconnect. *)

\* The thread sets active itself before its first connect.
LoopStart ==
    /\ spc = "start"
    /\ active' = TRUE
    /\ spc' = "clear1"
    /\ UNCHANGED <<connected, queue, callVars, freed, sbuf, left, fds, main,
                   starts, envVars, wire>>

\* Fault: the loop tests active only while it has no connection.
LoopTopConnected ==
    /\ spc = "top"
    /\ spc' = IF connected THEN "pop" ELSE IF ~active THEN "end" ELSE "clear"
    /\ UNCHANGED <<active, connected, queue, callVars, freed, sbuf, left, fds,
                   main, starts, envVars, wire>>

\* Fault: the thread connects again only when something is queued.
LoopTopLazy ==
    /\ spc = "top"
    /\ spc' = IF ~active THEN "end" ELSE IF connected THEN "pop"
              ELSE IF queue # <<>> THEN "clear" ELSE "top"
    /\ UNCHANGED <<active, connected, queue, callVars, freed, sbuf, left, fds,
                   main, starts, envVars, wire>>

\* while (active) { if (!connected) reconnect(); ... }: a reconnect within the
\* delay returns at once and the thread sleeps, which changes nothing.
LoopTop ==
    /\ spc = "top"
    /\ spc' = IF ~active THEN "end" ELSE IF connected THEN "pop" ELSE "clear"
    /\ UNCHANGED <<active, connected, queue, callVars, freed, sbuf, left, fds,
                   main, starts, envVars, wire>>

\* Fault: connect keeps what was queued for the previous connection.
ConnectKeep ==
    /\ spc \in {"clear1", "clear"}
    /\ spc' = IF spc = "clear1" THEN "dial1" ELSE "dial"
    /\ UNCHANGED <<active, connected, queue, callVars, freed, sbuf, left, fds,
                   main, starts, envVars, wire>>

\* connect deletes the queued buffers, under the lock.
ConnectClear ==
    /\ spc \in {"clear1", "clear"}
    /\ spc' = IF spc = "clear1" THEN "dial1" ELSE "dial"
    /\ queue' = <<>>
    /\ Delete(Elems(queue))
    /\ UNCHANGED <<active, connected, callVars, sbuf, left, fds, main, starts,
                   envVars, wire>>

\* After the first connect comes the test of active, after a reconnect the test
\* of connected.
AfterDial(ok) == IF ok /\ spc = "dial" THEN "pop" ELSE "top"

\* socket and connect succeed.
DialOk ==
    /\ spc \in {"dial1", "dial"}
    /\ fds < MaxFds
    /\ serverUp
    /\ fds' = fds + 1
    /\ connected' = TRUE
    /\ alive' = TRUE
    /\ room' = TRUE
    /\ wire' = <<>>
    /\ spc' = AfterDial(TRUE)
    /\ UNCHANGED <<active, queue, callVars, freed, sbuf, left, main, starts,
                   serverUp>>

\* No descriptor is left.
DialNoSocket ==
    /\ spc \in {"dial1", "dial"}
    /\ fds = MaxFds
    /\ spc' = AfterDial(FALSE)
    /\ UNCHANGED <<active, connected, queue, callVars, freed, sbuf, left, fds,
                   main, starts, envVars, wire>>

\* The server refuses; the descriptor of the attempt is not closed.
DialRefused ==
    /\ spc \in {"dial1", "dial"}
    /\ fds < MaxFds
    /\ ~serverUp
    /\ fds' = fds + 1
    /\ spc' = AfterDial(FALSE)
    /\ UNCHANGED <<active, connected, queue, callVars, freed, sbuf, left, main,
                   starts, envVars, wire>>

\* An exception leaves the thread: std::terminate.
DialNoHost ==
    /\ NameMayFail
    /\ spc \in {"dial1", "dial"}
    /\ fds < MaxFds
    /\ spc' = "aborted"
    /\ UNCHANGED <<active, connected, queue, callVars, freed, sbuf, left, fds,
                   main, starts, envVars, wire>>

\* Fault: the newest buffer first.
PopNewest ==
    /\ spc = "pop"
    /\ IF queue = <<>>
       THEN /\ spc' = "top"
            /\ UNCHANGED <<queue, sbuf, left>>
       ELSE /\ spc' = "send"
            /\ sbuf' = {queue[Len(queue)]}
            /\ left' = Parts
            /\ queue' = SubSeq(queue, 1, Len(queue) - 1)
    /\ UNCHANGED <<active, connected, callVars, freed, fds, main, starts,
                   envVars, wire>>

Pop ==
    /\ spc = "pop"
    /\ IF queue = <<>>
       THEN /\ spc' = "top"
            /\ UNCHANGED <<queue, sbuf, left>>
       ELSE /\ spc' = "send"
            /\ sbuf' = {Head(queue)}
            /\ left' = Parts
            /\ queue' = Tail(queue)
    /\ UNCHANGED <<active, connected, callVars, freed, fds, main, starts,
                   envVars, wire>>

\* ::send has no timeout: it waits while the server keeps the connection and
\* does not read.
Blocked == spc = "send" /\ left > 0 /\ alive /\ ~room

\* One call of ::send that takes a part of the buffer, which may be all there is
\* room for.  On a connection that is already broken the part can still be
\* accepted, and is lost.
SendPart ==
    /\ spc = "send"
    /\ left > 0
    /\ ~Blocked
    /\ left' = left - 1
    /\ IF alive
       THEN (\E n \in sbuf : wire' = Append(wire, n)) /\ room' \in BOOLEAN
       ELSE UNCHANGED <<wire, room>>
    /\ UNCHANGED <<active, connected, queue, callVars, freed, spc, sbuf, fds,
                   main, starts, serverUp, alive>>

\* Fault: the rest of the buffer is sent on the next connection.
SendErrorKeep ==
    /\ spc = "send"
    /\ left > 0
    /\ ~alive
    /\ serverUp
    /\ connected' = TRUE
    /\ alive' = TRUE
    /\ left' = left - 1
    /\ \E n \in sbuf : wire' = <<n>>
    /\ UNCHANGED <<active, queue, callVars, freed, spc, sbuf, fds, main,
                   starts, serverUp, room>>

\* Fault: the buffer is deleted here and again after the loop over its parts.
SendErrorTwice ==
    /\ spc = "send"
    /\ left > 0
    /\ ~alive
    /\ connected' = FALSE
    /\ fds' = fds - 1
    /\ left' = 0
    /\ Delete(sbuf)
    /\ UNCHANGED <<active, queue, callVars, spc, sbuf, main, starts, envVars,
                   wire>>

\* ::send fails: disconnect, and the rest of the buffer is given up.
SendError ==
    /\ spc = "send"
    /\ left > 0
    /\ ~alive
    /\ connected' = FALSE
    /\ fds' = fds - 1
    /\ left' = 0
    /\ UNCHANGED <<active, queue, callVars, freed, spc, sbuf, main, starts,
                   envVars, wire>>

SendDone ==
    /\ spc = "send"
    /\ left = 0
    /\ Delete(sbuf)
    /\ sbuf' = {}
    /\ spc' = "top"
    /\ UNCHANGED <<active, connected, queue, callVars, left, fds, main, starts,
                   envVars, wire>>

\* The last disconnect; the thread ends and what is queued stays there.
LoopEnd ==
    /\ spc = "end"
    /\ connected' = FALSE
    /\ fds' = IF connected THEN fds - 1 ELSE fds
    /\ alive' = FALSE
    /\ wire' = <<>>
    /\ spc' = "none"
    /\ UNCHANGED <<active, queue, callVars, freed, sbuf, left, main, starts,
                   serverUp, room>>

-----------------------------------------------------------------------------
(* The TCP server, external. *)

ServerDown ==
    /\ serverUp
    /\ serverUp' = FALSE
    /\ alive' = FALSE
    /\ UNCHANGED <<active, connected, queue, callVars, freed, spc, sbuf, left,
                   fds, main, starts, room, wire>>

ServerUp ==
    /\ ~serverUp
    /\ serverUp' = TRUE
    /\ UNCHANGED <<active, connected, queue, callVars, freed, spc, sbuf, left,
                   fds, main, starts, alive, room, wire>>

\* It reads what was sent; whether it does, and when, is its own affair.
ServerReads ==
    /\ ~room
    /\ room' = TRUE
    /\ UNCHANGED <<active, connected, queue, callVars, freed, spc, sbuf, left,
                   fds, main, starts, serverUp, alive, wire>>

-----------------------------------------------------------------------------
CallerStep(t) == TakeSequence(t) \/ CheckConnected(t) \/ Push(t)

LoopStep ==
    \/ LoopStart \/ LoopTop \/ ConnectClear
    \/ DialOk \/ DialNoSocket \/ DialRefused \/ DialNoHost
    \/ Pop \/ SendPart \/ SendError \/ SendDone \/ LoopEnd

\* std::terminate has ended the process.
Aborted == spc = "aborted" /\ UNCHANGED vars

Running ==
    \/ \E t \in Threads : CallerStep(t)
    \/ Start
    \/ Shutdown
    \/ Joined
    \/ LoopStep
    \/ ServerDown
    \/ ServerUp
    \/ ServerReads

Next == (spc # "aborted" /\ Running) \/ Aborted

Spec == Init /\ [][Next]_vars

\* The thread of the client runs unless it waits in ::send, and the StreamAPI
\* lets a call of handlePacket finish; packets, Reset and the server come when
\* they like, and the server need not read.
Fairness ==
    /\ WF_vars(LoopStep)
    /\ WF_vars(Joined)
    /\ \A t \in Threads : WF_vars(CheckConnected(t) \/ Push(t))

FairSpec == Spec /\ Fairness

-----------------------------------------------------------------------------
(* Properties. *)

\* Every variable keeps its type; a bounded queue never holds more than
\* queueSize buffers and the process never more descriptors than it may.
TypeOK ==
    /\ active \in BOOLEAN /\ connected \in BOOLEAN
    /\ queue \in Seq(Buffer)
    /\ QueueSize # 0 => Len(queue) <= QueueSize
    /\ sequence \in 0 .. MaxPackets
    /\ by \in Seq(Threads) /\ Len(by) = sequence
    /\ cpc \in [Threads -> {"idle", "check", "push"}]
    /\ cbuf \in [Threads -> SUBSET Buffer]
    /\ freed \in [Buffer -> Nat]
    /\ spc \in {"none", "start", "top", "clear1", "clear", "dial1", "dial",
                "pop", "send", "end", "aborted"}
    /\ sbuf \subseteq Buffer
    /\ left \in 0 .. Parts
    /\ fds \in 0 .. MaxFds
    /\ main \in {"idle", "running", "join"}
    /\ starts \in 0 .. MaxStarts
    /\ serverUp \in BOOLEAN /\ alive \in BOOLEAN /\ room \in BOOLEAN
    /\ wire \in Seq(Buffer)

\* A buffer that was built has one owner, a caller, the queue or the thread of
\* the client, until it is deleted, and it is deleted once: however pushes,
\* the clearing in connect and a failing send interleave, no buffer is deleted
\* twice, used after it was deleted, or forgotten.
OneOwner ==
    \A n \in Buffer :
        freed[n]
          + Cardinality({t \in Threads : n \in cbuf[t]})
          + Cardinality({i \in DOMAIN queue : queue[i] = n})
          + Cardinality(sbuf \cap {n})
        = IF n < sequence THEN 1 ELSE 0

\* A connection carries whole packets one after the other; only the last one
\* can be cut short, so a server that reads by the length in the header never
\* meets the middle of a packet: no packet is continued on a later connection
\* and two packets are never mixed.
WholePackets ==
    \A i, j \in DOMAIN wire :
        (wire[i] = wire[j]) <=> ((i - 1) \div Parts = (j - 1) \div Parts)

\* Two packets that one thread received leave in the order it received them.
OrderPerThread ==
    \A i, j \in DOMAIN wire :
        i < j /\ by[wire[i] + 1] = by[wire[j] + 1] => wire[i] <= wire[j]

\* The server does not leave the thread of the client waiting in ::send for ever.
NotStuck == []<>~Blocked

\* While the thread of the client runs nothing stays in the queue, with or
\* without a server, unless the server keeps a connection and stops reading it
\* for good.
QueueDrains ==
    NotStuck =>
        \A n \in Buffer :
            n \in Elems(queue) ~> (n \notin Elems(queue) \/ spc \in {"none", "aborted"})

\* TcpForwardClient.h, "Stop the internal thread.": a call of shutdown returns.
ShutdownReturns == main = "join" ~> main # "join"

\* A call of shutdown returns when it came after the thread of the client had
\* set active, whatever the queue and the callers do and whether or not there is
\* a server, unless the server stops reading for good: the thread that is joined
\* waits in ::send then.
StartedReturns ==
    NotStuck =>
        (main = "join" /\ ~active /\ spc # "start" ~> main # "join" \/ spc = "aborted")

\* A connection of which the plug-in knows that there is none, because it was
\* refused or a send on it failed, is made again once the server is back for
\* good, as long as a descriptor is left for it: connect does not close the
\* descriptor of an attempt that was refused.  A connection that the server closed
\* is not noticed, and not made again, before a send on it fails, although
\* readme.txt says that the plug-in reconnects "if later on it closes unexpectedly".
ConnectsAgain ==
    <>[](serverUp /\ main = "running" /\ spc # "aborted")
        => (~connected ~> (connected /\ alive) \/ fds = MaxFds)
=============================================================================
