-------------------------- MODULE TcpForwardProofs --------------------------
(***************************************************************************)
(* Proofs about TcpForward, for any number of threads, packets and starts, *)
(* any size of the queue and any number of parts a buffer is sent in.      *)
(***************************************************************************)
EXTENDS TcpForward, FiniteSetTheorems, TLAPS

-----------------------------------------------------------------------------
(* The inductive invariants. *)

\* Where the thread of the client may be, given the flags and the caller of
\* Init and Reset, and that a connection holds a descriptor.
Control ==
    /\ main = "idle" => spc = "none"
    /\ main = "running" => active
    /\ spc \in {"none", "start", "clear1", "clear", "dial1", "dial"} => ~connected
    /\ spc = "pop" => connected
    /\ spc = "send" /\ left > 0 => connected
    /\ connected => fds >= 1
    /\ alive => connected

\* A thread holds one buffer between TakeSequence and Push, the thread of the
\* client one from Pop to SendDone.
Hands ==
    /\ \A t \in Threads : cpc[t] = "idle" => cbuf[t] = {}
    /\ \A t \in Threads : cpc[t] # "idle" => \E n \in Buffer : cbuf[t] = {n}
    /\ spc # "send" => sbuf = {}
    /\ spc = "send" => \E n \in Buffer : sbuf = {n}

Held    == UNION {cbuf[t] : t \in Threads}
Queued  == Elems(queue)
Deleted == {n \in Buffer : freed[n] = 1}

\* The buffers built so far are divided among the callers, the queue, the
\* thread of the client and the deleted ones.
Divided ==
    /\ \A n \in Buffer : freed[n] \in {0, 1}
    /\ Held \cup Queued \cup sbuf \cup Deleted = {n \in Buffer : n < sequence}
    /\ Held \cap Queued = {} /\ Held \cap sbuf = {} /\ Held \cap Deleted = {}
    /\ Queued \cap sbuf = {} /\ Queued \cap Deleted = {} /\ sbuf \cap Deleted = {}

\* No buffer is with two callers, or twice in the queue.
Distinct ==
    /\ \A t, u \in Threads : cbuf[t] \cap cbuf[u] # {} => t = u
    /\ \A i, j \in DOMAIN queue : queue[i] = queue[j] => i = j

\* Of two buffers of one thread, the one in A is not the later one.
NotAfter(A, B) == \A a \in A, b \in B : by[a + 1] = by[b + 1] => a <= b

\* What a thread built earlier is further on its way to the connection.
Ordered ==
    /\ Elems(wire) \subseteq sbuf \cup Deleted
    /\ \A t \in Threads : \A n \in cbuf[t] : by[n + 1] = t
    /\ NotAfter(Elems(wire), Held) /\ NotAfter(Elems(wire), Queued)
    /\ NotAfter(Elems(wire), sbuf)
    /\ NotAfter(sbuf, Held) /\ NotAfter(sbuf, Queued)
    /\ NotAfter(Queued, Held)
    /\ \A i, j \in DOMAIN queue :
          i < j /\ by[queue[i] + 1] = by[queue[j] + 1] => queue[i] <= queue[j]
    /\ OrderPerThread

\* On a connection that is not broken, whole packets lie before the parts of
\* the buffer being sent.
Framed ==
    /\ alive /\ spc # "send" => \E q \in Nat : Len(wire) = Parts * q
    /\ alive /\ spc = "send" =>
          /\ \E q \in Nat : Len(wire) + left = Parts * q
          /\ \A i \in DOMAIN wire :
                wire[i] \in sbuf <=> i + Parts > Len(wire) + left
    /\ WholePackets

-----------------------------------------------------------------------------
(* Facts about sequences. *)

\* An empty queue.
LEMMA ElemsEmpty == Elems(<<>>) = {}
  BY DEF Elems

\* What is in the queue after a push.
LEMMA ElemsAppend ==
    ASSUME NEW S, NEW s \in Seq(S), NEW x \in S
    PROVE  /\ Append(s, x) \in Seq(S)
           /\ Len(Append(s, x)) = Len(s) + 1
           /\ Elems(Append(s, x)) = Elems(s) \cup {x}
<1>1. /\ Append(s, x) \in Seq(S) /\ Len(Append(s, x)) = Len(s) + 1
      /\ DOMAIN Append(s, x) = DOMAIN s \cup {Len(s) + 1}
      /\ \A i \in DOMAIN s : Append(s, x)[i] = s[i]
      /\ Append(s, x)[Len(s) + 1] = x
  OBVIOUS
<1> QED
  BY <1>1 DEF Elems

\* A queue in which nothing is twice, after a push.
LEMMA DistinctAppend ==
    ASSUME NEW S, NEW s \in Seq(S), NEW x \in S, \A i \in DOMAIN s : s[i] # x,
           \A i, j \in DOMAIN s : s[i] = s[j] => i = j
    PROVE  \A i, j \in DOMAIN Append(s, x) : Append(s, x)[i] = Append(s, x)[j] => i = j
<1> DEFINE q == Append(s, x)
<1>1. /\ DOMAIN q = DOMAIN s \cup {Len(s) + 1}
      /\ \A i \in DOMAIN s : q[i] = s[i]
      /\ q[Len(s) + 1] = x
  OBVIOUS
<1> HIDE DEF q
<1>2. \A i, j \in DOMAIN q : q[i] = q[j] => i = j
  BY <1>1
<1> QED
  BY <1>2 DEF q

\* A queue in which nothing is twice, after its head was taken.
LEMMA DistinctTail ==
    ASSUME NEW S, NEW s \in Seq(S), s # <<>>, \A i, j \in DOMAIN s : s[i] = s[j] => i = j
    PROVE  \A i, j \in DOMAIN Tail(s) : Tail(s)[i] = Tail(s)[j] => i = j
<1> DEFINE q == Tail(s)
<1>1. /\ DOMAIN s = 1 .. Len(s) /\ Len(s) \in Nat \ {0}
      /\ DOMAIN q = 1 .. Len(s) - 1
      /\ \A i \in DOMAIN q : q[i] = s[i + 1]
  OBVIOUS
<1> HIDE DEF q
<1>2. \A i \in DOMAIN q : i \in Nat /\ i + 1 \in DOMAIN s
  BY <1>1
<1>3. ASSUME NEW i \in DOMAIN q, NEW j \in DOMAIN q, q[i] = q[j] PROVE i = j
  <2>1. i + 1 = j + 1
    BY <1>1, <1>2, <1>3
  <2> QED
    BY <1>2, <2>1
<1> QED
  BY <1>3 DEF q

\* What is in the queue after its head was taken.
LEMMA ElemsTail ==
    ASSUME NEW S, NEW s \in Seq(S), s # <<>>
    PROVE  /\ Head(s) \in S /\ Tail(s) \in Seq(S)
           /\ Len(Tail(s)) = Len(s) - 1
           /\ Elems(s) = {Head(s)} \cup Elems(Tail(s))
<1>1. /\ Head(s) \in S /\ Tail(s) \in Seq(S) /\ Len(Tail(s)) = Len(s) - 1
      /\ DOMAIN s = 1 .. Len(s) /\ Len(s) \in Nat \ {0}
      /\ DOMAIN Tail(s) = 1 .. Len(s) - 1
      /\ \A i \in DOMAIN Tail(s) : Tail(s)[i] = s[i + 1]
      /\ Head(s) = s[1]
  OBVIOUS
<1>2. ASSUME NEW x \in Elems(s) PROVE x \in {Head(s)} \cup Elems(Tail(s))
  <2>1. PICK i \in DOMAIN s : x = s[i]
    BY DEF Elems
  <2>2. CASE i = 1
    BY <1>1, <2>1, <2>2
  <2>3. CASE i # 1
    <3>1. i - 1 \in DOMAIN Tail(s) /\ Tail(s)[i - 1] = x
      BY <1>1, <2>1, <2>3
    <3> QED
      BY <3>1 DEF Elems
  <2> QED
    BY <2>2, <2>3
<1>3. ASSUME NEW x \in {Head(s)} \cup Elems(Tail(s)) PROVE x \in Elems(s)
  <2>1. CASE x = Head(s)
    BY <1>1, <2>1 DEF Elems
  <2>2. CASE x \in Elems(Tail(s))
    <3>1. PICK i \in DOMAIN Tail(s) : x = Tail(s)[i]
      BY <2>2 DEF Elems
    <3>2. i + 1 \in DOMAIN s /\ s[i + 1] = x
      BY <1>1, <3>1
    <3> QED
      BY <3>2 DEF Elems
  <2> QED
    BY <2>1, <2>2
<1> QED
  BY <1>1, <1>2, <1>3

-----------------------------------------------------------------------------
(* Type correctness: a connection that is closed had a descriptor, so the   *)
(* typing of fds needs Control, and what is popped or pushed needs Hands.    *)

Typed == TypeOK /\ Control /\ Hands

\* Types at first.
LEMMA TypedInit == Init => Typed
<1> SUFFICES ASSUME Init PROVE Typed
  OBVIOUS
<1>1. <<>> \in Seq(Buffer) /\ <<>> \in Seq(Threads) /\ Len(<<>>) = 0
  OBVIOUS
<1>2. TypeOK
  <2>1. /\ 0 \in 0 .. MaxPackets /\ 0 \in 0 .. Parts /\ 0 \in 0 .. MaxFds
        /\ 0 \in 0 .. MaxStarts /\ 0 <= QueueSize
    BY TcpForwardAssumption
  <2>2. cbuf \in [Threads -> SUBSET Buffer] /\ freed \in [Buffer -> Nat]
    BY DEF Init
  <2> QED
    BY <1>1, <2>1, <2>2 DEF Init, TypeOK
<1>3. Control
  BY DEF Init, Control
<1>4. Hands
  BY DEF Init, Hands
<1> QED
  BY <1>2, <1>3, <1>4 DEF Typed

\* A deletion keeps the counts numbers.
\* The part of TypeOK about the flags, and the rest of it.
Flags ==
    /\ active \in BOOLEAN /\ connected \in BOOLEAN
    /\ serverUp \in BOOLEAN /\ alive \in BOOLEAN /\ room \in BOOLEAN

\* Every step keeps the types of flags, threads and descriptors.
LEMMA FlagsStep == Flags /\ [Next]_vars => Flags'
<1> SUFFICES ASSUME Flags, [Next]_vars PROVE Flags'
  OBVIOUS
<1>0. /\ active \in BOOLEAN /\ connected \in BOOLEAN /\ serverUp \in BOOLEAN
      /\ alive \in BOOLEAN /\ room \in BOOLEAN
  BY DEF Flags
<1>1. ASSUME NEW t \in Threads, CallerStep(t) PROVE Flags'
  <2>1. UNCHANGED <<active, connected, serverUp, alive, room>>
    BY <1>1 DEF CallerStep, TakeSequence, CheckConnected, Push, envVars
  <2> QED
    BY <1>0, <2>1, Zenon DEF Flags
<1>2. CASE Start
  BY <1>0, <1>2, Zenon DEF Flags, Start, envVars
<1>3. CASE Shutdown
  BY <1>0, <1>3, Zenon DEF Flags, Shutdown, envVars
<1>4. CASE LoopStart
  BY <1>0, <1>4, Zenon DEF Flags, LoopStart, envVars
<1>5. CASE DialOk
  BY <1>0, <1>5, Zenon DEF Flags, DialOk
<1>6. CASE SendError
  BY <1>0, <1>6, Zenon DEF Flags, SendError, envVars
<1>7. CASE LoopEnd
  BY <1>0, <1>7, Zenon DEF Flags, LoopEnd
<1>8. CASE ServerDown
  BY <1>0, <1>8, Zenon DEF Flags, ServerDown
<1>9. CASE ServerUp
  BY <1>0, <1>9, Zenon DEF Flags, ServerUp
<1>10. CASE \/ Joined \/ LoopTop \/ ConnectClear \/ DialNoSocket \/ DialRefused
            \/ DialNoHost \/ Pop \/ SendDone \/ UNCHANGED vars
  <2>1. UNCHANGED <<active, connected, serverUp, alive, room>>
    BY <1>10 DEF Joined, LoopTop, ConnectClear, DialNoSocket, DialRefused, DialNoHost,
                 Pop, SendDone, envVars, vars
  <2> QED
    BY <1>0, <2>1, Zenon DEF Flags
<1>11. CASE SendPart
  <2>1. UNCHANGED <<active, connected, serverUp, alive>> /\ room' \in BOOLEAN
    BY <1>0, <1>11, Zenon DEF SendPart
  <2> QED
    BY <1>0, <2>1, Zenon DEF Flags
<1>12. CASE ServerReads
  BY <1>0, <1>12, Zenon DEF Flags, ServerReads
<1> QED
  BY <1>1, <1>2, <1>3, <1>4, <1>5, <1>6, <1>7, <1>8, <1>9, <1>10, <1>11, <1>12
     DEF Next, Running, LoopStep, Aborted

Data ==
    /\ queue \in Seq(Buffer)
    /\ QueueSize # 0 => Len(queue) <= QueueSize
    /\ sequence \in 0 .. MaxPackets
    /\ by \in Seq(Threads) /\ Len(by) = sequence
    /\ cpc \in [Threads -> {"idle", "check", "push"}]
    /\ cbuf \in [Threads -> SUBSET Buffer]
    /\ freed \in [Buffer -> Nat]
    /\ spc \in {"none", "start", "top", "clear1", "clear", "dial1", "dial",
                "pop", "send", "end", "aborted"}
    /\ sbuf \subseteq Buffer
    /\ left \in 0 .. Parts
    /\ fds \in 0 .. MaxFds
    /\ main \in {"idle", "running", "join"}
    /\ starts \in 0 .. MaxStarts
    /\ wire \in Seq(Buffer)

\* The type invariant in two parts.
LEMMA TypeParts == TypeOK <=> Flags /\ Data
  BY Zenon DEF TypeOK, Flags, Data

\* The marks of deleted buffers after a deletion.
LEMMA DeleteType ==
    ASSUME Data, NEW S, Delete(S)
    PROVE  freed' \in [Buffer -> Nat]
<1>1. freed \in [Buffer -> Nat]
  BY DEF Data
<1> QED
  BY <1>1 DEF Delete

\* The queue after a push, which may drop its oldest buffer.
LEMMA PushType ==
    ASSUME Data, NEW t \in Threads, Push(t)
    PROVE  /\ queue' \in Seq(Buffer) /\ (QueueSize # 0 => Len(queue') <= QueueSize)
           /\ freed' \in [Buffer -> Nat]
<1>1. PICK n \in cbuf[t] :
        \/ Full /\ queue' = Append(Tail(queue), n) /\ Delete({Head(queue)})
        \/ ~Full /\ queue' = Append(queue, n) /\ freed' = freed
  BY DEF Push
<1>2. /\ n \in Buffer /\ queue \in Seq(Buffer) /\ freed \in [Buffer -> Nat]
      /\ QueueSize # 0 => Len(queue) <= QueueSize
      /\ QueueSize \in Nat /\ Len(queue) \in Nat
  BY TcpForwardAssumption DEF Data
<1>3. CASE Full
  <2>1. queue # <<>> /\ Len(queue) = QueueSize
    BY <1>2, <1>3 DEF Full
  <2>2. Tail(queue) \in Seq(Buffer) /\ Len(Tail(queue)) = Len(queue) - 1
    BY <1>2, <2>1
  <2>3. queue' = Append(Tail(queue), n) /\ Delete({Head(queue)})
    BY <1>1, <1>3
  <2>4. queue' \in Seq(Buffer) /\ Len(queue') = QueueSize
    BY <1>2, <2>1, <2>2, <2>3
  <2> QED
    BY <1>2, <2>3, <2>4, DeleteType
<1>4. CASE ~Full
  <2>1. queue' = Append(queue, n) /\ freed' = freed
    BY <1>1, <1>4
  <2>2. QueueSize # 0 => Len(queue) < QueueSize
    BY <1>2, <1>4 DEF Full
  <2>3. queue' \in Seq(Buffer) /\ Len(queue') = Len(queue) + 1
    BY <1>2, <2>1
  <2> QED
    BY <1>2, <2>1, <2>2, <2>3
<1> QED
  BY <1>3, <1>4

\* Every step keeps the types of queue, buffers and connections.
LEMMA DataStep == Data /\ Control /\ [Next]_vars => Data'
<1> SUFFICES ASSUME Data, Control, [Next]_vars PROVE Data'
  OBVIOUS
<1> USE TcpForwardAssumption
<1> USE DEF callVars, envVars
<1>1. ASSUME NEW t \in Threads, TakeSequence(t) PROVE Data'
  <2>1. sequence \in Buffer /\ sequence + 1 \in 0 .. MaxPackets
    BY <1>1 DEF Data, TakeSequence, Buffer
  <2>2. by' \in Seq(Threads) /\ Len(by') = sequence'
    BY <1>1, ElemsAppend DEF Data, TakeSequence
  <2> QED
    BY <1>1, <2>1, <2>2 DEF Data, TakeSequence
<1>2. ASSUME NEW t \in Threads, CheckConnected(t) PROVE Data'
  <2>1. freed' \in [Buffer -> Nat]
    BY <1>2, DeleteType DEF CheckConnected, Data
  <2>5. /\ \/ cpc' = [cpc EXCEPT ![t] = "push"]
           \/ cpc' = [cpc EXCEPT ![t] = "idle"]
        /\ cbuf' = cbuf \/ cbuf' = [cbuf EXCEPT ![t] = {}]
    BY <1>2 DEF CheckConnected
  <2>6. cpc \in [Threads -> {"idle", "check", "push"}]
    BY DEF Data
  <2>2. cpc' \in [Threads -> {"idle", "check", "push"}]
    BY <2>5, <2>6
  <2>3. cbuf' \in [Threads -> SUBSET Buffer]
    BY <2>5 DEF Data
  <2>4. UNCHANGED <<active, connected, queue, sequence, by, spc, sbuf, left,
                    fds, main, starts, serverUp, alive, wire>>
    BY <1>2 DEF CheckConnected
  <2> QED
    BY <2>1, <2>2, <2>3, <2>4 DEF Data
<1>3. ASSUME NEW t \in Threads, Push(t) PROVE Data'
  <2>1. cpc' \in [Threads -> {"idle", "check", "push"}]
    BY <1>3 DEF Push, Data
  <2>2. cbuf' \in [Threads -> SUBSET Buffer]
    BY <1>3 DEF Push, Data
  <2>3. UNCHANGED <<active, connected, sequence, by, spc, sbuf, left, fds, main,
                    starts, serverUp, alive, wire>>
    BY <1>3 DEF Push
  <2> QED
    BY <1>3, <2>1, <2>2, <2>3, PushType DEF Data
<1>4. CASE Start
  BY <1>4 DEF Data, Start
<1>5. CASE Shutdown
  <2>1. main' = "join" \/ main' = "idle"
    BY <1>5 DEF Shutdown
  <2>2. UNCHANGED <<connected, queue, sequence, by, cpc, cbuf, freed, spc, sbuf,
                    left, fds, starts, serverUp, alive, wire>>
    BY <1>5 DEF Shutdown
  <2> QED
    BY <2>1, <2>2 DEF Data
<1>6. CASE Joined
  BY <1>6 DEF Data, Joined
<1>7. CASE LoopStart
  BY <1>7 DEF Data, LoopStart
<1>8. CASE LoopTop
  BY <1>8 DEF Data, LoopTop
<1>9. CASE ConnectClear
  <2>1. queue' \in Seq(Buffer) /\ Len(queue') = 0 /\ freed' \in [Buffer -> Nat]
    BY <1>9, DeleteType DEF ConnectClear
  <2> QED
    BY <1>9, <2>1 DEF Data, ConnectClear
<1>10. CASE DialOk
  BY <1>10 DEF Data, DialOk, AfterDial
<1>11. CASE DialNoSocket
  BY <1>11 DEF Data, DialNoSocket, AfterDial
<1>12. CASE DialRefused
  BY <1>12 DEF Data, DialRefused, AfterDial
<1>13. CASE DialNoHost
  BY <1>13 DEF Data, DialNoHost
<1>14. CASE Pop
  <2>1. CASE queue = <<>>
    BY <1>14, <2>1 DEF Data, Pop
  <2>2. CASE queue # <<>>
    <3>1. Head(queue) \in Buffer /\ Tail(queue) \in Seq(Buffer)
          /\ Len(Tail(queue)) = Len(queue) - 1
      BY <2>2 DEF Data
    <3>2. /\ spc' = "send" /\ sbuf' = {Head(queue)} /\ left' = Parts
          /\ queue' = Tail(queue)
          /\ UNCHANGED <<active, connected, sequence, by, cpc, cbuf, freed, fds,
                         main, starts, serverUp, alive, wire>>
      BY <1>14, <2>2 DEF Pop
    <3>3. QueueSize # 0 => Len(queue') <= QueueSize
      BY <3>1, <3>2 DEF Data
    <3> QED
      BY <3>1, <3>2, <3>3 DEF Data
  <2> QED
    BY <2>1, <2>2
<1>15. CASE SendPart
  <2>1. wire' = wire \/ \E n \in sbuf : wire' = Append(wire, n)
    BY <1>15 DEF SendPart
  <2>4. wire \in Seq(Buffer) /\ sbuf \subseteq Buffer
    BY DEF Data
  <2>2. wire' \in Seq(Buffer)
    BY <2>1, <2>4, ElemsAppend
  <2>3. /\ left > 0 /\ left' = left - 1
        /\ UNCHANGED <<active, connected, queue, sequence, by, cpc, cbuf, freed,
                       spc, sbuf, fds, main, starts, serverUp, alive>>
    BY <1>15 DEF SendPart
  <2> QED
    BY <2>2, <2>3 DEF Data
<1>16. CASE SendError
  <2>1. fds >= 1
    BY <1>16 DEF Control, SendError
  <2>2. /\ fds' = fds - 1 /\ left' = 0
        /\ UNCHANGED <<active, queue, sequence, by, cpc, cbuf, freed, spc, sbuf,
                       main, starts, serverUp, alive, wire>>
    BY <1>16 DEF SendError
  <2> QED
    BY <2>1, <2>2 DEF Data
<1>17. CASE SendDone
  <2>1. freed' \in [Buffer -> Nat]
    BY <1>17, DeleteType DEF SendDone
  <2> QED
    BY <1>17, <2>1 DEF Data, SendDone
<1>18. CASE LoopEnd
  <2>1. fds' = fds \/ (connected /\ fds' = fds - 1)
    BY <1>18 DEF LoopEnd
  <2>2. fds' \in 0 .. MaxFds
    BY <2>1 DEF Control, Data
  <2>3. /\ wire' = <<>> /\ spc' = "none"
        /\ UNCHANGED <<active, queue, sequence, by, cpc, cbuf, freed, sbuf, left,
                       main, starts, serverUp>>
    BY <1>18 DEF LoopEnd
  <2> QED
    BY <2>2, <2>3 DEF Data
<1>19. CASE ServerDown
  <2>1. UNCHANGED <<active, connected, queue, sequence, by, cpc, cbuf, freed,
                    spc, sbuf, left, fds, main, starts, wire>>
    BY <1>19 DEF ServerDown
  <2> QED
    BY <2>1 DEF Data
<1>20. CASE ServerUp
  BY <1>20 DEF Data, ServerUp
<1>21. CASE UNCHANGED vars
  BY <1>21 DEF Data, vars
<1>22. CASE ServerReads
  BY <1>22 DEF Data, ServerReads
<1> QED
  BY <1>1, <1>2, <1>3, <1>4, <1>5, <1>6, <1>7, <1>8, <1>9, <1>10, <1>11, <1>12,
     <1>13, <1>14, <1>15, <1>16, <1>17, <1>18, <1>19, <1>20, <1>21, <1>22
     DEF Next, Running, CallerStep, LoopStep, Aborted

\* Every step keeps the client thread where its flags and its socket allow it.
LEMMA ControlStep == TypeOK /\ Control /\ [Next]_vars => Control'
<1> SUFFICES ASSUME TypeOK, Control, [Next]_vars PROVE Control'
  OBVIOUS
<1>0. /\ Data
      /\ left \in 0 .. Parts /\ fds \in 0 .. MaxFds /\ Parts \in Nat /\ MaxFds \in Nat
  BY TcpForwardAssumption, TypeParts DEF Data
<1> USE DEF envVars, Control
<1>1. ASSUME NEW t \in Threads, CallerStep(t) PROVE Control'
  <2>1. UNCHANGED <<active, connected, spc, left, fds, main, alive>>
    BY <1>1 DEF CallerStep, TakeSequence, CheckConnected, Push
  <2> QED
    BY <2>1
<1>2. CASE Start
  BY <1>0, <1>2 DEF Start
<1>3. CASE Shutdown
  BY <1>0, <1>3 DEF Shutdown
<1>4. CASE Joined
  BY <1>0, <1>4 DEF Joined
<1>5. CASE LoopStart
  BY <1>0, <1>5 DEF LoopStart
<1>6. CASE LoopTop
  BY <1>0, <1>6 DEF LoopTop
<1>7. CASE ConnectClear
  BY <1>0, <1>7 DEF ConnectClear
<1>8. CASE DialOk
  BY <1>0, <1>8 DEF DialOk, AfterDial
<1>9. CASE DialNoSocket
  BY <1>0, <1>9 DEF DialNoSocket, AfterDial
<1>10. CASE DialRefused
  BY <1>0, <1>10 DEF DialRefused, AfterDial
<1>11. CASE DialNoHost
  BY <1>0, <1>11 DEF DialNoHost
<1>12. CASE Pop
  BY <1>0, <1>12 DEF Pop
<1>13. CASE SendPart
  BY <1>0, <1>13 DEF SendPart
<1>14. CASE SendError
  BY <1>0, <1>14 DEF SendError
<1>15. CASE SendDone
  BY <1>0, <1>15 DEF SendDone
<1>16. CASE LoopEnd
  BY <1>0, <1>16 DEF LoopEnd
<1>17. CASE ServerDown
  BY <1>0, <1>17 DEF ServerDown
<1>18. CASE ServerUp
  BY <1>0, <1>18 DEF ServerUp
<1>19. CASE UNCHANGED vars
  BY <1>0, <1>19 DEF vars
<1>20. CASE ServerReads
  BY <1>0, <1>20 DEF ServerReads
<1> QED
  BY <1>1, <1>2, <1>3, <1>4, <1>5, <1>6, <1>7, <1>8, <1>9, <1>10, <1>11, <1>12,
     <1>13, <1>14, <1>15, <1>16, <1>17, <1>18, <1>19, <1>20
     DEF Next, Running, LoopStep, Aborted

\* Every step keeps the buffers in the hands of the threads that took them.
LEMMA HandsStep == TypeOK /\ Control /\ Hands /\ [Next]_vars => Hands'
<1> SUFFICES ASSUME TypeOK, Control, Hands, [Next]_vars PROVE Hands'
  OBVIOUS
<1>0. /\ queue \in Seq(Buffer) /\ sequence \in 0 .. MaxPackets
      /\ cpc \in [Threads -> {"idle", "check", "push"}]
      /\ cbuf \in [Threads -> SUBSET Buffer]
      /\ MaxPackets \in Nat
  BY TcpForwardAssumption, TypeParts DEF Data
<1> USE DEF Hands
<1>1. ASSUME NEW t \in Threads, TakeSequence(t) PROVE Hands'
  <2>1. sequence \in Buffer
    BY <1>0, <1>1 DEF TakeSequence, Buffer
  <2> QED
    BY <1>0, <1>1, <2>1 DEF TakeSequence
<1>2. ASSUME NEW t \in Threads, CheckConnected(t) PROVE Hands'
  <2>1. /\ cpc[t] = "check" /\ UNCHANGED <<spc, sbuf>>
        /\ \/ cpc' = [cpc EXCEPT ![t] = "push"] /\ cbuf' = cbuf
           \/ cpc' = [cpc EXCEPT ![t] = "idle"] /\ cbuf' = [cbuf EXCEPT ![t] = {}]
    BY <1>2 DEF CheckConnected
  <2> QED
    BY <1>0, <2>1
<1>3. ASSUME NEW t \in Threads, Push(t) PROVE Hands'
  <2>1. /\ cpc' = [cpc EXCEPT ![t] = "idle"] /\ cbuf' = [cbuf EXCEPT ![t] = {}]
        /\ UNCHANGED <<spc, sbuf>>
    BY <1>3 DEF Push
  <2> QED
    BY <1>0, <2>1
<1>4. CASE Pop
  <2>1. CASE queue = <<>>
    BY <1>4, <2>1 DEF Pop, callVars
  <2>2. CASE queue # <<>>
    <3>1. Head(queue) \in Buffer
      BY <1>0, <2>2
    <3> QED
      BY <1>4, <2>2, <3>1 DEF Pop, callVars
  <2> QED
    BY <2>1, <2>2
<1>5. CASE SendDone
  BY <1>5 DEF SendDone, callVars
<1>6. CASE SendPart \/ SendError
  <2>1. UNCHANGED <<cpc, cbuf, spc, sbuf>>
    BY <1>6 DEF SendPart, SendError, callVars
  <2> QED
    BY <2>1
<1>7. CASE \/ Start \/ Shutdown \/ Joined \/ LoopStart \/ LoopTop \/ ConnectClear
           \/ DialOk \/ DialNoSocket \/ DialRefused \/ DialNoHost \/ LoopEnd
           \/ ServerDown \/ ServerUp \/ ServerReads \/ UNCHANGED vars
  <2>1. /\ UNCHANGED <<cpc, cbuf, sbuf>>
        /\ spc' = spc \/ (spc # "send" /\ spc' # "send")
    BY <1>7 DEF Control, Start, Shutdown, Joined, LoopStart, LoopTop, ConnectClear, DialOk,
       DialNoSocket, DialRefused, DialNoHost, LoopEnd, ServerDown, ServerUp, ServerReads, vars,
       callVars, AfterDial
  <2> QED
    BY <2>1
<1> QED
  BY <1>1, <1>2, <1>3, <1>4, <1>5, <1>6, <1>7
     DEF Next, Running, CallerStep, LoopStep, Aborted

-----------------------------------------------------------------------------
(* One owner. *)

\* The buffers in the hands of the host after one was taken.
LEMMA HeldTake ==
    ASSUME NEW t \in Threads, NEW n, cbuf \in [Threads -> SUBSET Buffer],
           cbuf[t] = {}, cbuf' = [cbuf EXCEPT ![t] = {n}]
    PROVE  Held' = Held \cup {n}
  BY DEF Held

\* The buffers in the hands of the host after one was handed over.
LEMMA HeldGive ==
    ASSUME NEW t \in Threads, NEW n, cbuf \in [Threads -> SUBSET Buffer], Distinct,
           cbuf[t] = {n}, cbuf' = [cbuf EXCEPT ![t] = {}]
    PROVE  Held' = Held \ {n} /\ n \in Held
<1>1. \A u \in Threads : n \in cbuf[u] => u = t
  BY DEF Distinct
<1>2. \A u \in Threads : cbuf'[u] = IF u = t THEN {} ELSE cbuf[u]
  OBVIOUS
<1>3. ASSUME NEW x \in Held' PROVE x \in Held \ {n}
  BY <1>1, <1>2 DEF Held
<1>4. ASSUME NEW x \in Held \ {n} PROVE x \in Held'
  BY <1>2 DEF Held
<1>5. n \in Held
  BY DEF Held
<1> QED
  BY <1>3, <1>4, <1>5

\* Buffers that were not deleted before are deleted once.
LEMMA DeleteOnce ==
    ASSUME freed \in [Buffer -> Nat], \A n \in Buffer : freed[n] \in {0, 1},
           NEW S \in SUBSET Buffer, S \cap Deleted = {}, Delete(S)
    PROVE  Deleted' = Deleted \cup S /\ \A n \in Buffer : freed'[n] \in {0, 1}
<1>1. \A n \in Buffer : freed'[n] = IF n \in S THEN freed[n] + 1 ELSE freed[n]
  BY DEF Delete
<1>2. \A n \in S : freed[n] = 0
  BY DEF Deleted
<1>3. \A n \in Buffer : freed'[n] = IF n \in S THEN 1 ELSE freed[n]
  BY <1>1, <1>2
<1> QED
  BY <1>3 DEF Deleted

Owned == Divided /\ Distinct

\* At first there are no buffers.
LEMMA OwnedInit == Init => Owned
<1> SUFFICES ASSUME Init PROVE Owned
  OBVIOUS
<1>1. Held = {} /\ Queued = {} /\ Deleted = {} /\ sbuf = {}
  BY ElemsEmpty DEF Init, Held, Queued, Deleted
<1>2. {n \in Buffer : n < sequence} = {}
  BY TcpForwardAssumption DEF Init, Buffer
<1>3. Divided
  BY <1>1, <1>2 DEF Init, Divided
<1>4. Distinct
  BY DEF Init, Distinct
<1> QED
  BY <1>3, <1>4 DEF Owned

\* Every step keeps each buffer with one owner.
LEMMA OwnedStep == Typed /\ Owned /\ [Next]_vars => Owned'
<1> SUFFICES ASSUME Typed, Owned, [Next]_vars PROVE Owned'
  OBVIOUS
<1>0. /\ queue \in Seq(Buffer) /\ sequence \in 0 .. MaxPackets
      /\ cpc \in [Threads -> {"idle", "check", "push"}]
      /\ cbuf \in [Threads -> SUBSET Buffer] /\ freed \in [Buffer -> Nat]
      /\ sbuf \subseteq Buffer
      /\ MaxPackets \in Nat /\ QueueSize \in Nat
  BY TcpForwardAssumption, TypeParts DEF Typed, Data
<1>d. Divided /\ Distinct /\ Hands
  BY DEF Owned, Typed
<1>a. \A n \in Buffer : freed[n] \in {0, 1}
  BY <1>d DEF Divided
<1>q. Queued \subseteq Buffer
  BY <1>0 DEF Queued, Elems
<1>1. ASSUME NEW t \in Threads, TakeSequence(t) PROVE Owned'
  <2>1. /\ cbuf[t] = {} /\ cbuf' = [cbuf EXCEPT ![t] = {sequence}]
        /\ sequence' = sequence + 1 /\ sequence \in Buffer
        /\ UNCHANGED <<queue, freed, sbuf>>
    BY <1>0, <1>1, <1>d DEF TakeSequence, Hands, Buffer
  <2>2. Held' = Held \cup {sequence}
    BY <1>0, <2>1, HeldTake
  <2>3. Queued' = Queued /\ Deleted' = Deleted
    BY <2>1 DEF Queued, Deleted
  <2>4. {n \in Buffer : n < sequence'} = {n \in Buffer : n < sequence} \cup {sequence}
    BY <1>0, <2>1 DEF Buffer
  <2>5. sequence \notin Held \cup Queued \cup sbuf \cup Deleted
    BY <1>0, <1>d DEF Divided
  <2>6. Divided'
    BY <1>d, <2>1, <2>2, <2>3, <2>4, <2>5 DEF Divided
  <2>7. Distinct'
    <3>1. \A u \in Threads : sequence \notin cbuf[u]
      BY <2>5 DEF Held
    <3> QED
      BY <1>0, <1>d, <2>1, <3>1 DEF Distinct
  <2> QED
    BY <2>6, <2>7 DEF Owned
<1>2. ASSUME NEW t \in Threads, CheckConnected(t) PROVE Owned'
  <2>1. UNCHANGED <<queue, sequence, sbuf>>
    BY <1>2 DEF CheckConnected
  <2>2. CASE cbuf' = cbuf /\ freed' = freed
    <3>1. Held' = Held /\ Queued' = Queued /\ Deleted' = Deleted
      BY <2>1, <2>2 DEF Held, Queued, Deleted
    <3> QED
      BY <1>d, <2>1, <2>2, <3>1 DEF Owned, Divided, Distinct
  <2>3. CASE cbuf' = [cbuf EXCEPT ![t] = {}] /\ Delete(cbuf[t])
    <3>1. PICK n \in Buffer : cbuf[t] = {n}
      BY <1>2, <1>d DEF CheckConnected, Hands
    <3>2. Held' = Held \ {n} /\ n \in Held
      BY <1>0, <1>d, <2>3, <3>1, HeldGive
    <3>3. {n} \cap Deleted = {} /\ Delete({n})
      BY <1>d, <2>3, <3>1, <3>2 DEF Divided
    <3>4. Deleted' = Deleted \cup {n} /\ \A m \in Buffer : freed'[m] \in {0, 1}
      BY <1>0, <1>a, <3>1, <3>3, DeleteOnce
    <3>5. Queued' = Queued
      BY <2>1 DEF Queued
    <3>6. Divided'
      BY <1>d, <2>1, <3>2, <3>4, <3>5 DEF Divided
    <3>7. Distinct'
      BY <1>0, <1>d, <2>1, <2>3 DEF Distinct
    <3> QED
      BY <3>6, <3>7 DEF Owned
  <2> QED
    BY <1>2, <2>2, <2>3 DEF CheckConnected
<1>3. ASSUME NEW t \in Threads, Push(t) PROVE Owned'
  <2>1. PICK n \in Buffer : cbuf[t] = {n}
    BY <1>3, <1>d DEF Push, Hands
  <2>2. /\ cbuf' = [cbuf EXCEPT ![t] = {}] /\ UNCHANGED <<sequence, sbuf>>
        /\ \/ Full /\ queue' = Append(Tail(queue), n) /\ Delete({Head(queue)})
           \/ ~Full /\ queue' = Append(queue, n) /\ freed' = freed
    BY <1>3, <2>1 DEF Push
  <2>3. Held' = Held \ {n} /\ n \in Held
    BY <1>0, <1>d, <2>1, <2>2, HeldGive
  <2>4. n \notin Queued /\ n \notin sbuf /\ n \notin Deleted
    BY <1>d, <2>3 DEF Divided
  <2>5. \A u, v \in Threads : cbuf'[u] \cap cbuf'[v] # {} => u = v
    BY <1>0, <1>d, <2>2 DEF Distinct
  <2>6. CASE Full
    <3>1. queue # <<>>
      BY <1>0, <2>6 DEF Full
    <3>2. /\ Head(queue) \in Buffer /\ Tail(queue) \in Seq(Buffer)
          /\ Queued = {Head(queue)} \cup Elems(Tail(queue))
      BY <1>0, <3>1, ElemsTail DEF Queued
    <3>3. queue' = Append(Tail(queue), n) /\ Delete({Head(queue)})
      BY <2>2, <2>6
    <3>4. Queued' = Elems(Tail(queue)) \cup {n}
      <4>1. Elems(Append(Tail(queue), n)) = Elems(Tail(queue)) \cup {n}
        <5> DEFINE q == Tail(queue)
        <5>1. q \in Seq(Buffer)
          BY <3>2
        <5> HIDE DEF q
        <5>2. Elems(Append(q, n)) = Elems(q) \cup {n}
          BY <5>1, ElemsAppend
        <5> QED
          BY <5>2 DEF q
      <4> QED
        BY <3>3, <4>1 DEF Queued
    <3>5. Head(queue) \notin Elems(Tail(queue))
      BY <1>0, <1>d, <3>1 DEF Distinct, Elems
    <3>6. {Head(queue)} \cap Deleted = {}
      BY <1>d, <3>2 DEF Divided
    <3>7. /\ Deleted' = Deleted \cup {Head(queue)}
          /\ \A m \in Buffer : freed'[m] \in {0, 1}
      BY <1>0, <1>a, <3>2, <3>3, <3>6, DeleteOnce
    <3>8. Divided'
      BY <1>d, <2>2, <2>3, <2>4, <3>2, <3>4, <3>5, <3>7 DEF Divided
    <3>9. \A i, j \in DOMAIN queue' : queue'[i] = queue'[j] => i = j
      <4> DEFINE q == Tail(queue)
      <4>1. q \in Seq(Buffer) /\ \A i, j \in DOMAIN q : q[i] = q[j] => i = j
        BY <1>0, <1>d, <3>1, <3>2, DistinctTail DEF Distinct
      <4>2. n \notin Elems(q)
        BY <2>4, <3>2
      <4>3. queue' = Append(q, n)
        BY <3>3
      <4> HIDE DEF q
      <4>4. \A i \in DOMAIN q : q[i] # n
        BY <4>2 DEF Elems
      <4>5. \A i, j \in DOMAIN Append(q, n) : Append(q, n)[i] = Append(q, n)[j] => i = j
        BY <4>1, <4>4, DistinctAppend
      <4> QED
        BY <4>3, <4>5
    <3> QED
      BY <2>5, <3>8, <3>9 DEF Owned, Distinct
  <2>7. CASE ~Full
    <3>1. queue' = Append(queue, n) /\ freed' = freed
      BY <2>2, <2>7
    <3>2. Queued' = Queued \cup {n} /\ Deleted' = Deleted
      BY <1>0, <2>1, <3>1, ElemsAppend DEF Queued, Deleted
    <3>3. Divided'
      BY <1>d, <2>2, <2>3, <2>4, <3>1, <3>2 DEF Divided
    <3>4. \A i, j \in DOMAIN queue' : queue'[i] = queue'[j] => i = j
      <4>1. \A i \in DOMAIN queue : queue[i] # n
        BY <2>4 DEF Queued, Elems
      <4>2. queue \in Seq(Buffer) /\ \A i, j \in DOMAIN queue : queue[i] = queue[j] => i = j
        BY <1>0, <1>d DEF Distinct
      <4>3. \A i, j \in DOMAIN Append(queue, n) :
               Append(queue, n)[i] = Append(queue, n)[j] => i = j
        BY <4>1, <4>2, DistinctAppend
      <4> QED
        BY <3>1, <4>3
    <3> QED
      BY <2>5, <3>3, <3>4 DEF Owned, Distinct
  <2> QED
    BY <2>6, <2>7
<1>4. CASE ConnectClear
  <2>1. /\ queue' = <<>> /\ Delete(Queued) /\ UNCHANGED <<sequence, cbuf, sbuf>>
    BY <1>4 DEF ConnectClear, Queued, callVars
  <2>2. Queued' = {} /\ Held' = Held
    BY <2>1, ElemsEmpty DEF Queued, Held
  <2>3. Queued \cap Deleted = {}
    BY <1>d DEF Divided
  <2>4. Deleted' = Deleted \cup Queued /\ \A m \in Buffer : freed'[m] \in {0, 1}
    BY <1>0, <1>a, <1>q, <2>1, <2>3, DeleteOnce
  <2>5. Divided'
    BY <1>d, <2>1, <2>2, <2>4 DEF Divided
  <2>6. Distinct'
    BY <1>d, <2>1 DEF Distinct
  <2> QED
    BY <2>5, <2>6 DEF Owned
<1>5. CASE Pop
  <2>1. UNCHANGED <<sequence, cbuf, freed>>
    BY <1>5 DEF Pop, callVars
  <2>2. Held' = Held /\ Deleted' = Deleted
    BY <2>1 DEF Held, Deleted
  <2>3. CASE queue = <<>>
    <3>1. queue' = queue /\ sbuf' = sbuf /\ Queued' = Queued
      BY <1>5, <2>3 DEF Pop, Queued
    <3> QED
      BY <1>d, <2>1, <2>2, <3>1 DEF Owned, Divided, Distinct
  <2>4. CASE queue # <<>>
    <3>1. queue' = Tail(queue) /\ sbuf' = {Head(queue)} /\ sbuf = {}
      BY <1>5, <1>d, <2>4 DEF Pop, Hands
    <3>2. Queued = {Head(queue)} \cup Queued'
      BY <1>0, <2>4, <3>1, ElemsTail DEF Queued
    <3>3. Head(queue) \notin Queued'
      BY <1>0, <1>d, <2>4, <3>1 DEF Distinct, Queued, Elems
    <3>4. Divided'
      BY <1>d, <2>1, <2>2, <3>1, <3>2, <3>3 DEF Divided
    <3>5. \A i, j \in DOMAIN Tail(queue) : Tail(queue)[i] = Tail(queue)[j] => i = j
      BY <1>0, <1>d, <2>4, DistinctTail DEF Distinct
    <3>6. Distinct'
      BY <1>d, <2>1, <3>1, <3>5 DEF Distinct
    <3> QED
      BY <3>4, <3>6 DEF Owned
  <2> QED
    BY <2>3, <2>4
<1>6. CASE SendDone
  <2>1. sbuf' = {} /\ Delete(sbuf) /\ UNCHANGED <<sequence, cbuf, queue>>
    BY <1>6 DEF SendDone, callVars
  <2>2. Queued' = Queued /\ Held' = Held
    BY <2>1 DEF Queued, Held
  <2>3. sbuf \cap Deleted = {}
    BY <1>d DEF Divided
  <2>4. Deleted' = Deleted \cup sbuf /\ \A m \in Buffer : freed'[m] \in {0, 1}
    BY <1>0, <1>a, <2>1, <2>3, DeleteOnce
  <2>5. Divided'
    BY <1>d, <2>1, <2>2, <2>4 DEF Divided
  <2>6. Distinct'
    BY <1>d, <2>1 DEF Distinct
  <2> QED
    BY <2>5, <2>6 DEF Owned
<1>7. CASE \/ Start \/ Shutdown \/ Joined \/ LoopStart \/ LoopTop
           \/ DialOk \/ DialNoSocket \/ DialRefused \/ DialNoHost \/ SendPart
           \/ SendError \/ LoopEnd \/ ServerDown \/ ServerUp \/ ServerReads
           \/ UNCHANGED vars
  <2>1. UNCHANGED <<queue, sequence, cbuf, freed, sbuf>>
    BY <1>7 DEF Start, Shutdown, Joined, LoopStart, LoopTop, DialOk, DialNoSocket,
       DialRefused, DialNoHost, SendPart, SendError, LoopEnd, ServerDown, ServerUp, ServerReads,
       vars, callVars
  <2>2. Held' = Held /\ Queued' = Queued /\ Deleted' = Deleted
    BY <2>1 DEF Held, Queued, Deleted
  <2> QED
    BY <1>d, <2>1, <2>2 DEF Owned, Divided, Distinct
<1> QED
  BY <1>1, <1>2, <1>3, <1>4, <1>5, <1>6, <1>7
     DEF Next, Running, CallerStep, LoopStep, Aborted

\* A buffer in one of the places is counted once.
LEMMA CountOne ==
    ASSUME NEW S, NEW a, S \subseteq {a}
    PROVE  Cardinality(S) = IF a \in S THEN 1 ELSE 0
<1>1. CASE a \in S
  <2>1. S = {a}
    BY <1>1
  <2> QED
    BY <1>1, <2>1, FS_Singleton
<1>2. CASE a \notin S
  <2>1. S = {}
    BY <1>2
  <2> QED
    BY <1>2, <2>1, FS_EmptySet
<1> QED
  BY <1>1, <1>2

\* Owners that exclude each other add up to one.
LEMMA OwnedCount == Typed /\ Owned => OneOwner
<1> SUFFICES ASSUME Typed, Owned, NEW n \in Buffer
             PROVE  freed[n]
                      + Cardinality({t \in Threads : n \in cbuf[t]})
                      + Cardinality({i \in DOMAIN queue : queue[i] = n})
                      + Cardinality(sbuf \cap {n})
                    = IF n < sequence THEN 1 ELSE 0
  BY DEF OneOwner
<1> DEFINE C == {t \in Threads : n \in cbuf[t]}
           Q == {i \in DOMAIN queue : queue[i] = n}
           S == sbuf \cap {n}
<1>0. Divided /\ Distinct
  BY DEF Owned
<1>1. freed[n] = IF n \in Deleted THEN 1 ELSE 0
  BY <1>0 DEF Divided, Deleted
<1>2. Cardinality(C) = IF n \in Held THEN 1 ELSE 0
  <2>1. CASE C = {}
    <3>1. n \notin Held
      BY <2>1 DEF Held
    <3> QED
      BY <2>1, <3>1, FS_EmptySet
  <2>2. ASSUME NEW t \in C PROVE Cardinality(C) = 1 /\ n \in Held
    <3>1. C = {t}
      BY <1>0 DEF Distinct
    <3>2. n \in Held
      BY DEF Held
    <3> QED
      BY <3>1, <3>2, FS_Singleton
  <2> QED
    BY <2>1, <2>2
<1>3. Cardinality(Q) = IF n \in Queued THEN 1 ELSE 0
  <2>1. CASE Q = {}
    <3>1. n \notin Queued
      BY <2>1 DEF Queued, Elems
    <3> QED
      BY <2>1, <3>1, FS_EmptySet
  <2>2. ASSUME NEW i \in Q PROVE Cardinality(Q) = 1 /\ n \in Queued
    <3>1. Q = {i}
      BY <1>0 DEF Distinct
    <3>2. n \in Queued
      BY DEF Queued, Elems
    <3> QED
      BY <3>1, <3>2, FS_Singleton
  <2> QED
    BY <2>1, <2>2
<1>4. Cardinality(S) = IF n \in sbuf THEN 1 ELSE 0
  <2>1. Cardinality(S) = IF n \in S THEN 1 ELSE 0
    BY CountOne
  <2> QED
    BY <2>1
<1>5. n < sequence <=> n \in Held \cup Queued \cup sbuf \cup Deleted
  BY <1>0 DEF Divided
<1> HIDE DEF C, Q, S
<1>6. freed[n] + Cardinality(C) + Cardinality(Q) + Cardinality(S)
        = IF n < sequence THEN 1 ELSE 0
  <2>1. CASE n \in Deleted
    BY <1>0, <1>1, <1>2, <1>3, <1>4, <1>5, <2>1 DEF Divided
  <2>2. CASE n \in Held
    BY <1>0, <1>1, <1>2, <1>3, <1>4, <1>5, <2>2 DEF Divided
  <2>3. CASE n \in Queued
    BY <1>0, <1>1, <1>2, <1>3, <1>4, <1>5, <2>3 DEF Divided
  <2>4. CASE n \in sbuf
    BY <1>0, <1>1, <1>2, <1>3, <1>4, <1>5, <2>4 DEF Divided
  <2>5. CASE n \notin Held \cup Queued \cup sbuf \cup Deleted
    BY <1>0, <1>1, <1>2, <1>3, <1>4, <1>5, <2>5 DEF Divided
  <2> QED
    BY <2>1, <2>2, <2>3, <2>4, <2>5
<1> QED
  BY <1>6 DEF C, Q, S

-----------------------------------------------------------------------------
(* The theorems about ownership. *)

\* Every step keeps the types and the places of the threads.
LEMMA TypedStep == Typed /\ [Next]_vars => Typed'
<1> SUFFICES ASSUME Typed, [Next]_vars PROVE Typed'
  OBVIOUS
<1>1. TypeOK /\ Control /\ Hands /\ Flags /\ Data
  BY TypeParts DEF Typed
<1>2. Flags' /\ Data'
  BY <1>1, FlagsStep, DataStep
<1>3. TypeOK'
  BY <1>2, TypeParts, PTL
<1> QED
  BY <1>1, <1>3, ControlStep, HandsStep DEF Typed

\* Every step of the callers, of Init and Reset and of the thread of the client
\* keeps the types, the bound of the queue and the bound of the descriptors.
THEOREM TypeCorrect == Spec => []TypeOK
<1>1. Typed => TypeOK
  BY DEF Typed
<1> QED
  BY <1>1, TypedInit, TypedStep, PTL DEF Spec

\* No buffer is deleted twice, used after its deletion or forgotten, however
\* the pushes, the clearing in connect and a failing send interleave.
THEOREM BuffersOwned == Spec => []OneOwner
<1>1. Init => Typed /\ Owned
  BY TypedInit, OwnedInit
<1>2. Typed /\ Owned /\ [Next]_vars => Typed' /\ Owned'
  BY TypedStep, OwnedStep
<1> QED
  BY <1>1, <1>2, OwnedCount, PTL DEF Spec

-----------------------------------------------------------------------------
(* Order of the packets of one thread. *)

\* Buffers in use were built before the next sequence number.
LEMMA BuiltBefore ==
    ASSUME Typed, Owned, Elems(wire) \subseteq sbuf \cup Deleted
    PROVE  \A n \in Held \cup Queued \cup sbuf \cup Deleted \cup Elems(wire) :
              n \in Nat /\ n < sequence
  BY TcpForwardAssumption DEF Owned, Divided, Buffer

\* At first nothing is under way.
LEMMA OrderedInit == Init => Ordered
<1> SUFFICES ASSUME Init PROVE Ordered
  OBVIOUS
<1>1. Held = {} /\ Queued = {} /\ sbuf = {} /\ Elems(wire) = {}
  BY ElemsEmpty DEF Init, Held, Queued
<1>2. OrderPerThread
  BY DEF Init, OrderPerThread
<1> QED
  BY <1>1, <1>2 DEF Init, Ordered, NotAfter

\* Every step keeps the order of the packets of a thread.
LEMMA OrderedStep == Typed /\ Owned /\ Ordered /\ [Next]_vars /\ Owned' => Ordered'
<1> SUFFICES ASSUME Typed, Owned, Ordered, [Next]_vars, Owned' PROVE Ordered'
  OBVIOUS
<1>0. /\ queue \in Seq(Buffer) /\ sequence \in 0 .. MaxPackets
      /\ by \in Seq(Threads) /\ Len(by) = sequence
      /\ cbuf \in [Threads -> SUBSET Buffer] /\ freed \in [Buffer -> Nat]
      /\ sbuf \subseteq Buffer /\ wire \in Seq(Buffer)
      /\ MaxPackets \in Nat /\ QueueSize \in Nat
  BY TcpForwardAssumption, TypeParts DEF Typed, Data
<1>d. Divided /\ Distinct /\ Hands /\ Divided'
  BY DEF Owned, Typed
<1>w. Elems(wire) \subseteq sbuf \cup Deleted
  BY DEF Ordered
<1>b. \A n \in Held \cup Queued \cup sbuf \cup Deleted \cup Elems(wire) :
         n \in Nat /\ n < sequence
  BY <1>w, BuiltBefore
<1>t. \A t \in Threads : \A n \in cbuf[t] : by[n + 1] = t
  BY DEF Ordered
<1>s. /\ NotAfter(Elems(wire), Held) /\ NotAfter(Elems(wire), Queued)
      /\ NotAfter(Elems(wire), sbuf)
      /\ NotAfter(sbuf, Held) /\ NotAfter(sbuf, Queued) /\ NotAfter(Queued, Held)
  BY DEF Ordered
<1>q. \A i, j \in DOMAIN queue :
         i < j /\ by[queue[i] + 1] = by[queue[j] + 1] => queue[i] <= queue[j]
  BY DEF Ordered
<1>o. OrderPerThread
  BY DEF Ordered
<1>1. ASSUME NEW t \in Threads, TakeSequence(t) PROVE Ordered'
  <2>1. /\ cbuf[t] = {} /\ cbuf' = [cbuf EXCEPT ![t] = {sequence}]
        /\ by' = Append(by, t) /\ UNCHANGED <<queue, freed, sbuf, wire>>
    BY <1>1, <1>d DEF TakeSequence, Hands
  <2>2. /\ Held' = Held \cup {sequence} /\ Queued' = Queued /\ Deleted' = Deleted
    BY <1>0, <2>1, HeldTake DEF Queued, Deleted
  <2>3. /\ \A n \in Nat : n < sequence => by'[n + 1] = by[n + 1]
        /\ by'[sequence + 1] = t
    BY <1>0, <2>1
  <2>4. \A u \in Threads : \A n \in cbuf'[u] : by'[n + 1] = u
    <3>1. \A u \in Threads : cbuf[u] \subseteq Held
      BY DEF Held
    <3> QED
      BY <1>0, <1>b, <1>t, <2>1, <2>3, <3>1
  <2>5. ASSUME NEW A, NEW B, NotAfter(A, B), \A n \in A \cup B : n \in Nat /\ n < sequence
        PROVE  \A a \in A, b \in B : by'[a + 1] = by'[b + 1] => a <= b
    BY <2>3, <2>5 DEF NotAfter
  <2>6. ASSUME NEW A, NotAfter(A, Held), \A n \in A : n \in Nat /\ n < sequence
        PROVE  \A a \in A, b \in Held' : by'[a + 1] = by'[b + 1] => a <= b
    <3>1. \A a \in A, b \in Held : by'[a + 1] = by'[b + 1] => a <= b
      BY <1>b, <2>5, <2>6
    <3>2. \A a \in A : a <= sequence
      BY <1>0, <2>6
    <3> QED
      BY <2>2, <3>1, <3>2
  <2>7. \A i, j \in DOMAIN queue :
           i < j /\ by'[queue[i] + 1] = by'[queue[j] + 1] => queue[i] <= queue[j]
    <3>1. \A i \in DOMAIN queue : queue[i] \in Queued
      BY DEF Queued, Elems
    <3> QED
      BY <1>b, <1>q, <2>3, <3>1
  <2>8. OrderPerThread'
    <3>1. \A i \in DOMAIN wire : wire[i] \in Elems(wire)
      BY DEF Elems
    <3> QED
      <4>1. \A i, j \in DOMAIN wire :
               i < j /\ by'[wire[i] + 1] = by'[wire[j] + 1] => wire[i] <= wire[j]
        BY <1>b, <1>o, <2>3, <3>1 DEF OrderPerThread
      <4> QED
        BY <2>1, <4>1 DEF OrderPerThread
  <2>9. /\ NotAfter(Elems(wire), Held)' /\ NotAfter(sbuf, Held)' /\ NotAfter(Queued, Held)'
    BY <1>b, <1>s, <2>1, <2>2, <2>6 DEF NotAfter
  <2>10. /\ NotAfter(Elems(wire), Queued)' /\ NotAfter(Elems(wire), sbuf)'
         /\ NotAfter(sbuf, Queued)'
    <3>1. /\ \A a \in Elems(wire), b \in Queued : by'[a + 1] = by'[b + 1] => a <= b
          /\ \A a \in Elems(wire), b \in sbuf : by'[a + 1] = by'[b + 1] => a <= b
          /\ \A a \in sbuf, b \in Queued : by'[a + 1] = by'[b + 1] => a <= b
      BY <1>b, <1>s, <2>5
    <3> QED
      BY <2>1, <2>2, <3>1 DEF NotAfter
  <2> QED
    BY <1>w, <2>1, <2>2, <2>4, <2>7, <2>8, <2>9, <2>10 DEF Ordered
<1>2. ASSUME NEW t \in Threads, CheckConnected(t) PROVE Ordered'
  <2>1. UNCHANGED <<by, queue, sbuf, wire>>
    BY <1>2 DEF CheckConnected
  <2>2. cbuf' = cbuf \/ cbuf' = [cbuf EXCEPT ![t] = {}]
    BY <1>2 DEF CheckConnected
  <2>3. \A u \in Threads : cbuf'[u] \subseteq cbuf[u]
    BY <1>0, <2>2
  <2>4. Held' \subseteq Held
    BY <2>3 DEF Held
  <2>5. Queued' = Queued
    BY <2>1 DEF Queued
  <2>6. Deleted \subseteq Deleted'
    <3>1. \A n \in Buffer : freed'[n] = freed[n] \/ freed'[n] = freed[n] + 1
      BY <1>0, <1>2 DEF CheckConnected, Delete
    <3> QED
      BY <1>0, <1>d, <3>1 DEF Divided, Deleted
  <2>7. OrderPerThread'
    BY <1>o, <2>1 DEF OrderPerThread
  <2> QED
    BY <1>w, <1>t, <1>s, <1>q, <2>1, <2>3, <2>4, <2>5, <2>6, <2>7 DEF Ordered, NotAfter
<1>3. ASSUME NEW t \in Threads, Push(t) PROVE Ordered'
  <2>1. PICK n \in Buffer : cbuf[t] = {n}
    BY <1>3, <1>d DEF Push, Hands
  <2>2. /\ cbuf' = [cbuf EXCEPT ![t] = {}] /\ UNCHANGED <<by, sbuf, wire>>
        /\ \/ Full /\ queue' = Append(Tail(queue), n) /\ Delete({Head(queue)})
           \/ ~Full /\ queue' = Append(queue, n) /\ freed' = freed
    BY <1>3, <2>1 DEF Push
  <2>3. Held' = Held \ {n} /\ n \in Held
    BY <1>0, <1>d, <2>1, <2>2, HeldGive
  <2>4. Deleted \subseteq Deleted'
    <3>1. \A m \in Buffer : freed'[m] = freed[m] \/ freed'[m] = freed[m] + 1
      BY <1>0, <2>2 DEF Delete
    <3> QED
      BY <1>0, <1>d, <3>1 DEF Divided, Deleted
  <2>5. \A m \in Held' : by[m + 1] # by[n + 1]
    BY <1>0, <1>t, <2>1, <2>2 DEF Held
  <2>6. /\ Queued' \subseteq Queued \cup {n}
        /\ \A i, j \in DOMAIN queue' :
             i < j /\ by[queue'[i] + 1] = by[queue'[j] + 1] => queue'[i] <= queue'[j]
    <3>1. \A i \in DOMAIN queue : by[queue[i] + 1] = by[n + 1] => queue[i] <= n
      BY <1>s, <2>3 DEF NotAfter, Queued, Elems
    <3>2. CASE Full
      <4>1. queue # <<>> /\ queue' = Append(Tail(queue), n)
        BY <1>0, <2>2, <3>2 DEF Full
      <4>2. /\ Tail(queue) \in Seq(Buffer)
            /\ Queued = {Head(queue)} \cup Elems(Tail(queue))
        BY <1>0, <4>1, ElemsTail DEF Queued
      <4>3. Elems(Append(Tail(queue), n)) = Elems(Tail(queue)) \cup {n}
        <5> DEFINE q == Tail(queue)
        <5>1. q \in Seq(Buffer)
          BY <4>2
        <5> HIDE DEF q
        <5>2. Elems(Append(q, n)) = Elems(q) \cup {n}
          BY <5>1, ElemsAppend
        <5> QED
          BY <5>2 DEF q
      <4>4. Queued' \subseteq Queued \cup {n}
        BY <4>1, <4>2, <4>3 DEF Queued
      <4>5. /\ DOMAIN queue' = 1 .. Len(queue) /\ Len(queue) \in Nat
            /\ queue'[Len(queue)] = n
        BY <1>0, <2>1, <4>1
      <4>8. \A i \in 1 .. Len(queue) - 1 : queue'[i] = queue[i + 1]
        BY <1>0, <2>1, <4>1
      <4>6. DOMAIN queue = 1 .. Len(queue) /\ Len(queue) \in Nat
        BY <1>0
      <4>7. ASSUME NEW i \in 1 .. Len(queue), NEW j \in 1 .. Len(queue), i < j
            PROVE  by[queue'[i] + 1] = by[queue'[j] + 1] => queue'[i] <= queue'[j]
        <5>0. i \in 1 .. Len(queue) - 1 /\ i + 1 \in DOMAIN queue
          BY <4>6, <4>7
        <5>1. i + 1 \in DOMAIN queue /\ queue'[i] = queue[i + 1]
          BY <4>8, <5>0
        <5>2. CASE j = Len(queue)
          <6>1. queue'[j] = n
            BY <4>5, <5>2
          <6>2. by[queue[i + 1] + 1] = by[n + 1] => queue[i + 1] <= n
            BY <3>1, <5>1
          <6> QED
            BY <5>1, <6>1, <6>2
        <5>3. CASE j < Len(queue)
          <6>0. j \in 1 .. Len(queue) - 1 /\ j + 1 \in DOMAIN queue /\ i + 1 < j + 1
            BY <4>6, <4>7, <5>3
          <6>1. j + 1 \in DOMAIN queue /\ queue'[j] = queue[j + 1] /\ i + 1 < j + 1
            BY <4>8, <6>0
          <6>2. by[queue[i + 1] + 1] = by[queue[j + 1] + 1] => queue[i + 1] <= queue[j + 1]
            BY <1>q, <5>1, <6>1
          <6> QED
            BY <5>1, <6>1, <6>2
        <5> QED
          BY <5>2, <5>3
      <4> QED
        BY <4>4, <4>5, <4>7
    <3>3. CASE ~Full
      <4>1. queue' = Append(queue, n)
        BY <2>2, <3>3
      <4>2. Elems(Append(queue, n)) = Queued \cup {n}
        BY <1>0, <2>1, ElemsAppend DEF Queued
      <4>3. Queued' = Queued \cup {n}
        BY <4>1, <4>2 DEF Queued
      <4>4. /\ DOMAIN queue' = 1 .. Len(queue) + 1 /\ Len(queue) \in Nat
            /\ DOMAIN queue = 1 .. Len(queue)
            /\ \A i \in DOMAIN queue' :
                  queue'[i] = IF i = Len(queue) + 1 THEN n ELSE queue[i]
        BY <1>0, <2>1, <4>1
      <4> QED
        BY <1>q, <3>1, <4>3, <4>4
    <3> QED
      BY <3>2, <3>3
  <2>7. \A u \in Threads : cbuf'[u] \subseteq cbuf[u]
    BY <1>0, <2>2
  <2>8. OrderPerThread'
    BY <1>o, <2>2 DEF OrderPerThread
  <2> QED
    BY <1>w, <1>t, <1>s, <2>2, <2>3, <2>4, <2>5, <2>6, <2>7, <2>8 DEF Ordered, NotAfter
<1>4. CASE ConnectClear
  <2>1. queue' = <<>> /\ Delete(Queued) /\ UNCHANGED <<by, cbuf, sbuf, wire>>
    BY <1>4 DEF ConnectClear, Queued, callVars
  <2>2. Queued' = {} /\ Held' = Held
    BY <2>1, ElemsEmpty DEF Queued, Held
  <2>3. Deleted \subseteq Deleted'
    <3>1. \A m \in Buffer : freed'[m] = freed[m] \/ freed'[m] = freed[m] + 1
      BY <1>0, <2>1 DEF Delete
    <3> QED
      BY <1>0, <1>d, <3>1 DEF Divided, Deleted
  <2>4. OrderPerThread'
    BY <1>o, <2>1 DEF OrderPerThread
  <2> QED
    BY <1>w, <1>t, <1>s, <2>1, <2>2, <2>3, <2>4 DEF Ordered, NotAfter
<1>5. CASE Pop
  <2>1. UNCHANGED <<by, cbuf, freed, wire>>
    BY <1>5 DEF Pop, callVars
  <2>2. Held' = Held /\ Deleted' = Deleted /\ OrderPerThread'
    BY <1>o, <2>1 DEF Held, Deleted, OrderPerThread
  <2>3. CASE queue = <<>>
    <3>1. queue' = queue /\ sbuf' = sbuf /\ Queued' = Queued
      BY <1>5, <2>3 DEF Pop, Queued
    <3> QED
      BY <1>w, <1>t, <1>s, <1>q, <2>1, <2>2, <3>1 DEF Ordered, NotAfter
  <2>4. CASE queue # <<>>
    <3>1. queue' = Tail(queue) /\ sbuf' = {Head(queue)} /\ sbuf = {}
      BY <1>5, <1>d, <2>4 DEF Pop, Hands
    <3>2. Queued = {Head(queue)} \cup Queued'
      BY <1>0, <2>4, <3>1, ElemsTail DEF Queued
    <3>3. /\ DOMAIN queue = 1 .. Len(queue) /\ Len(queue) \in Nat \ {0}
          /\ DOMAIN queue' = 1 .. Len(queue) - 1
          /\ \A i \in DOMAIN queue' : queue'[i] = queue[i + 1]
          /\ Head(queue) = queue[1]
      BY <1>0, <2>4, <3>1
    <3>4. \A b \in Queued' : by[Head(queue) + 1] = by[b + 1] => Head(queue) <= b
      BY <1>q, <3>3 DEF Queued, Elems
    <3>5. \A i, j \in DOMAIN queue' :
             i < j /\ by[queue'[i] + 1] = by[queue'[j] + 1] => queue'[i] <= queue'[j]
      BY <1>q, <3>3
    <3> QED
      BY <1>w, <1>t, <1>s, <2>1, <2>2, <3>1, <3>2, <3>4, <3>5 DEF Ordered, NotAfter
  <2> QED
    BY <2>3, <2>4
<1>6. CASE SendPart
  <2>1. /\ UNCHANGED <<by, cbuf, freed, queue, sbuf>>
        /\ wire' = wire \/ \E n \in sbuf : wire' = Append(wire, n)
    BY <1>6 DEF SendPart, callVars
  <2>2. Held' = Held /\ Deleted' = Deleted /\ Queued' = Queued
    BY <2>1 DEF Held, Deleted, Queued
  <2>3. CASE wire' = wire
    <3>1. OrderPerThread'
      BY <1>o, <2>1, <2>3 DEF OrderPerThread
    <3> QED
      BY <1>w, <1>t, <1>s, <1>q, <2>1, <2>2, <2>3, <3>1 DEF Ordered, NotAfter
  <2>4. ASSUME NEW n \in sbuf, wire' = Append(wire, n) PROVE Ordered'
    <3>1. sbuf = {n} /\ n \in Buffer
      BY <1>6, <1>d, <2>4 DEF Hands, SendPart
    <3>2. Elems(wire') = Elems(wire) \cup {n}
      BY <1>0, <2>4, <3>1, ElemsAppend
    <3>3. /\ DOMAIN wire' = 1 .. Len(wire) + 1 /\ Len(wire) \in Nat
          /\ DOMAIN wire = 1 .. Len(wire)
          /\ \A i \in DOMAIN wire' : wire'[i] = IF i = Len(wire) + 1 THEN n ELSE wire[i]
      BY <1>0, <2>4, <3>1
    <3>4. \A i \in DOMAIN wire : by[wire[i] + 1] = by[n + 1] => wire[i] <= n
      BY <1>s DEF NotAfter, Elems
    <3>5. OrderPerThread'
      BY <1>o, <2>1, <3>3, <3>4 DEF OrderPerThread
    <3>6. n \in Nat
      BY <1>b
    <3> QED
      BY <1>w, <1>t, <1>s, <1>q, <2>1, <2>2, <3>1, <3>2, <3>5, <3>6 DEF Ordered, NotAfter
  <2> QED
    BY <2>1, <2>3, <2>4
<1>7. CASE SendDone
  <2>1. sbuf' = {} /\ Delete(sbuf) /\ UNCHANGED <<by, cbuf, queue, wire>>
    BY <1>7 DEF SendDone, callVars
  <2>2. Queued' = Queued /\ Held' = Held /\ OrderPerThread'
    BY <1>o, <2>1 DEF Queued, Held, OrderPerThread
  <2>3. Deleted' = Deleted \cup sbuf
    BY <1>0, <1>d, <2>1, DeleteOnce DEF Divided
  <2> QED
    BY <1>w, <1>t, <1>s, <1>q, <2>1, <2>2, <2>3 DEF Ordered, NotAfter
<1>8. CASE DialOk \/ LoopEnd
  <2>1. wire' = <<>> /\ UNCHANGED <<by, cbuf, freed, queue, sbuf>>
    BY <1>8 DEF DialOk, LoopEnd, callVars
  <2>2. Held' = Held /\ Queued' = Queued /\ Deleted' = Deleted /\ Elems(wire') = {}
    BY <2>1, ElemsEmpty DEF Held, Queued, Deleted
  <2>3. OrderPerThread'
    BY <2>1 DEF OrderPerThread
  <2> QED
    BY <1>t, <1>s, <1>q, <2>1, <2>2, <2>3 DEF Ordered, NotAfter
<1>9. CASE \/ Start \/ Shutdown \/ Joined \/ LoopStart \/ LoopTop
           \/ DialNoSocket \/ DialRefused \/ DialNoHost
           \/ SendError \/ ServerDown \/ ServerUp \/ ServerReads \/ UNCHANGED vars
  <2>1. UNCHANGED <<queue, by, cbuf, freed, sbuf, wire>>
    BY <1>9 DEF Start, Shutdown, Joined, LoopStart, LoopTop, DialNoSocket,
       DialRefused, DialNoHost, SendError, ServerDown, ServerUp, ServerReads, vars, callVars
  <2>2. Held' = Held /\ Queued' = Queued /\ Deleted' = Deleted /\ OrderPerThread'
    BY <1>o, <2>1 DEF Held, Queued, Deleted, OrderPerThread
  <2> QED
    BY <1>w, <1>t, <1>s, <1>q, <2>1, <2>2 DEF Ordered, NotAfter
<1> QED
  BY <1>1, <1>2, <1>3, <1>4, <1>5, <1>6, <1>7, <1>8, <1>9
     DEF Next, Running, CallerStep, LoopStep, Aborted

\* Two packets of one thread leave in the order it received them, whatever the
\* queue drops and however often the connection is made again.
THEOREM ThreadOrder == Spec => []OrderPerThread
<1>1. Init => Typed /\ Owned /\ Ordered
  BY TypedInit, OwnedInit, OrderedInit
<1>2. Typed /\ Owned /\ Ordered /\ [Next]_vars => Typed' /\ Owned' /\ Ordered'
  BY TypedStep, OwnedStep, OrderedStep
<1>3. Ordered => OrderPerThread
  BY DEF Ordered
<1> QED
  BY <1>1, <1>2, <1>3, PTL DEF Spec

-----------------------------------------------------------------------------
(* Whole packets. *)

\* Quotient and remainder.
LEMMA DivRange ==
    ASSUME NEW p \in Nat \ {0}, NEW a \in Nat
    PROVE  a \div p \in Nat /\ p * (a \div p) <= a /\ a < p * (a \div p) + p
  BY SMT

\* The quotient is the number of the block.
LEMMA DivBlock ==
    ASSUME NEW p \in Nat \ {0}, NEW a \in Nat, NEW k \in Nat,
           p * k <= a, a < p * k + p
    PROVE  a \div p = k
  OBVIOUS

\* The indices of the parts of the buffer being sent are one block.
LEMMA OpenBlock ==
    ASSUME NEW p \in Nat \ {0}, NEW L \in Nat, NEW l \in 1 .. p, NEW q \in Nat,
           L + l = p * q
    PROVE  \A i \in 1 .. L : (i - 1) \div p = L \div p <=> i + p > L + l
<1>0. l \in Nat /\ 1 <= l /\ l <= p
  OBVIOUS
<1>1. PICK k \in Nat : q = k + 1
  <2>1. q # 0
    BY <1>0
  <2> QED
    BY <2>1
<1> DEFINE m == p * k
<1>2. m \in Nat /\ L + l = m + p
  BY <1>1
<1>3. m <= L /\ L < m + p
  <2> HIDE DEF m
  <2> QED
    BY <1>0, <1>2
<1>4. L \div p = k
  BY <1>3, DivBlock
<1>5. ASSUME NEW i \in 1 .. L
      PROVE  (i - 1) \div p = k <=> i + p > L + l
  <2> DEFINE d == (i - 1) \div p
  <2>1. i - 1 \in Nat /\ i - 1 < m + p /\ (i + p > L + l <=> m <= i - 1)
    <3> HIDE DEF m
    <3> QED
      BY <1>0, <1>2, <1>3
  <2>2. ASSUME m <= i - 1 PROVE d = k
    BY <2>1, <2>2, DivBlock
  <2>3. d \in Nat /\ p * d <= i - 1
    BY <2>1, DivRange
  <2>4. ASSUME d = k PROVE m <= i - 1
    <3>1. p * d = m
      BY <2>4, Zenon DEF m
    <3> QED
      BY <2>3, <3>1
  <2> HIDE DEF m, d
  <2>5. d = k <=> i + p > L + l
    BY <2>1, <2>2, <2>4
  <2> QED
    BY <2>5 DEF d
<1> QED
  BY <1>4, <1>5

\* A part of the buffer being sent that joins whole packets and the parts
\* before it starts no packet in the middle of another.
LEMMA PartJoins ==
    ASSUME NEW w \in Seq(Buffer), NEW n \in Buffer, NEW q \in Nat,
           NEW l \in 1 .. Parts,
           Len(w) + l = Parts * q,
           \A i \in DOMAIN w : w[i] = n <=> i + Parts > Len(w) + l,
           \A i, j \in DOMAIN w :
              (w[i] = w[j]) <=> ((i - 1) \div Parts = (j - 1) \div Parts)
    PROVE  \A i, j \in DOMAIN Append(w, n) :
              (Append(w, n)[i] = Append(w, n)[j])
                 <=> ((i - 1) \div Parts = (j - 1) \div Parts)
<1> DEFINE v == Append(w, n)
           L == Len(w)
<1>0. Parts \in Nat \ {0} /\ L \in Nat /\ l \in Nat /\ 1 <= l /\ l <= Parts
  BY TcpForwardAssumption
<1>1. /\ DOMAIN w = 1 .. L /\ DOMAIN v = 1 .. L + 1
      /\ \A i \in 1 .. L : v[i] = w[i]
      /\ v[L + 1] = n
  OBVIOUS
<1>4. \A i \in 1 .. L : (i - 1) \div Parts = L \div Parts <=> i + Parts > L + l
  BY <1>0, OpenBlock
<1>5. \A i \in 1 .. L : w[i] = n <=> (i - 1) \div Parts = L \div Parts
  BY <1>1, <1>4
<1>6. (L + 1) - 1 = L
  BY <1>0
<1> HIDE DEF v, L
<1>7. ASSUME NEW i \in 1 .. L + 1, NEW j \in 1 .. L + 1
      PROVE  (v[i] = v[j]) <=> ((i - 1) \div Parts = (j - 1) \div Parts)
  <2>1. CASE i = L + 1 /\ j = L + 1
    BY <2>1
  <2>2. CASE i = L + 1 /\ j \in 1 .. L
    BY <1>1, <1>4, <1>5, <1>6, <2>2
  <2>3. CASE i \in 1 .. L /\ j = L + 1
    BY <1>1, <1>4, <1>5, <1>6, <2>3
  <2>4. CASE i \in 1 .. L /\ j \in 1 .. L
    BY <1>1, <2>4
  <2> QED
    BY <1>0, <2>1, <2>2, <2>3, <2>4
<1> QED
  BY <1>1, <1>7 DEF v, L

\* At first nothing was sent.
LEMMA FramedInit == Init => Framed
  BY DEF Init, Framed, WholePackets

\* Every step keeps the packets on a connection whole.
LEMMA FramedStep == Typed /\ Owned /\ Ordered /\ Framed /\ [Next]_vars => Framed'
<1> SUFFICES ASSUME Typed, Owned, Ordered, Framed, [Next]_vars PROVE Framed'
  OBVIOUS
<1>0. /\ queue \in Seq(Buffer) /\ wire \in Seq(Buffer) /\ sbuf \subseteq Buffer
      /\ left \in 0 .. Parts /\ Parts \in Nat \ {0} /\ Len(wire) \in Nat
  BY TcpForwardAssumption, TypeParts DEF Typed, Data
<1>d. Divided /\ Hands /\ Control
  BY DEF Owned, Typed
<1>w. WholePackets
  BY DEF Framed
<1>1. CASE DialOk
  <2>1. wire' = <<>> /\ spc' # "send" /\ Len(wire') = Parts * 0
    BY <1>0, <1>1 DEF DialOk, AfterDial
  <2>2. WholePackets'
    BY <2>1 DEF WholePackets
  <2> QED
    BY <2>1, <2>2 DEF Framed
<1>2. CASE LoopEnd
  <2>1. wire' = <<>> /\ ~alive'
    BY <1>2 DEF LoopEnd
  <2>2. WholePackets'
    BY <2>1 DEF WholePackets
  <2> QED
    BY <2>1, <2>2 DEF Framed
<1>3. CASE ServerDown
  <2>1. wire' = wire /\ ~alive'
    BY <1>3 DEF ServerDown
  <2>2. WholePackets'
    BY <1>w, <2>1 DEF WholePackets
  <2> QED
    BY <2>1, <2>2 DEF Framed
<1>4. CASE Pop
  <2>1. wire' = wire /\ alive' = alive /\ spc # "send"
    BY <1>4 DEF Pop, envVars
  <2>2. WholePackets'
    BY <1>w, <2>1 DEF WholePackets
  <2>3. CASE queue = <<>>
    <3>1. spc' # "send"
      BY <1>4, <2>3 DEF Pop
    <3> QED
      BY <2>1, <2>2, <3>1 DEF Framed
  <2>4. CASE queue # <<>>
    <3>1. spc' = "send" /\ sbuf' = {Head(queue)} /\ left' = Parts
      BY <1>4, <2>4 DEF Pop
    <3>2. ASSUME alive PROVE \E q \in Nat : Len(wire) + Parts = Parts * q
      <4>1. PICK q \in Nat : Len(wire) = Parts * q
        BY <2>1, <3>2 DEF Framed
      <4>2. Len(wire) + Parts = Parts * (q + 1)
        BY <1>0, <4>1
      <4> QED
        BY <4>2
    <3>3. ASSUME NEW i \in DOMAIN wire PROVE wire[i] # Head(queue)
      <4>1. wire[i] \in Deleted
        BY <1>d, <2>1 DEF Ordered, Elems, Hands
      <4>2. Head(queue) \in Queued
        BY <1>0, <2>4, ElemsTail DEF Queued
      <4> QED
        BY <1>d, <4>1, <4>2 DEF Divided
    <3>4. \A i \in DOMAIN wire : ~(i + Parts > Len(wire) + Parts)
      BY <1>0
    <3> QED
      BY <2>1, <2>2, <3>1, <3>2, <3>3, <3>4 DEF Framed
  <2> QED
    BY <2>3, <2>4
<1>5. CASE SendPart
  <2>1. /\ spc = "send" /\ spc' = spc /\ sbuf' = sbuf /\ alive' = alive
        /\ left > 0 /\ left' = left - 1
    BY <1>5 DEF SendPart, envVars
  <2>2. PICK n \in Buffer : sbuf = {n}
    BY <1>d, <2>1 DEF Hands
  <2>3. CASE ~alive
    <3>1. wire' = wire
      BY <1>5, <2>3 DEF SendPart
    <3>2. WholePackets'
      BY <1>w, <3>1 DEF WholePackets
    <3> QED
      BY <2>1, <2>3, <3>2 DEF Framed
  <2>4. CASE alive
    <3>1. wire' = Append(wire, n)
      BY <1>5, <2>2, <2>4 DEF SendPart
    <3>2. PICK q \in Nat : Len(wire) + left = Parts * q
      BY <2>1, <2>4 DEF Framed
    <3>3. \A i \in DOMAIN wire : wire[i] = n <=> i + Parts > Len(wire) + left
      BY <2>1, <2>2, <2>4 DEF Framed
    <3>4. left \in 1 .. Parts
      BY <1>0, <2>1
    <3>5. WholePackets'
      <4>1. \A i, j \in DOMAIN Append(wire, n) :
               (Append(wire, n)[i] = Append(wire, n)[j])
                  <=> ((i - 1) \div Parts = (j - 1) \div Parts)
        BY <1>0, <1>w, <3>2, <3>3, <3>4, PartJoins DEF WholePackets
      <4> QED
        BY <3>1, <4>1 DEF WholePackets
    <3>6. Len(wire') = Len(wire) + 1 /\ Len(wire') + left' = Len(wire) + left
      BY <1>0, <2>1, <3>1
    <3>7. ASSUME NEW i \in DOMAIN wire'
          PROVE  wire'[i] \in sbuf' <=> i + Parts > Len(wire') + left'
      <4>1. CASE i = Len(wire) + 1
        <5>1. wire'[i] = n
          BY <1>0, <3>1, <4>1
        <5>2. i + Parts > Len(wire) + left
          BY <1>0, <4>1
        <5> QED
          BY <2>1, <2>2, <3>6, <5>1, <5>2
      <4>2. CASE i \in DOMAIN wire
        <5>1. wire'[i] = wire[i]
          BY <1>0, <3>1, <4>2
        <5> QED
          BY <2>1, <2>2, <3>3, <3>6, <4>2, <5>1
      <4>3. i = Len(wire) + 1 \/ i \in DOMAIN wire
        BY <1>0, <3>1
      <4> QED
        BY <4>1, <4>2, <4>3
    <3> QED
      BY <2>1, <3>2, <3>5, <3>6, <3>7 DEF Framed
  <2> QED
    BY <2>3, <2>4
<1>6. CASE SendError
  <2>1. ~alive' /\ wire' = wire
    BY <1>6 DEF SendError, envVars
  <2>2. WholePackets'
    BY <1>w, <2>1 DEF WholePackets
  <2> QED
    BY <2>1, <2>2 DEF Framed
<1>7. CASE SendDone
  <2>1. /\ spc = "send" /\ spc' = "top" /\ alive' = alive /\ wire' = wire /\ left = 0
    BY <1>7 DEF SendDone, envVars
  <2>2. WholePackets'
    BY <1>w, <2>1 DEF WholePackets
  <2>3. ASSUME alive PROVE \E q \in Nat : Len(wire) = Parts * q
    BY <1>0, <2>1, <2>3 DEF Framed
  <2> QED
    BY <2>1, <2>2, <2>3 DEF Framed
<1>8. CASE \/ Start \/ Shutdown \/ Joined \/ LoopStart \/ LoopTop \/ ConnectClear
           \/ DialNoSocket \/ DialRefused \/ DialNoHost \/ ServerUp \/ ServerReads \/ UNCHANGED vars
           \/ \E t \in Threads : CallerStep(t)
  <2>1. /\ UNCHANGED <<left, sbuf, alive, wire>>
        /\ spc' = spc \/ (spc # "send" /\ spc' # "send")
    BY <1>8, <1>d DEF Control, Start, Shutdown, Joined, LoopStart, LoopTop,
       ConnectClear, DialNoSocket, DialRefused, DialNoHost, ServerUp, ServerReads, AfterDial,
       vars, envVars, CallerStep, TakeSequence, CheckConnected, Push
  <2>2. WholePackets'
    BY <1>w, <2>1 DEF WholePackets
  <2> QED
    BY <2>1, <2>2 DEF Framed
<1> QED
  BY <1>1, <1>2, <1>3, <1>4, <1>5, <1>6, <1>7, <1>8
     DEF Next, Running, LoopStep, Aborted

\* A connection carries whole packets one after the other, only the last one
\* possibly cut short: a send that fails half way and the connection made after
\* it never leave the middle of a packet before the next one.
THEOREM PacketsWhole == Spec => []WholePackets
<1>1. Init => Typed /\ Owned /\ Ordered /\ Framed
  BY TypedInit, OwnedInit, OrderedInit, FramedInit
<1>2. Typed /\ Owned /\ Ordered /\ Framed /\ [Next]_vars
        => Typed' /\ Owned' /\ Ordered' /\ Framed'
  BY TypedStep, OwnedStep, OrderedStep, FramedStep
<1>3. Framed => WholePackets
  BY DEF Framed
<1> QED
  BY <1>1, <1>2, <1>3, PTL DEF Spec
=============================================================================
