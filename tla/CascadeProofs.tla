--------------------------- MODULE CascadeProofs ----------------------------
(***************************************************************************)
(* Proofs about the cascading proxy, for every stream, every size of read  *)
(* and any number of broken connections: no connection to the second       *)
(* hadock is left open but the one of a goroutine that was dialing when    *)
(* the handler returned, and the second hadock decodes frames that were    *)
(* sent, in order and at most once.  And about the hadock protocol, for    *)
(* every length of the packets and every chunk size: the decoder returns   *)
(* what the replay command wrote.                                          *)
(***************************************************************************)
EXTENDS Cascade, Codec, Lemmas, FiniteSetTheorems, SequenceTheorems, TLAPS

-----------------------------------------------------------------------------
(* The invariant. *)

\* Connections are numbered in the order they were made, and each can be open.
Numbered ==
    /\ conns \in Seq(ToSet(conns))
    /\ \A c \in DOMAIN conns : "open" \in DOMAIN conns[c]

\* Before cascading.Proxy there is nothing, after it the Conn of the proxy is
\* one of the connections, or there is no proxy.
Placed ==
    /\ cur \in 0 .. Len(conns)
    /\ closing \subseteq 1 .. Len(conns)
    /\ lpc = "dial" => conns = <<>> /\ cur = 0 /\ closing = {}
    /\ cur = 0 <=> writer = "none"
    /\ cur = 0 => conns = <<>>

\* Only an error of a write to the connection starts a goroutine, and that one
\* ends before there is a connection to write to again.  One that outlives the
\* handler was dialing when it returned.
OneDials ==
    /\ writer \in {"none", "conn", "discard"}
    /\ dialing = IF writer = "discard" THEN 1 ELSE 0
    /\ lpc = "closed" /\ writer = "discard" => late

\* A connection that was replaced is closed, or about to be closed.
Released ==
    \A c \in DOMAIN conns : conns[c].open =>
        c \in closing \/ (c = cur /\ (lpc # "closed" \/ late))

Tended == Numbered /\ Placed /\ OneDials /\ Released

-----------------------------------------------------------------------------
\* A sequence is one of its own elements.
LEMMA SeqOfOwn ==
    ASSUME NEW S, NEW s \in Seq(S)
    PROVE  s \in Seq(ToSet(s))
<1>1. \A i \in 1 .. Len(s) : s[i] \in ToSet(s)
  BY DEF ToSet
<1>2. Len(s) \in Nat /\ s = [i \in 1 .. Len(s) |-> s[i]]
  OBVIOUS
<1> DEFINE T == ToSet(s)
<1> HIDE DEF T
<1>3. \A i \in 1 .. Len(s) : s[i] \in T
  BY <1>1 DEF T
<1>4. s \in [1 .. Len(s) -> T]
  BY <1>2, <1>3
<1> QED
  BY <1>2, <1>4 DEF T

\* A change of the connections that leaves their number, and closes none.
LEMMA SameConns ==
    ASSUME Numbered,
           NEW c \in DOMAIN conns, NEW r, "open" \in DOMAIN r,
           conns' = [conns EXCEPT ![c] = r]
    PROVE  /\ Numbered'
           /\ Len(conns') = Len(conns)
           /\ DOMAIN conns' = DOMAIN conns
           /\ conns'[c] = r
           /\ \A b \in DOMAIN conns : b # c => conns'[b] = conns[b]
<1> DEFINE S == ToSet(conns) \cup {r}
<1>1. conns \in Seq(S)
  BY DEF Numbered, ToSet
<1>2. conns' \in Seq(S) /\ Len(conns') = Len(conns) /\ DOMAIN conns' = DOMAIN conns
  BY <1>1
<1>3. conns'[c] = r /\ \A b \in DOMAIN conns : b # c => conns'[b] = conns[b]
  OBVIOUS
<1>4. conns' \in Seq(ToSet(conns'))
  BY <1>2, SeqOfOwn, Zenon
<1>5. \A b \in DOMAIN conns' : "open" \in DOMAIN conns'[b]
  BY <1>2, <1>3 DEF Numbered
<1> QED
  BY <1>2, <1>3, <1>4, <1>5 DEF Numbered

\* At first there is no connection to the second hadock.
LEMMA InitTended == Init => Tended
<1> SUFFICES ASSUME Init PROVE Tended
  OBVIOUS
<1>1. conns \in Seq(ToSet(conns)) /\ Len(conns) = 0 /\ DOMAIN conns = {}
  BY DEF Init
<1> QED
  BY <1>1 DEF Init, Tended, Numbered, Placed, OneDials, Released

\* Every step leaves each connection used, closed, or with the goroutine that closes it.
LEMMA NextTended == Tended /\ [Next]_vars => Tended'
<1> SUFFICES ASSUME Tended, [Next]_vars PROVE Tended'
  OBVIOUS
<1> USE DEF Tended
<1>s. DOMAIN conns = 1 .. Len(conns) /\ Len(conns) \in Nat
  BY DEF Numbered
<1>o. writer = "conn" \/ writer = "discard" => cur \in DOMAIN conns /\ cur # 0
  BY <1>s DEF Placed, OneDials
\* The steps that leave the proxy alone.
<1>q. ASSUME UNCHANGED <<writer, conns, cur, dialing, closing>>,
             (lpc = "closed" => late) => (lpc' = "closed" => late'),
             lpc' # "closed" \/ (lpc' = lpc /\ late' = late),
             lpc' # "dial" \/ lpc' = lpc
      PROVE  Tended'
  BY <1>q DEF Numbered, Placed, OneDials, Released
\* A connection changes; it is not open afterwards if it was not before.
<1>r. ASSUME NEW c \in DOMAIN conns, NEW r, "open" \in DOMAIN r,
             conns' = [conns EXCEPT ![c] = r],
             r.open => conns[c].open
      PROVE  /\ Numbered'
             /\ Len(conns') = Len(conns)
             /\ DOMAIN conns' = DOMAIN conns
             /\ \A b \in DOMAIN conns : conns'[b].open => conns[b].open
             /\ conns # <<>> /\ conns' # <<>>
  <2>1. /\ Numbered'
        /\ Len(conns') = Len(conns)
        /\ DOMAIN conns' = DOMAIN conns
        /\ conns'[c] = r
        /\ \A b \in DOMAIN conns : b # c => conns'[b] = conns[b]
    BY <1>r, SameConns
  <2>2. \A b \in DOMAIN conns : conns'[b].open => conns[b].open
    BY <2>1, <1>r
  <2>3. conns # <<>> /\ conns' # <<>>
    BY <2>1, <1>s, <1>r
  <2> QED
    BY <2>1, <2>2, <2>3
<1>1. CASE Proxy
  <2>1. CASE up
    <3>1. conns' = <<Connection(0)>> /\ cur' = 1 /\ writer' = "conn" /\ dialing' = dialing
          /\ closing' = closing /\ lpc' = "read" /\ closing = {} /\ dialing = 0
      BY <1>1, <2>1 DEF Proxy, Placed, OneDials
    <3>2. conns' \in Seq({Connection(0)}) /\ Len(conns') = 1 /\ DOMAIN conns' = {1}
          /\ conns'[1] = Connection(0)
      BY <3>1
    <3>3. Numbered'
      BY <3>2, SeqOfOwn DEF Numbered, Connection
    <3> QED
      BY <3>1, <3>2, <3>3 DEF Placed, OneDials, Released
  <2>2. CASE ~up
    BY <1>1, <2>2, <1>q DEF Proxy
  <2> QED
    BY <2>1, <2>2
<1>2. CASE \E n \in Reads : Read(n)
  <2>1. lpc = "read" /\ lpc' \in {"read", "write"}
    BY <1>2 DEF Read
  <2> QED
    BY <1>2, <2>1, <1>q DEF Read
<1>3. CASE WriteConn
  <2> DEFINE r == [conns[cur] EXCEPT !.len = IF conns[cur].alive THEN @ + (pos - written) ELSE @]
  <2>1. cur \in DOMAIN conns
    BY <1>3, <1>o DEF WriteConn
  <2>2. conns' = [conns EXCEPT ![cur] = r]
    BY <1>3 DEF WriteConn
  <2>3. "open" \in DOMAIN r /\ r.open = conns[cur].open
    BY <2>1 DEF Numbered
  <2>4. /\ Numbered' /\ Len(conns') = Len(conns) /\ DOMAIN conns' = DOMAIN conns
        /\ \A b \in DOMAIN conns : conns'[b].open => conns[b].open
        /\ conns # <<>> /\ conns' # <<>>
    <3> HIDE DEF r
    <3> QED
      BY <1>r, <2>1, <2>2, <2>3
  <2> QED
    BY <1>3, <2>1, <2>4 DEF WriteConn, Placed, OneDials, Released
<1>4. CASE WriteFails
  BY <1>4, <1>o DEF WriteFails, Failed, Numbered, Placed, OneDials, Released
<1>5. CASE WriteBreaks
  <2>1. cur \in DOMAIN conns
    BY <1>5, <1>o DEF WriteBreaks
  <2>2. PICK n \in 0 .. pos - written :
          conns' = [conns EXCEPT ![cur].len = @ + n, ![cur].alive = FALSE]
    BY <1>5 DEF WriteBreaks
  <2> DEFINE r == [conns[cur] EXCEPT !.len = @ + n, !.alive = FALSE]
  <2>3. conns' = [conns EXCEPT ![cur] = r]
    BY <2>1, <2>2
  <2>4. "open" \in DOMAIN r /\ r.open = conns[cur].open
    BY <2>1 DEF Numbered
  <2>5. /\ Numbered' /\ Len(conns') = Len(conns) /\ DOMAIN conns' = DOMAIN conns
        /\ \A b \in DOMAIN conns : conns'[b].open => conns[b].open
        /\ conns # <<>> /\ conns' # <<>>
    <3> HIDE DEF r
    <3> QED
      BY <1>r, <2>1, <2>3, <2>4
  <2> QED
    BY <1>5, <2>1, <2>5 DEF WriteBreaks, Failed, Placed, OneDials, Released
<1>6. CASE WriteDiscard
  BY <1>6, <1>q DEF WriteDiscard
<1>7. CASE ReadEnd
  BY <1>7, <1>q DEF ReadEnd
<1>8. CASE HandlerClose
  <2>1. CASE cur = 0
    BY <1>8, <2>1, <1>s DEF HandlerClose, Numbered, Placed, OneDials, Released
  <2>2. CASE cur # 0
    <3> DEFINE r == [conns[cur] EXCEPT !.open = FALSE]
    <3>1. cur \in DOMAIN conns
      BY <2>2, <1>s DEF Placed
    <3>2. conns' = [conns EXCEPT ![cur] = r]
      BY <1>8, <2>2, <3>1 DEF HandlerClose
    <3>3. "open" \in DOMAIN r /\ r.open = FALSE
      BY <3>1 DEF Numbered
    <3>4. /\ Numbered' /\ Len(conns') = Len(conns) /\ DOMAIN conns' = DOMAIN conns
          /\ \A b \in DOMAIN conns : conns'[b].open => conns[b].open
          /\ conns # <<>> /\ conns' # <<>>
      <4> HIDE DEF r
      <4> QED
        BY <1>r, <3>1, <3>2, <3>3
    <3>5. ~conns'[cur].open
      <4> HIDE DEF r
      <4> QED
        BY SameConns, <3>1, <3>2, <3>3
    <3>6. writer = "discard" => late'
      <4>1. writer = "discard" => dialing > 0
        BY DEF OneDials
      <4>2. late' = (dialing > 0)
        BY <1>8 DEF HandlerClose
      <4> QED
        BY <4>1, <4>2, Zenon
    <3>7. lpc' = "closed" /\ UNCHANGED <<writer, cur, dialing, closing>>
      BY <1>8 DEF HandlerClose
    <3>8. Placed'
      BY <3>4, <3>7, <3>1, <1>s DEF Placed
    <3>9. OneDials'
      BY <3>6, <3>7 DEF OneDials
    <3>10. Released'
      BY <3>4, <3>5, <3>7 DEF Released
    <3> QED
      BY <3>4, <3>8, <3>9, <3>10
  <2> QED
    BY <2>1, <2>2
<1>9. CASE Redial
  <2> DEFINE e == Connection(written)
             S == ToSet(conns) \cup {e}
  <2>1. conns \in Seq(S)
    BY DEF Numbered
  <2>2. conns' = Append(conns, e) /\ cur' = Len(conns') /\ closing' = closing \cup {cur}
        /\ dialing' = dialing - 1 /\ writer' = "conn" /\ dialing > 0
        /\ lpc' = lpc /\ late' = late
    BY <1>9 DEF Redial
  <2>3. writer = "discard" /\ cur \in DOMAIN conns /\ cur # 0
    BY <2>2, <1>o DEF OneDials
  <2>4. /\ conns' \in Seq(S) /\ Len(conns') = Len(conns) + 1
        /\ DOMAIN conns' = DOMAIN conns \cup {cur'}
        /\ conns'[cur'] = e
        /\ \A b \in DOMAIN conns : conns'[b] = conns[b]
    <3>1. e \in S
      OBVIOUS
    <3> HIDE DEF e, S
    <3>2. conns' \in Seq(S) /\ Len(conns') = Len(conns) + 1
      BY <2>1, <2>2, <3>1
    <3>3. DOMAIN conns' = 1 .. Len(conns) + 1 /\ cur' = Len(conns) + 1
      BY <2>2, <3>2
    <3>4. conns'[Len(conns) + 1] = e /\ \A b \in 1 .. Len(conns) : conns'[b] = conns[b]
      BY <2>1, <2>2, <3>1
    <3> QED
      BY <3>2, <3>3, <3>4, <1>s
  <2>5. Numbered'
    BY <2>4, SeqOfOwn DEF Numbered, Connection
  <2>6. lpc # "dial" /\ conns' # <<>>
    BY <2>3, <2>4, <1>s DEF Placed
  <2>7. Placed'
    <3>1. cur' \in 0 .. Len(conns') /\ cur' # 0
      BY <2>2, <2>4, <1>s
    <3>2. closing' \subseteq 1 .. Len(conns')
      <4>1. closing \subseteq 1 .. Len(conns) /\ cur \in 1 .. Len(conns)
        BY <2>3, <1>s DEF Placed
      <4>2. closing' \subseteq 1 .. Len(conns)
        BY <4>1, <2>2, Zenon
      <4>3. Len(conns') = Len(conns) + 1
        BY <2>4, Zenon
      <4> QED
        BY ONLY <4>2, <4>3, <1>s
    <3>3. writer' # "none" /\ lpc' # "dial"
      BY <2>2, <2>6
    <3> QED
      BY <3>1, <3>2, <3>3 DEF Placed
  <2>8. OneDials'
    BY <2>2, <2>3 DEF OneDials
  <2>9. Released'
    BY <2>2, <2>3, <2>4 DEF Released, OneDials
  <2> QED
    BY <2>5, <2>7, <2>8, <2>9
<1>10. CASE \E c \in closing : CloseOld(c)
  <2>1. PICK c \in closing : CloseOld(c)
    BY <1>10
  <2> DEFINE r == [conns[c] EXCEPT !.open = FALSE]
  <2>2. c \in DOMAIN conns
    BY <1>s DEF Placed
  <2>3. conns' = [conns EXCEPT ![c] = r]
    BY <2>1, <2>2 DEF CloseOld
  <2>4. "open" \in DOMAIN r /\ r.open = FALSE
    BY <2>2 DEF Numbered
  <2>5. /\ Numbered' /\ Len(conns') = Len(conns) /\ DOMAIN conns' = DOMAIN conns
        /\ \A b \in DOMAIN conns : conns'[b].open => conns[b].open
        /\ conns # <<>> /\ conns' # <<>>
    <3> HIDE DEF r
    <3> QED
      BY <1>r, <2>2, <2>3, <2>4
  <2>6. ~conns'[c].open
    <3> HIDE DEF r
    <3> QED
      BY SameConns, <2>2, <2>3, <2>4
  <2> QED
    BY <2>1, <2>5, <2>6 DEF CloseOld, Placed, OneDials, Released
<1>11. CASE \E c \in DOMAIN conns : RemoteRead(c)
  <2>1. PICK c \in DOMAIN conns : RemoteRead(c)
    BY <1>11
  <2> DEFINE r == [conns[c] EXCEPT !.at = After(@),
                                   !.got = @ \o SetToSeq(FrameAt(conns[c].at))]
  <2>2. conns' = [conns EXCEPT ![c] = r]
    BY <2>1 DEF RemoteRead
  <2>3. "open" \in DOMAIN r /\ r.open = conns[c].open
    BY DEF Numbered
  <2>4. /\ Numbered' /\ Len(conns') = Len(conns) /\ DOMAIN conns' = DOMAIN conns
        /\ \A b \in DOMAIN conns : conns'[b].open => conns[b].open
        /\ conns # <<>> /\ conns' # <<>>
    <3> HIDE DEF r
    <3> QED
      BY <1>r, <2>2, <2>3
  <2> QED
    BY <2>1, <2>4 DEF RemoteRead, Placed, OneDials, Released
<1>12. CASE \E c \in DOMAIN conns : Break(c)
  <2>1. PICK c \in DOMAIN conns : Break(c)
    BY <1>12
  <2>2. PICK n : conns' = [conns EXCEPT ![c].len = n, ![c].alive = FALSE]
    BY <2>1 DEF Break
  <2> DEFINE r == [conns[c] EXCEPT !.len = n, !.alive = FALSE]
  <2>3. conns' = [conns EXCEPT ![c] = r]
    BY <2>2
  <2>4. "open" \in DOMAIN r /\ r.open = conns[c].open
    BY DEF Numbered
  <2>5. /\ Numbered' /\ Len(conns') = Len(conns) /\ DOMAIN conns' = DOMAIN conns
        /\ \A b \in DOMAIN conns : conns'[b].open => conns[b].open
        /\ conns # <<>> /\ conns' # <<>>
    <3> HIDE DEF r
    <3> QED
      BY <1>r, <2>3, <2>4
  <2> QED
    BY <2>1, <2>5 DEF Break, Placed, OneDials, Released
<1>13. CASE RemoteChanges
  BY <1>13, <1>q DEF RemoteChanges
<1>14. CASE UNCHANGED vars
  BY <1>14, <1>q DEF vars
<1> QED
  BY <1>1, <1>2, <1>3, <1>4, <1>5, <1>6, <1>7, <1>8, <1>9, <1>10, <1>11, <1>12, <1>13,
     <1>14 DEF Next, LocalStep, ReconnectStep, RemoteStep

-----------------------------------------------------------------------------
\* No connection of the proxy is left open, and one goroutine at most dials,
\* whatever breaks and whenever the second hadock comes back: proxy.Write,
\* reconnect and the deferred Close of the handler in any order.
THEOREM NothingLeaks == Spec => []NoLeak
<1>1. Init => Tended
  BY InitTended
<1>2. Tended /\ [Next]_vars => Tended'
  BY NextTended
<1>3. Tended => NoLeak
  BY DEF Tended, OneDials, Released, NoLeak
<1> QED
  BY <1>1, <1>2, <1>3, PTL DEF Spec

-----------------------------------------------------------------------------
(* Frames in a stream. *)

Lengths == Nat \ 0 .. 3

\* Where frame k of stream s begins and ends, and the frame that begins at p.
From(s, k) == Sum(SubSeq(s, 1, k - 1))
To(s, k)   == From(s, k) + s[k]
Size(s)    == From(s, Len(s) + 1)
At(s, p)   == {k \in DOMAIN s : From(s, k) = p}

\* A frame ends where the next one begins.
LEMMA FrameStep ==
    ASSUME NEW s \in Seq(Lengths)
    PROVE  /\ DOMAIN s = 1 .. Len(s) /\ Len(s) \in Nat
           /\ \A k \in 1 .. Len(s) + 1 : From(s, k) \in Nat
           /\ \A k \in DOMAIN s : /\ To(s, k) = From(s, k + 1)
                                 /\ To(s, k) \in Nat
                                 /\ From(s, k) + 4 <= To(s, k)
<1>1. s \in Seq(Nat) /\ DOMAIN s = 1 .. Len(s) /\ Len(s) \in Nat
  BY DEF Lengths
<1>2. \A k \in 1 .. Len(s) : s[k] \in Nat /\ s[k] >= 4
  <2> TAKE k \in 1 .. Len(s)
  <2>1. s[k] \in Lengths
    OBVIOUS
  <2> QED
    BY ONLY <2>1 DEF Lengths
<1>3. \A k \in 1 .. Len(s) + 1 : From(s, k) \in Nat
  <2> TAKE k \in 1 .. Len(s) + 1
  <2>1. k - 1 \in 0 .. Len(s)
    BY <1>1
  <2> QED
    BY ONLY <2>1, <1>1, SumFirst DEF From
<1>4. \A k \in DOMAIN s : From(s, k + 1) = From(s, k) + s[k]
  <2> TAKE k \in DOMAIN s
  <2>1. k \in 1 .. Len(s) /\ (k + 1) - 1 = k
    BY <1>1
  <2>2. Sum(SubSeq(s, 1, k)) = Sum(SubSeq(s, 1, k - 1)) + s[k]
    BY ONLY <2>1, <1>1, SumFirst
  <2> QED
    BY ONLY <2>1, <2>2 DEF From
<1> QED
  <2> SUFFICES ASSUME NEW k \in DOMAIN s
               PROVE  /\ To(s, k) = From(s, k + 1)
                      /\ To(s, k) \in Nat
                      /\ From(s, k) + 4 <= To(s, k)
    BY <1>1, <1>3
  <2>1. k \in 1 .. Len(s) /\ k \in 1 .. Len(s) + 1
    BY <1>1
  <2> QED
    BY <2>1, <1>2, <1>3, <1>4 DEF To

\* Frames follow each other without overlap, up to the end of the stream.
LEMMA FrameOrder ==
    ASSUME NEW s \in Seq(Lengths)
    PROVE  \A j, k \in 1 .. Len(s) + 1 :
               /\ j <= k => From(s, j) <= From(s, k)
               /\ j < k => To(s, j) <= From(s, k)
<1>1. /\ DOMAIN s = 1 .. Len(s) /\ Len(s) \in Nat
      /\ \A k \in 1 .. Len(s) + 1 : From(s, k) \in Nat
      /\ \A k \in DOMAIN s : /\ To(s, k) = From(s, k + 1)
                            /\ To(s, k) \in Nat
                            /\ From(s, k) + 4 <= To(s, k)
  BY FrameStep
<1>2. ASSUME NEW j \in 1 .. Len(s) + 1
      PROVE  \A k \in j .. Len(s) + 1 : From(s, j) <= From(s, k)
  <2> DEFINE n == Len(s) + 1 - j
             S == {d \in 0 .. n : From(s, j) <= From(s, j + d)}
  <2>1. n \in Nat /\ j \in Nat
    BY <1>1
  <2>2. 0 \in S
    BY <1>1, <2>1
  <2>3. ASSUME NEW d \in 0 .. n - 1, d \in S PROVE d + 1 \in S
    <3>1. j + d \in DOMAIN s /\ j + (d + 1) = (j + d) + 1 /\ d + 1 \in 0 .. n
          /\ j + d \in 1 .. Len(s) + 1 /\ (j + d) + 1 \in 1 .. Len(s) + 1
      BY <1>1, <2>1
    <3>2. From(s, j + d) + 4 <= From(s, (j + d) + 1)
      BY <1>1, <3>1
    <3>3. From(s, j + d) \in Nat /\ From(s, (j + d) + 1) \in Nat /\ From(s, j) \in Nat
      BY <1>1, <3>1
    <3>4. From(s, j) <= From(s, j + d)
      BY <2>3
    <3>5. From(s, j) <= From(s, (j + d) + 1)
      BY ONLY <3>2, <3>3, <3>4
    <3> QED
      BY ONLY <3>1, <3>5
  <2>4. \A d \in 0 .. n : d \in S
    <3> HIDE DEF S, n
    <3> QED
      BY <2>1, <2>2, <2>3, Induct
  <2> TAKE k \in j .. Len(s) + 1
  <2>5. k - j \in 0 .. n /\ j + (k - j) = k
    BY <1>1, <2>1
  <2>6. k - j \in S
    BY ONLY <2>4, <2>5
  <2> QED
    BY ONLY <2>5, <2>6
<1> SUFFICES ASSUME NEW j \in 1 .. Len(s) + 1, NEW k \in 1 .. Len(s) + 1
             PROVE  /\ j <= k => From(s, j) <= From(s, k)
                    /\ j < k => To(s, j) <= From(s, k)
  OBVIOUS
<1>3. ASSUME j <= k PROVE From(s, j) <= From(s, k)
  <2>1. k \in j .. Len(s) + 1
    BY <1>1, <1>3
  <2> QED
    BY <2>1, <1>2
<1>4. ASSUME j < k PROVE To(s, j) <= From(s, k)
  <2>1. j + 1 \in 1 .. Len(s) + 1 /\ k \in (j + 1) .. Len(s) + 1 /\ j \in DOMAIN s
    BY <1>1, <1>4
  <2>2. From(s, j + 1) <= From(s, k)
    BY <2>1, <1>2
  <2> QED
    BY <2>1, <2>2, <1>1
<1> QED
  BY <1>3, <1>4

\* What follows for the decoder of a stream.
LEMMA Frames ==
    ASSUME NEW s \in Seq(Lengths)
    PROVE  /\ DOMAIN s = 1 .. Len(s) /\ Len(s) \in Nat /\ Size(s) \in Nat
           /\ \A k \in DOMAIN s : /\ From(s, k) \in Nat /\ To(s, k) \in Nat
                                 /\ From(s, k) + 4 <= To(s, k)
                                 /\ To(s, k) <= Size(s)
           /\ \A k \in DOMAIN s : k # Len(s) => k + 1 \in DOMAIN s /\ From(s, k + 1) = To(s, k)
           /\ Len(s) # 0 => Len(s) \in DOMAIN s /\ To(s, Len(s)) = Size(s)
<1>1. /\ DOMAIN s = 1 .. Len(s) /\ Len(s) \in Nat
      /\ \A k \in 1 .. Len(s) + 1 : From(s, k) \in Nat
      /\ \A k \in DOMAIN s : /\ To(s, k) = From(s, k + 1)
                            /\ To(s, k) \in Nat
                            /\ From(s, k) + 4 <= To(s, k)
  BY FrameStep
<1>2. \A j, k \in 1 .. Len(s) + 1 :
          /\ j <= k => From(s, j) <= From(s, k)
          /\ j < k => To(s, j) <= From(s, k)
  BY FrameOrder
<1>3. Size(s) \in Nat
  BY <1>1 DEF Size
<1>4. ASSUME NEW k \in DOMAIN s
      PROVE  /\ From(s, k) \in Nat /\ To(s, k) \in Nat
             /\ From(s, k) + 4 <= To(s, k)
             /\ To(s, k) <= Size(s)
  <2>1. k \in 1 .. Len(s) + 1 /\ k + 1 \in 1 .. Len(s) + 1 /\ Len(s) + 1 \in 1 .. Len(s) + 1
        /\ k + 1 <= Len(s) + 1
    BY <1>1
  <2> QED
    BY <2>1, <1>1, <1>2 DEF Size
<1>6. ASSUME NEW k \in DOMAIN s, k # Len(s)
      PROVE  k + 1 \in DOMAIN s /\ From(s, k + 1) = To(s, k)
  BY <1>1, <1>6
<1>7. Len(s) # 0 => Len(s) \in DOMAIN s /\ To(s, Len(s)) = Size(s)
  BY <1>1 DEF Size
<1> QED
  BY <1>1, <1>3, <1>4, <1>6, <1>7

\* The number of a frame and the positions of its two ends are naturals.
LEMMA FrameNumbers ==
    ASSUME NEW s \in Seq(Lengths), NEW k \in DOMAIN s
    PROVE  k \in Nat /\ From(s, k) \in Nat /\ To(s, k) \in Nat
<1>1. DOMAIN s = 1 .. Len(s) /\ Len(s) \in Nat
  OBVIOUS
<1>2. k \in Nat
  BY <1>1
<1> QED
  BY <1>2, Frames

\* Two frames of a stream do not overlap, and follow each other by their numbers.
LEMMA FramePairs ==
    ASSUME NEW s \in Seq(Lengths), NEW j \in DOMAIN s, NEW k \in DOMAIN s
    PROVE  /\ j < k => To(s, j) <= From(s, k)
           /\ From(s, j) <= From(s, k) => j <= k
           /\ j <= k => To(s, j) <= To(s, k)
<1>0. DOMAIN s = 1 .. Len(s) /\ Len(s) \in Nat
  OBVIOUS
<1>1. j \in 1 .. Len(s) + 1 /\ k \in 1 .. Len(s) + 1 /\ j \in Nat /\ k \in Nat
  BY <1>0
<1>2. /\ j < k => To(s, j) <= From(s, k)
      /\ k < j => To(s, k) <= From(s, j)
  BY <1>1, FrameOrder
<1>3. /\ From(s, k) \in Nat /\ To(s, k) \in Nat /\ From(s, k) + 4 <= To(s, k)
      /\ From(s, j) \in Nat /\ To(s, j) \in Nat /\ From(s, j) + 4 <= To(s, j)
  BY Frames
<1>4. j < k \/ k < j \/ j = k
  BY <1>1
<1>5. CASE j = k
  BY ONLY <1>1, <1>3, <1>5
<1> QED
  BY ONLY <1>1, <1>2, <1>3, <1>4, <1>5

\* One frame at most begins at a position; what a decoder takes from there.
LEMMA FrameFound ==
    ASSUME NEW s \in Seq(Lengths), NEW p, NEW k \in At(s, p)
    PROVE  At(s, p) = {k} /\ (CHOOSE j \in At(s, p) : TRUE) = k /\ SetToSeq(At(s, p)) = <<k>>
<1>0. \A a, b \in DOMAIN s : From(s, a) <= From(s, b) => a <= b
  BY FramePairs
<1>1. \A j \in At(s, p) : j = k
  <2> TAKE j \in At(s, p)
  <2>1. j \in DOMAIN s /\ k \in DOMAIN s /\ From(s, j) = From(s, k)
    BY DEF At
  <2>2. j \in Nat /\ k \in Nat /\ From(s, j) \in Nat
    BY <2>1, FrameNumbers, Zenon
  <2>4. From(s, j) <= From(s, k) /\ From(s, k) <= From(s, j)
    BY ONLY <2>1, <2>2
  <2>5. j <= k /\ k <= j
    BY ONLY <2>1, <1>0, <2>4
  <2> QED
    BY ONLY <2>2, <2>5
<1>2. At(s, p) = {k}
  BY <1>1
<1>3. SetToSeq({k}) = <<k>>
  <2>1. Cardinality({k}) = 1
    BY FS_Singleton
  <2>2. <<k>> \in [1 .. 1 -> {k}] /\ IsInjective(<<k>>)
    BY DEF IsInjective
  <2>3. \A f \in [1 .. 1 -> {k}] : f = <<k>>
    OBVIOUS
  <2>4. (CHOOSE f \in [1 .. 1 -> {k}] : IsInjective(f)) = <<k>>
    BY ONLY <2>2, <2>3
  <2> QED
    BY ONLY <2>1, <2>4, Zenon DEF SetToSeq
<1> QED
  BY <1>2, <1>3

\* Where no frame begins, none is found.
LEMMA NoFrameFound == SetToSeq({}) = <<>>
<1>1. Cardinality({}) = 0
  BY FS_EmptySet
<1>2. <<>> \in [1 .. 0 -> {}] /\ IsInjective(<<>>)
  BY DEF IsInjective
<1>3. \A f \in [1 .. 0 -> {}] : f = <<>>
  OBVIOUS
<1> QED
  BY <1>1, <1>2, <1>3 DEF SetToSeq

\* Steps of four bytes.
LEMMA Parity ==
    ASSUME NEW a \in Nat, NEW b \in Nat, NEW c \in Nat, c <= a, (a - c) % 4 = 0
    PROVE  /\ ((a + 4) - c) % 4 = 0
           /\ a <= b /\ (b - c) % 4 = 0 /\ b # a => a + 4 <= b
OBVIOUS

-----------------------------------------------------------------------------
(* What the second hadock has decoded. *)

Record == [start : Nat, len : Nat, open : BOOLEAN, alive : BOOLEAN, at : Nat, got : Seq(Nat)]

\* The decoder is within what arrived.
Within(r) == r.start <= r.at /\ r.at <= r.start + r.len

\* It has decoded frames that lie between the start of the connection and its
\* place, in order.
Decoded(r, s) ==
    /\ \A i \in DOMAIN r.got : /\ r.got[i] \in DOMAIN s
                              /\ r.start <= From(s, r.got[i])
                              /\ To(s, r.got[i]) <= r.at
    /\ \A i, j \in DOMAIN r.got : i < j => r.got[i] < r.got[j]

\* Frames that begin at a multiple of four bytes from its start.
InStep(r, s) ==
    {k \in DOMAIN s : From(s, k) >= r.start /\ (From(s, k) - r.start) % 4 = 0}

\* It is a multiple of four bytes from the start and before the first of those
\* frames, or at the end of a frame and has missed none since the first.
Searching(r, s) ==
    (r.at - r.start) % 4 = 0 /\ \A j \in InStep(r, s) : r.at <= From(s, j)
Following(r, s, k) ==
    r.at = To(s, k) /\ \A j \in InStep(r, s) : \A i \in j .. k : i \in ToSet(r.got)
Synced(r, s) == Searching(r, s) \/ \E k \in DOMAIN s : Following(r, s, k)

Tracked(r, s) == r \in Record /\ Within(r) /\ Decoded(r, s) /\ Synced(r, s)

\* A new connection.
LEMMA NewTracked ==
    ASSUME NEW s \in Seq(Lengths), NEW p \in Nat
    PROVE  Tracked(Connection(p), s)
<1> DEFINE r == Connection(p)
<1>1. r \in Record /\ r.start = p /\ r.at = p /\ r.len = 0 /\ r.got = <<>>
  BY DEF Connection, Record
<1> HIDE DEF r
<1>2. Within(r)
  BY <1>1 DEF Within
<1>3. Decoded(r, s)
  BY <1>1 DEF Decoded
<1>4. Searching(r, s)
  <2>1. \A k \in DOMAIN s : From(s, k) \in Nat
    BY Frames
  <2>2. (p - p) % 4 = 0
    OBVIOUS
  <2> QED
    BY <1>1, <2>1, <2>2 DEF Searching, InStep
<1> QED
  BY <1>1, <1>2, <1>3, <1>4 DEF Tracked, Synced, r

\* Arrivals, breaks and closing leave what is decoded.
LEMMA OtherTracked ==
    ASSUME NEW s \in Seq(Lengths), NEW r, Tracked(r, s), NEW q \in Record,
           q.start = r.start, q.at = r.at, q.got = r.got, q.at <= q.start + q.len
    PROVE  Tracked(q, s)
<1>1. InStep(q, s) = InStep(r, s)
  BY DEF InStep
<1>2. Synced(q, s)
  BY <1>1 DEF Tracked, Synced, Searching, Following
<1>3. Decoded(q, s)
  BY DEF Tracked, Decoded
<1> QED
  BY <1>2, <1>3 DEF Tracked, Within

\* The decoder skips four bytes that are no preamble.
LEMMA SkipTracked ==
    ASSUME NEW s \in Seq(Lengths), NEW r, Tracked(r, s), NEW q \in Record,
           q.start = r.start, q.len = r.len, q.got = r.got, q.at = r.at + 4,
           q.at <= q.start + q.len, r.start + r.len <= Size(s), At(s, r.at) = {}
    PROVE  Tracked(q, s)
<1>0. r.start \in Nat /\ r.at \in Nat /\ r.len \in Nat /\ r.start <= r.at
  BY DEF Tracked, Record, Within
<1>1. InStep(q, s) = InStep(r, s)
  BY DEF InStep
<1>2. Decoded(q, s)
  <2>1. \A i \in DOMAIN r.got : To(s, r.got[i]) \in Nat
    BY Frames DEF Tracked, Decoded
  <2> QED
    BY <2>1, <1>0 DEF Tracked, Decoded
<1>3. ~\E k \in DOMAIN s : Following(r, s, k)
  <2> SUFFICES ASSUME NEW k \in DOMAIN s, r.at = To(s, k) PROVE FALSE
    BY DEF Following
  <2>1. CASE k # Len(s)
    BY <2>1, Frames DEF At
  <2>2. CASE k = Len(s)
    <3>1. Len(s) # 0 /\ To(s, k) = Size(s)
      BY <2>2, Frames
    <3>2. Size(s) \in Nat
      BY Frames
    <3> QED
      BY ONLY <3>1, <3>2, <1>0, r.at = To(s, k), q.start = r.start, q.len = r.len,
         q.at = r.at + 4, q.at <= q.start + q.len, r.start + r.len <= Size(s)
  <2> QED
    BY <2>1, <2>2
<1>4. Searching(q, s)
  <2>1. Searching(r, s)
    BY <1>3 DEF Tracked, Synced
  <2>2. ASSUME NEW j \in InStep(r, s) PROVE r.at + 4 <= From(s, j)
    <3>1. From(s, j) \in Nat /\ j \in DOMAIN s
      BY Frames DEF InStep
    <3>2. r.at # From(s, j)
      BY <3>1 DEF At
    <3>3. r.at <= From(s, j) /\ (From(s, j) - r.start) % 4 = 0 /\ (r.at - r.start) % 4 = 0
      BY <2>1 DEF Searching, InStep
    <3> QED
      BY ONLY <3>1, <3>2, <3>3, <1>0, Parity
  <2>3. ((r.at + 4) - r.start) % 4 = 0
    BY <2>1, <1>0, Parity DEF Searching
  <2> QED
    BY <1>1, <2>2, <2>3 DEF Searching
<1>5. Within(q)
  BY <1>0 DEF Within
<1> QED
  BY <1>2, <1>4, <1>5 DEF Tracked, Synced

\* The decoder reads the frame that begins where it is.
LEMMA FrameTracked ==
    ASSUME NEW s \in Seq(Lengths), NEW r, Tracked(r, s), NEW q \in Record,
           NEW k \in DOMAIN s, From(s, k) = r.at,
           q.start = r.start, q.len = r.len, q.got = Append(r.got, k), q.at = To(s, k),
           q.at <= q.start + q.len
    PROVE  Tracked(q, s)
<1>0. /\ r.start \in Nat /\ r.at \in Nat /\ r.len \in Nat /\ r.start <= r.at
      /\ r.got \in Seq(Nat)
  BY DEF Tracked, Record, Within
<1>1. InStep(q, s) = InStep(r, s)
  BY DEF InStep
<1>2. /\ From(s, k) \in Nat /\ To(s, k) \in Nat /\ From(s, k) + 4 <= To(s, k)
      /\ To(s, k) <= Size(s) /\ Size(s) \in Nat /\ k \in Nat
  BY Frames
<1>3. /\ DOMAIN q.got = 1 .. Len(r.got) + 1 /\ DOMAIN r.got = 1 .. Len(r.got)
      /\ Len(r.got) \in Nat
      /\ q.got[Len(r.got) + 1] = k
      /\ \A i \in 1 .. Len(r.got) : q.got[i] = r.got[i]
  BY <1>0, <1>2
<1>4. \A i \in 1 .. Len(r.got) : /\ r.got[i] \in DOMAIN s
                                /\ r.start <= From(s, r.got[i])
                                /\ To(s, r.got[i]) <= r.at
  BY <1>3 DEF Tracked, Decoded
<1>5. \A i \in 1 .. Len(r.got) : To(s, r.got[i]) <= To(s, k) /\ r.got[i] < k
  <2> TAKE i \in 1 .. Len(r.got)
  <2> DEFINE g == r.got[i]
  <2>1. g \in DOMAIN s /\ To(s, g) <= From(s, k)
    BY <1>4
  <2> HIDE DEF g
  <2>2. To(s, g) \in Nat /\ g \in Nat
    BY <2>1, FrameNumbers, Zenon
  <2>3. k <= g => To(s, k) <= To(s, g)
    BY <2>1, FramePairs, Zenon
  <2>4. To(s, g) <= To(s, k) /\ g < k
    BY ONLY <2>1, <2>2, <2>3, <1>2
  <2> QED
    BY <2>4 DEF g
<1>6. Decoded(q, s)
  <2>1. \A i \in DOMAIN q.got : /\ q.got[i] \in DOMAIN s
                               /\ q.start <= From(s, q.got[i])
                               /\ To(s, q.got[i]) <= q.at
    <3> TAKE i \in DOMAIN q.got
    <3>1. CASE i = Len(r.got) + 1
      BY <3>1, <1>0, <1>2, <1>3
    <3>2. CASE i \in 1 .. Len(r.got)
      BY <3>2, <1>3, <1>4, <1>5
    <3> QED
      BY ONLY <3>1, <3>2, <1>3, i \in DOMAIN q.got
  <2>2. ASSUME NEW i \in DOMAIN q.got, NEW j \in DOMAIN q.got, i < j
        PROVE  q.got[i] < q.got[j]
    <3>1. i \in 1 .. Len(r.got)
      BY ONLY <2>2, <1>3
    <3>2. CASE j = Len(r.got) + 1
      BY <3>1, <3>2, <1>3, <1>5
    <3>3. CASE j \in 1 .. Len(r.got)
      BY <2>2, <3>1, <3>3, <1>3 DEF Tracked, Decoded
    <3> QED
      BY ONLY <3>2, <3>3, <1>3, j \in DOMAIN q.got
  <2> QED
    BY <2>1, <2>2 DEF Decoded
<1>7. k \in ToSet(q.got) /\ \A i \in ToSet(r.got) : i \in ToSet(q.got)
  BY <1>3 DEF ToSet
<1>8. ASSUME NEW j \in InStep(r, s), NEW i \in j .. k PROVE i \in ToSet(q.got)
  <2>0. j \in DOMAIN s /\ j \in Nat /\ From(s, j) \in Nat
    BY Frames DEF InStep
  <2>1. CASE Searching(r, s)
    <3>1. From(s, k) <= From(s, j)
      BY <2>1 DEF Searching
    <3>2. k <= j
      BY <3>1, <2>0, FramePairs
    <3>3. i = k
      BY ONLY <3>2, <2>0, <1>2, i \in j .. k
    <3> QED
      BY <3>3, <1>7
  <2>2. CASE \E n \in DOMAIN s : Following(r, s, n)
    <3>1. PICK n \in DOMAIN s : Following(r, s, n)
      BY <2>2
    <3>2. From(s, k) = To(s, n) /\ n \in Nat
      <4>1. r.at = To(s, n)
        BY ONLY <3>1, Zenon DEF Following
      <4>2. n \in Nat
        BY FrameNumbers, Zenon
      <4> QED
        BY ONLY <4>1, <4>2, From(s, k) = r.at
    <3>3. n # Len(s)
      <4> SUFFICES ASSUME n = Len(s) PROVE FALSE
        OBVIOUS
      <4>1. To(s, n) = Size(s)
        BY Frames
      <4> QED
        BY ONLY <4>1, <3>2, <1>2
    <3>4. n + 1 \in DOMAIN s /\ From(s, n + 1) = From(s, k)
      BY <3>2, <3>3, Frames
    <3>5. From(s, n + 1) <= From(s, k) /\ From(s, k) <= From(s, n + 1)
      BY ONLY <3>4, <1>2
    <3>6. n + 1 <= k /\ k <= n + 1
      BY <3>4, <3>5, FramePairs
    <3>7. i = k \/ i \in j .. n
      BY ONLY <3>6, <3>2, <2>0, <1>2, i \in j .. k
    <3> QED
      BY <3>1, <3>7, <1>7 DEF Following
  <2> QED
    BY <2>1, <2>2 DEF Tracked, Synced
<1>9. Following(q, s, k)
  BY <1>1, <1>8 DEF Following
<1>10. Within(q)
  BY <1>0, <1>2 DEF Within
<1> QED
  BY <1>6, <1>9, <1>10 DEF Tracked, Synced

\* The frames a decoder has missed when it can go no further.
LEMMA TrackedFinds ==
    ASSUME NEW s \in Seq(Lengths), NEW r, Tracked(r, s),
           NEW j \in InStep(r, s), NEW k \in DOMAIN s, j <= k,
           To(s, k) <= r.start + r.len,
           \A n \in At(s, r.at) : ~(To(s, n) <= r.start + r.len),
           At(s, r.at) = {} => ~(r.at + 4 <= r.start + r.len)
    PROVE  k \in ToSet(r.got)
<1>0. /\ r.start \in Nat /\ r.at \in Nat /\ r.len \in Nat /\ r.start <= r.at
  BY DEF Tracked, Record, Within
<1>1. /\ From(s, k) \in Nat /\ To(s, k) \in Nat /\ k \in Nat
      /\ j \in DOMAIN s /\ j \in Nat /\ From(s, j) \in Nat /\ To(s, j) \in Nat
      /\ From(s, j) + 4 <= To(s, j)
  BY Frames DEF InStep
<1>2. To(s, j) <= To(s, k)
  BY <1>1, FramePairs
<1>3. CASE Searching(r, s)
  <2>1. r.at <= From(s, j)
    BY <1>3 DEF Searching
  <2>2. CASE At(s, r.at) = {}
    <3>1. r.at # From(s, j)
      BY <2>2, <1>1 DEF At
    <3>2. (From(s, j) - r.start) % 4 = 0 /\ (r.at - r.start) % 4 = 0
      BY <1>3 DEF InStep, Searching
    <3>3. r.at + 4 <= From(s, j)
      BY ONLY <3>1, <3>2, <2>1, <1>0, <1>1, Parity
    <3>4. ~(r.at + 4 <= r.start + r.len)
      BY <2>2
    <3> QED
      BY ONLY <3>3, <3>4, <1>0, <1>1, <1>2, To(s, k) <= r.start + r.len
  <2>3. CASE At(s, r.at) # {}
    <3>1. PICK n \in At(s, r.at) : TRUE
      BY <2>3
    <3>2. n \in DOMAIN s /\ From(s, n) = r.at
      BY DEF At
    <3>3. n <= j
      BY <3>2, <2>1, <1>1, FramePairs
    <3>4. To(s, n) <= To(s, j) /\ To(s, n) \in Nat
      BY <3>2, <3>3, <1>1, FramePairs, Frames
    <3>5. ~(To(s, n) <= r.start + r.len)
      BY <3>1
    <3> QED
      BY ONLY <3>4, <3>5, <1>0, <1>1, <1>2, To(s, k) <= r.start + r.len
  <2> QED
    BY <2>2, <2>3
<1>4. CASE \E n \in DOMAIN s : Following(r, s, n)
  <2>1. PICK n \in DOMAIN s : Following(r, s, n)
    BY <1>4
  <2>2. n \in Nat /\ Len(s) \in Nat /\ n <= Len(s) /\ k <= Len(s)
    BY Frames
  <2>3. CASE k <= n
    BY <2>1, <2>2, <2>3, <1>1 DEF Following
  <2>4. CASE n < k
    <3>1. n + 1 \in DOMAIN s /\ From(s, n + 1) = To(s, n)
      BY <2>2, <2>4, <1>1, Frames
    <3>2. n + 1 \in At(s, r.at)
      BY <2>1, <3>1 DEF Following, At
    <3>3. n + 1 <= k
      BY ONLY <2>2, <2>4, <1>1
    <3>4. To(s, n + 1) <= To(s, k) /\ To(s, n + 1) \in Nat
      BY <3>1, <3>3, FramePairs, Frames
    <3>5. ~(To(s, n + 1) <= r.start + r.len)
      BY <3>2
    <3> QED
      BY ONLY <3>4, <3>5, <1>0, <1>1, To(s, k) <= r.start + r.len
  <2> QED
    BY ONLY <2>2, <2>3, <2>4, <1>1
<1> QED
  BY <1>3, <1>4 DEF Tracked, Synced

-----------------------------------------------------------------------------
(* All connections. *)

\* Where the data of a connection ends.
Limit(r) == r.start + r.len

\* Every connection has a part of the stream of its own, in the order they were
\* made, of what was given to the proxy so far.
Parts ==
    /\ conns \in Seq(Record)
    /\ \A c \in DOMAIN conns : Tracked(conns[c], stream) /\ Limit(conns[c]) <= written
    /\ \A b, c \in DOMAIN conns : b < c => Limit(conns[b]) <= conns[c].start

Moved ==
    /\ stream \in Streams
    /\ written \in Nat /\ pos \in Nat
    /\ written <= pos /\ pos <= Size(stream)
    /\ cur = Len(conns)

Apart == Moved /\ Parts

\* The places of frames in the stream, by the sums of their lengths.
LEMMA StreamFrames ==
    ASSUME stream \in Streams
    PROVE  /\ stream \in Seq(Lengths)
           /\ \A k : Begin(k) = From(stream, k) /\ End(k) = To(stream, k)
           /\ Total = Size(stream)
           /\ \A p : FrameAt(p) = At(stream, p)
<1>1. stream \in Seq(Lengths)
  BY CascadeAssumption DEF Lengths
<1>2. \A k : Begin(k) = From(stream, k)
  BY Zenon DEF Begin, From, Sum
<1>3. \A k : End(k) = To(stream, k)
  BY <1>2 DEF End, To
<1>4. Total = Size(stream)
  BY <1>2 DEF Total, Size
<1>5. \A p : FrameAt(p) = At(stream, p)
  BY <1>2 DEF FrameAt, At
<1> QED
  BY <1>1, <1>2, <1>3, <1>4, <1>5

\* One connection changes and keeps to its part, or it is the last one and what
\* it gets was given to the proxy.
LEMMA PartChanges ==
    ASSUME Moved, Parts, NEW c \in DOMAIN conns, NEW r, Tracked(r, stream),
           r.start = conns[c].start,
           stream' = stream, written' \in Nat, written <= written',
           \/ Limit(r) <= Limit(conns[c])
           \/ c = Len(conns) /\ Limit(r) <= written',
           conns' = [conns EXCEPT ![c] = r]
    PROVE  Parts' /\ Len(conns') = Len(conns)
<1>1. r \in Record
  BY DEF Tracked
<1>2. /\ conns' \in Seq(Record) /\ Len(conns') = Len(conns) /\ DOMAIN conns' = DOMAIN conns
      /\ DOMAIN conns = 1 .. Len(conns) /\ Len(conns) \in Nat
      /\ conns'[c] = r /\ \A b \in DOMAIN conns : b # c => conns'[b] = conns[b]
  BY <1>1 DEF Parts
<1>3. \A b \in DOMAIN conns : /\ conns[b].start \in Nat /\ Limit(conns[b]) \in Nat
                             /\ conns'[b].start = conns[b].start
                             /\ Limit(conns'[b]) \in Nat
  <2> TAKE b \in DOMAIN conns
  <2>1. conns[b] \in Record
    BY DEF Parts, Tracked
  <2>2. conns'[b] \in Record /\ conns'[b].start = conns[b].start
    BY <1>1, <1>2, <2>1
  <2> QED
    BY ONLY <2>1, <2>2 DEF Record, Limit
<1>4. \A b \in DOMAIN conns' : Tracked(conns'[b], stream') /\ Limit(conns'[b]) <= written'
  <2> TAKE b \in DOMAIN conns'
  <2>1. CASE b = c
    <3>1. Limit(conns[c]) <= written
      BY DEF Parts
    <3>2. Limit(r) <= written'
      <4>1. Limit(r) \in Nat /\ Limit(conns[c]) \in Nat /\ written \in Nat
        BY <1>2, <1>3 DEF Moved
      <4> QED
        BY <4>1, <3>1
    <3> QED
      BY <2>1, <3>2, <1>2
  <2>2. CASE b # c
    <3>1. b \in DOMAIN conns /\ conns'[b] = conns[b] /\ Limit(conns[b]) \in Nat
      BY <2>2, <1>2, <1>3
    <3>2. Tracked(conns[b], stream) /\ Limit(conns[b]) <= written /\ written \in Nat
      BY <3>1 DEF Parts, Moved
    <3> QED
      BY <3>1, <3>2
  <2> QED
    BY <2>1, <2>2
<1>5. ASSUME NEW a \in DOMAIN conns', NEW b \in DOMAIN conns', a < b
      PROVE  Limit(conns'[a]) <= conns'[b].start
  <2>1. /\ a \in DOMAIN conns /\ b \in DOMAIN conns /\ conns'[b].start = conns[b].start
        /\ Limit(conns[a]) \in Nat /\ Limit(conns'[a]) \in Nat /\ conns[b].start \in Nat
    BY <1>2, <1>3
  <2>2. Limit(conns[a]) <= conns[b].start
    BY <2>1, <1>5 DEF Parts
  <2>3. a # Len(conns)
    BY ONLY <2>1, <1>2, <1>5
  <2>4. Limit(conns'[a]) <= Limit(conns[a])
    BY <2>1, <2>3, <1>2
  <2> QED
    BY ONLY <2>1, <2>2, <2>4
<1> QED
  BY <1>2, <1>4, <1>5 DEF Parts

\* At first nothing was read and nothing sent.
LEMMA InitApart == Init => Apart
<1> SUFFICES ASSUME Init PROVE Apart
  OBVIOUS
<1>1. stream \in Streams /\ pos = 0 /\ written = 0 /\ conns = <<>> /\ cur = 0
  BY DEF Init
<1>2. Size(stream) \in Nat
  BY <1>1, StreamFrames, Frames
<1>3. conns \in Seq(Record) /\ DOMAIN conns = {} /\ Len(conns) = 0
  BY <1>1
<1> QED
  BY <1>1, <1>2, <1>3 DEF Apart, Moved, Parts

\* A connection after the second hadock read from it.
LEMMA ReadRecord ==
    ASSUME NEW o \in Record, NEW x \in Nat, NEW g \in Seq(Nat)
    PROVE  [o EXCEPT !.at = x, !.got = g] \in Record
BY DEF Record

\* Every step keeps the connections on parts of the stream that follow each other.
LEMMA NextApart == Tended /\ Apart /\ [Next]_vars => Apart'
<1> SUFFICES ASSUME Tended, Apart, [Next]_vars PROVE Apart'
  OBVIOUS
<1> USE DEF Apart
<1>s. /\ stream \in Seq(Lengths) /\ Size(stream) \in Nat /\ stream \in Streams
      /\ Total = Size(stream) /\ \A k : End(k) = To(stream, k)
      /\ \A p : FrameAt(p) = At(stream, p)
  BY StreamFrames, Frames DEF Moved
<1>t. /\ written \in Nat /\ pos \in Nat /\ written <= pos /\ pos <= Size(stream)
      /\ cur = Len(conns) /\ conns \in Seq(Record)
      /\ DOMAIN conns = 1 .. Len(conns) /\ Len(conns) \in Nat
  BY DEF Moved, Parts
<1>o. writer = "conn" \/ writer = "discard" => cur \in DOMAIN conns
  BY <1>t DEF Tended, Placed, OneDials
<1>c. ASSUME NEW c \in DOMAIN conns
      PROVE  /\ conns[c] \in Record /\ Tracked(conns[c], stream)
             /\ conns[c].start \in Nat /\ conns[c].len \in Nat /\ conns[c].at \in Nat
             /\ conns[c].got \in Seq(Nat)
             /\ conns[c].at <= conns[c].start + conns[c].len
             /\ conns[c].start + conns[c].len <= written
  BY DEF Parts, Tracked, Record, Within, Limit
\* The steps that leave the connections alone.
<1>q. ASSUME UNCHANGED <<stream, conns, cur>>, written' \in Nat, pos' \in Nat,
             written <= written', written' <= pos', pos' <= Size(stream)
      PROVE  Apart'
  <2>1. Moved'
    BY <1>q, <1>s, <1>t DEF Moved
  <2>2. ASSUME NEW c \in DOMAIN conns PROVE Limit(conns[c]) <= written'
    <3>1. Limit(conns[c]) <= written /\ Limit(conns[c]) \in Nat
      BY <1>c DEF Limit
    <3> QED
      BY ONLY <3>1, <1>t, <1>q
  <2>3. Parts'
    BY <2>2, <1>q DEF Parts
  <2> QED
    BY <2>1, <2>3
\* A connection changes and the positions in the stream are kept or move on.
<1>r. ASSUME NEW c \in DOMAIN conns, NEW r, Tracked(r, stream), r.start = conns[c].start,
             stream' = stream, cur' = cur, pos' = pos, written' = written \/ written' = pos,
             \/ Limit(r) <= Limit(conns[c])
             \/ c = Len(conns) /\ Limit(r) <= written',
             conns' = [conns EXCEPT ![c] = r]
      PROVE  Apart'
  <2>1. written' \in Nat /\ written <= written' /\ written' <= pos'
    BY ONLY <1>r, <1>t
  <2>2. Parts' /\ Len(conns') = Len(conns)
    BY <2>1, <1>r, PartChanges
  <2> QED
    BY <2>1, <2>2, <1>r, <1>s, <1>t DEF Moved
<1>1. CASE Proxy
  <2>1. CASE up
    <3>1. conns' = <<Connection(0)>> /\ cur' = 1 /\ UNCHANGED <<stream, pos, written>>
      BY <1>1, <2>1 DEF Proxy
    <3>2. Tracked(Connection(0), stream) /\ Connection(0) \in Record
          /\ Connection(0).start = 0 /\ Connection(0).len = 0
      BY NewTracked, <1>s DEF Tracked, Connection
    <3>3. conns' \in Seq(Record) /\ Len(conns') = 1 /\ DOMAIN conns' = {1}
          /\ conns'[1] = Connection(0)
      BY <3>1, <3>2
    <3>4. Parts'
      BY <3>1, <3>2, <3>3, <1>t DEF Parts, Limit
    <3> QED
      BY <3>1, <3>3, <3>4, <1>s, <1>t DEF Moved
  <2>2. CASE ~up
    BY <1>1, <2>2, <1>q, <1>t DEF Proxy
  <2> QED
    BY <2>1, <2>2
<1>2. ASSUME NEW n \in Reads, Read(n) PROVE Apart'
  <2>1. pos' = Min({pos + n, Size(stream)}) /\ UNCHANGED <<stream, conns, cur>>
        /\ (written' = pos' \/ written' = written)
    BY <1>2, <1>s DEF Read
  <2>2. n \in Nat /\ pos + n \in Nat /\ pos <= pos + n
    BY <1>t, CascadeAssumption
  <2>3. pos' \in {pos + n, Size(stream)} /\ pos' <= Size(stream) /\ pos <= pos'
    <3>1. \E x \in {pos + n, Size(stream)} : \A y \in {pos + n, Size(stream)} : x <= y
      BY <2>2, <1>s
    <3>2. pos' \in {pos + n, Size(stream)} /\ \A y \in {pos + n, Size(stream)} : pos' <= y
      BY <3>1, <2>1 DEF Min
    <3> QED
      BY <3>2, <2>2, <1>t
  <2>4. pos' \in Nat
    BY <2>2, <2>3, <1>s
  <2>5. written' \in Nat /\ written <= written' /\ written' <= pos'
    BY ONLY <2>1, <2>3, <2>4, <1>t
  <2> QED
    BY <2>1, <2>3, <2>4, <2>5, <1>q
<1>3. CASE WriteConn
  <2> DEFINE m == IF conns[cur].alive THEN conns[cur].len + (pos - written) ELSE conns[cur].len
             r == [conns[cur] EXCEPT !.len = m]
  <2>1. cur \in DOMAIN conns
    BY <1>3, <1>o DEF WriteConn
  <2>2. conns' = [conns EXCEPT ![cur] = r] /\ written' = pos
        /\ UNCHANGED <<stream, pos, cur>>
    BY <1>3 DEF WriteConn
  <2>3. m \in Nat /\ conns[cur].len <= m /\ conns[cur].start + m <= pos
    BY <2>1, <1>c, <1>t
  <2>4. /\ r \in Record /\ r.start = conns[cur].start /\ r.at = conns[cur].at
        /\ r.got = conns[cur].got /\ r.len = m
    <3> HIDE DEF m
    <3> QED
      BY <2>1, <2>3, <1>c DEF Record
  <2> HIDE DEF r, m
  <2>5. r.at <= r.start + r.len
    <3>1. conns[cur].start \in Nat /\ conns[cur].len \in Nat /\ conns[cur].at \in Nat
          /\ conns[cur].at <= conns[cur].start + conns[cur].len
      BY <2>1, <1>c
    <3> QED
      BY <3>1, <2>3, <2>4
  <2>6. Tracked(r, stream)
    BY <2>1, <2>4, <2>5, <1>c, <1>s, OtherTracked
  <2>7. Limit(r) <= written' /\ cur = Len(conns)
    BY <2>2, <2>3, <2>4, <1>t DEF Limit
  <2> QED
    BY <2>1, <2>2, <2>4, <2>6, <2>7, <1>r
<1>4. CASE WriteFails
  <2>1. UNCHANGED <<stream, conns, cur, pos>> /\ written' = pos
    BY <1>4 DEF WriteFails, Failed
  <2>2. written' \in Nat /\ pos' \in Nat /\ written <= written' /\ written' <= pos'
        /\ pos' <= Size(stream)
    BY ONLY <2>1, <1>t, <1>s
  <2> QED
    BY <2>1, <2>2, <1>q
<1>5. CASE WriteBreaks
  <2>1. cur \in DOMAIN conns
    BY <1>5, <1>o DEF WriteBreaks
  <2>2. PICK n \in 0 .. pos - written :
          conns' = [conns EXCEPT ![cur].len = @ + n, ![cur].alive = FALSE]
    BY <1>5 DEF WriteBreaks
  <2> DEFINE m == conns[cur].len + n
             r == [conns[cur] EXCEPT !.len = m, !.alive = FALSE]
  <2>3. conns' = [conns EXCEPT ![cur] = r] /\ written' = pos /\ UNCHANGED <<stream, pos, cur>>
    BY <2>1, <2>2, <1>5 DEF WriteBreaks, Failed
  <2>4. m \in Nat /\ conns[cur].len <= m /\ conns[cur].start + m <= pos
    BY <2>1, <1>c, <1>t
  <2>5. /\ r \in Record /\ r.start = conns[cur].start /\ r.at = conns[cur].at
        /\ r.got = conns[cur].got /\ r.len = m
    <3> HIDE DEF m
    <3> QED
      BY <2>1, <2>4, <1>c DEF Record
  <2> HIDE DEF r, m
  <2>6. r.at <= r.start + r.len
    <3>1. conns[cur].start \in Nat /\ conns[cur].len \in Nat /\ conns[cur].at \in Nat
          /\ conns[cur].at <= conns[cur].start + conns[cur].len
      BY <2>1, <1>c
    <3> QED
      BY <3>1, <2>4, <2>5
  <2>7. Tracked(r, stream)
    BY <2>1, <2>5, <2>6, <1>c, <1>s, OtherTracked
  <2>8. Limit(r) <= written' /\ cur = Len(conns)
    BY <2>3, <2>4, <2>5, <1>t DEF Limit
  <2> QED
    BY <2>1, <2>3, <2>5, <2>7, <2>8, <1>r
<1>6. CASE WriteDiscard
  <2>1. UNCHANGED <<stream, conns, cur, pos>> /\ written' = pos
    BY <1>6 DEF WriteDiscard
  <2>2. written' \in Nat /\ pos' \in Nat /\ written <= written' /\ written' <= pos'
        /\ pos' <= Size(stream)
    BY ONLY <2>1, <1>t, <1>s
  <2> QED
    BY <2>1, <2>2, <1>q
<1>7. CASE ReadEnd \/ RemoteChanges \/ UNCHANGED vars
  <2>1. UNCHANGED <<stream, conns, cur, pos, written>>
    BY <1>7 DEF ReadEnd, RemoteChanges, vars
  <2> QED
    BY <2>1, <1>q, <1>s, <1>t
\* The steps that close a connection.
<1>8. ASSUME NEW c \in DOMAIN conns, UNCHANGED <<stream, pos, written, cur>>,
             conns' = [conns EXCEPT ![c].open = FALSE]
      PROVE  Apart'
  <2> DEFINE r == [conns[c] EXCEPT !.open = FALSE]
  <2>1. conns' = [conns EXCEPT ![c] = r]
    BY <1>8
  <2>2. /\ r \in Record /\ r.start = conns[c].start /\ r.at = conns[c].at
        /\ r.got = conns[c].got /\ r.len = conns[c].len
    BY <1>c DEF Record
  <2> HIDE DEF r
  <2>3. Tracked(r, stream)
    BY <2>2, <1>c, <1>s, OtherTracked
  <2>4. Limit(r) <= Limit(conns[c])
    BY <2>2, <1>c DEF Limit
  <2> QED
    BY <2>1, <2>2, <2>3, <2>4, <1>8, <1>r
<1>9. CASE HandlerClose
  <2>1. UNCHANGED <<stream, pos, written, cur>>
    BY <1>9 DEF HandlerClose
  <2>2. CASE cur = 0
    BY <2>1, <2>2, <1>9, <1>q, <1>s, <1>t DEF HandlerClose
  <2>3. CASE cur # 0
    <3>1. cur \in DOMAIN conns
      BY <2>3, <1>t
    <3>2. conns' = [conns EXCEPT ![cur].open = FALSE]
      BY <2>3, <1>9 DEF HandlerClose
    <3> QED
      BY <2>1, <3>1, <3>2, <1>8
  <2> QED
    BY <2>2, <2>3
<1>10. CASE \E c \in closing : CloseOld(c)
  <2>1. PICK c \in closing : CloseOld(c)
    BY <1>10
  <2>2. c \in DOMAIN conns
    BY <1>t DEF Tended, Placed
  <2>3. UNCHANGED <<stream, pos, written, cur>>
        /\ conns' = [conns EXCEPT ![c].open = FALSE]
    BY <2>1 DEF CloseOld
  <2> QED
    BY <2>2, <2>3, <1>8
<1>11. CASE Redial
  <2> DEFINE e == Connection(written)
             n == Len(conns) + 1
  <2>1. conns' = Append(conns, e) /\ cur' = Len(conns') /\ UNCHANGED <<stream, pos, written>>
    BY <1>11 DEF Redial
  <2>2. Tracked(e, stream) /\ e \in Record /\ e.start = written /\ e.len = 0
    BY NewTracked, <1>s, <1>t DEF Tracked, Connection
  <2> HIDE DEF e
  <2>3. /\ conns' \in Seq(Record) /\ Len(conns') = n /\ DOMAIN conns' = 1 .. n
        /\ conns'[n] = e /\ \A b \in 1 .. Len(conns) : conns'[b] = conns[b]
    BY <2>1, <2>2, <1>t
  <2>4. ASSUME NEW c \in DOMAIN conns'
        PROVE  Tracked(conns'[c], stream') /\ Limit(conns'[c]) <= written'
    <3>1. CASE c = n
      BY <3>1, <2>1, <2>2, <2>3, <1>t DEF Limit
    <3>2. CASE c \in DOMAIN conns
      BY <3>2, <2>1, <2>3, <1>c, <1>t DEF Limit
    <3> QED
      BY ONLY <3>1, <3>2, <2>3, <2>4, <1>t
  <2>5. ASSUME NEW b \in DOMAIN conns', NEW c \in DOMAIN conns', b < c
        PROVE  Limit(conns'[b]) <= conns'[c].start
    <3>1. b \in DOMAIN conns /\ conns'[b] = conns[b]
      BY <2>3, <2>5, <1>t
    <3>2. CASE c = n
      BY <3>1, <3>2, <2>2, <2>3, <1>c DEF Limit
    <3>3. CASE c \in DOMAIN conns
      BY <3>1, <3>3, <2>3, <2>5, <1>t DEF Parts
    <3> QED
      BY ONLY <3>2, <3>3, <2>3, <2>5, <1>t
  <2>6. Parts'
    BY <2>3, <2>4, <2>5 DEF Parts
  <2> QED
    BY <2>1, <2>6, <1>s, <1>t DEF Moved
<1>12. ASSUME NEW c \in DOMAIN conns, RemoteRead(c) PROVE Apart'
  <2> DEFINE o == conns[c]
             r == [o EXCEPT !.at = After(@), !.got = @ \o SetToSeq(FrameAt(o.at))]
  <2>1. conns' = [conns EXCEPT ![c] = r] /\ UNCHANGED <<stream, pos, written, cur>>
        /\ After(o.at) <= o.start + o.len
    BY <1>12 DEF RemoteRead, Arrived
  <2>2. /\ o \in Record /\ Tracked(o, stream) /\ o.got \in Seq(Nat) /\ o.at \in Nat
        /\ o.start \in Nat /\ o.len \in Nat /\ o.start + o.len <= written
    BY <1>c
  <2> HIDE DEF o
  <2>3. r.start = o.start /\ r.len = o.len /\ r.at = After(o.at)
        /\ r.got = o.got \o SetToSeq(FrameAt(o.at))
    BY <2>2 DEF Record
  <2>4. CASE FrameAt(o.at) = {}
    <3>1. After(o.at) = o.at + 4 /\ o.got \o SetToSeq(FrameAt(o.at)) = o.got
      BY <2>2, <2>4, NoFrameFound DEF After, Skipped
    <3>2. r \in Record
      <4>1. After(o.at) \in Nat /\ o.got \o SetToSeq(FrameAt(o.at)) \in Seq(Nat)
        BY <2>2, <3>1
      <4> QED
        BY <2>2, <4>1, ReadRecord
    <3> HIDE DEF r
    <3>3. o.start + o.len <= Size(stream)
      BY ONLY <2>2, <1>t, <1>s
    <3>4. Tracked(r, stream)
      BY <2>1, <2>2, <2>3, <2>4, <3>1, <3>2, <3>3, <1>s, SkipTracked
    <3>5. Limit(r) <= Limit(o)
      BY <2>2, <2>3 DEF Limit
    <3> QED
      BY <2>1, <2>3, <3>4, <3>5, <1>r DEF o
  <2>5. CASE FrameAt(o.at) # {}
    <3>1. PICK k \in At(stream, o.at) : TRUE
      BY <2>5, <1>s
    <3>2. At(stream, o.at) = {k} /\ (CHOOSE j \in At(stream, o.at) : TRUE) = k
          /\ SetToSeq(At(stream, o.at)) = <<k>>
      BY <1>s, FrameFound
    <3>3. k \in DOMAIN stream /\ From(stream, k) = o.at
      BY DEF At
    <3>4. To(stream, k) \in Nat /\ k \in Nat
      BY <3>3, <1>s, Frames
    <3>5. After(o.at) = To(stream, k)
      <4>1. FrameAt(o.at) = At(stream, o.at)
        BY <1>s
      <4> QED
        BY <4>1, <3>2, <2>5, <1>s DEF After
    <3>6. o.got \o SetToSeq(FrameAt(o.at)) = Append(o.got, k)
      <4>1. SetToSeq(FrameAt(o.at)) = <<k>>
        BY <3>2, <1>s
      <4> QED
        BY <4>1, <3>4, <2>2, AppendIsConcat
    <3>7. r \in Record
      <4>1. After(o.at) \in Nat /\ o.got \o SetToSeq(FrameAt(o.at)) \in Seq(Nat)
        BY <2>2, <3>4, <3>5, <3>6
      <4> QED
        BY <2>2, <4>1, ReadRecord
    <3> HIDE DEF r
    <3>8. Tracked(r, stream)
      BY <2>1, <2>2, <2>3, <3>3, <3>5, <3>6, <3>7, <1>s, FrameTracked
    <3>9. Limit(r) <= Limit(o)
      BY <2>2, <2>3 DEF Limit
    <3> QED
      BY <2>1, <2>3, <3>8, <3>9, <1>r DEF o
  <2> QED
    BY <2>4, <2>5
<1>13. ASSUME NEW c \in DOMAIN conns, Break(c) PROVE Apart'
  <2>1. PICK n \in 0 .. conns[c].len :
          /\ conns[c].at <= conns[c].start + n
          /\ conns' = [conns EXCEPT ![c].len = n, ![c].alive = FALSE]
    BY <1>13 DEF Break
  <2> DEFINE r == [conns[c] EXCEPT !.len = n, !.alive = FALSE]
  <2>2. conns' = [conns EXCEPT ![c] = r] /\ UNCHANGED <<stream, pos, written, cur>>
    BY <2>1, <1>13 DEF Break
  <2>3. n \in Nat /\ n <= conns[c].len
    BY <1>c
  <2>4. /\ r \in Record /\ r.start = conns[c].start /\ r.at = conns[c].at
        /\ r.got = conns[c].got /\ r.len = n
    BY <2>3, <1>c DEF Record
  <2> HIDE DEF r
  <2>5. Tracked(r, stream)
    BY <2>1, <2>4, <1>c, <1>s, OtherTracked
  <2>6. Limit(r) <= Limit(conns[c])
    BY <2>3, <2>4, <1>c DEF Limit
  <2> QED
    BY <2>2, <2>4, <2>5, <2>6, <1>r
<1> QED
  BY <1>1, <1>2, <1>3, <1>4, <1>5, <1>6, <1>7, <1>9, <1>10, <1>11, <1>12, <1>13
     DEF Next, LocalStep, ReconnectStep, RemoteStep

-----------------------------------------------------------------------------
\* A frame a connection has decoded lies within its part of the stream.
LEMMA GotWithin ==
    ASSUME Apart, NEW c \in DOMAIN conns, NEW i \in DOMAIN conns[c].got
    PROVE  LET k == conns[c].got[i]
           IN  /\ k \in DOMAIN stream /\ conns[c].start <= From(stream, k)
               /\ To(stream, k) <= Limit(conns[c])
               /\ k \in Nat /\ From(stream, k) \in Nat /\ To(stream, k) \in Nat
               /\ From(stream, k) + 4 <= To(stream, k)
               /\ conns[c].start \in Nat /\ Limit(conns[c]) \in Nat
<1> DEFINE k == conns[c].got[i]
<1>1. stream \in Seq(Lengths)
  BY StreamFrames DEF Apart, Moved
<1>2. conns[c] \in Record /\ Decoded(conns[c], stream) /\ Within(conns[c])
  BY DEF Apart, Parts, Tracked
<1>3. /\ k \in DOMAIN stream /\ conns[c].start <= From(stream, k) /\ To(stream, k) <= conns[c].at
  BY <1>2 DEF Decoded
<1> HIDE DEF k
<1>4. /\ k \in Nat /\ From(stream, k) \in Nat /\ To(stream, k) \in Nat
      /\ From(stream, k) + 4 <= To(stream, k)
  BY <1>1, <1>3, Frames, FrameNumbers
<1>5. /\ conns[c].start \in Nat /\ conns[c].at \in Nat /\ Limit(conns[c]) \in Nat
      /\ conns[c].at <= Limit(conns[c])
  BY <1>2 DEF Record, Within, Limit
<1>6. To(stream, k) <= Limit(conns[c])
  BY ONLY <1>3, <1>4, <1>5
<1> QED
  BY <1>3, <1>4, <1>5, <1>6 DEF k

\* A connection decodes frames that follow each other, and all of them behind the
\* ones of the connections before it.
LEMMA ApartOrdered == Apart => RemoteOrdered
<1> SUFFICES ASSUME Apart,
                    NEW b \in DOMAIN conns, NEW c \in DOMAIN conns,
                    NEW i \in DOMAIN conns[b].got, NEW j \in DOMAIN conns[c].got,
                    b < c \/ (b = c /\ i < j)
             PROVE  conns[b].got[i] < conns[c].got[j]
  BY DEF RemoteOrdered
<1> DEFINE k == conns[b].got[i]
           m == conns[c].got[j]
<1>0. stream \in Seq(Lengths)
  BY StreamFrames DEF Apart, Moved
<1>1. CASE b < c
  <2>1. /\ k \in DOMAIN stream /\ To(stream, k) <= Limit(conns[b]) /\ k \in Nat
        /\ To(stream, k) \in Nat /\ Limit(conns[b]) \in Nat
        /\ From(stream, k) \in Nat /\ From(stream, k) + 4 <= To(stream, k)
    BY GotWithin
  <2>2. /\ m \in DOMAIN stream /\ conns[c].start <= From(stream, m) /\ m \in Nat
        /\ From(stream, m) \in Nat /\ conns[c].start \in Nat
    BY GotWithin
  <2>3. Limit(conns[b]) <= conns[c].start
    BY <1>1 DEF Apart, Parts
  <2> HIDE DEF k, m
  <2>4. From(stream, k) < From(stream, m)
    BY ONLY <2>1, <2>2, <2>3
  <2>5. ASSUME m <= k PROVE FALSE
    <3>1. m = k \/ m < k
      BY ONLY <2>1, <2>2, <2>5
    <3>2. CASE m = k
      BY ONLY <2>1, <2>4, <3>2
    <3>3. CASE m < k
      <4>1. To(stream, m) <= From(stream, k)
        BY <1>0, <2>1, <2>2, <3>3, FramePairs
      <4>2. To(stream, m) \in Nat /\ From(stream, m) <= To(stream, m)
        BY <1>0, <2>2, Frames
      <4> QED
        BY ONLY <2>1, <2>2, <2>4, <4>1, <4>2
    <3> QED
      BY <3>1, <3>2, <3>3
  <2>6. k < m
    BY ONLY <2>1, <2>2, <2>5
  <2> QED
    BY <2>6 DEF k, m
<1>2. CASE b = c /\ i < j
  <2>1. Decoded(conns[b], stream)
    BY DEF Apart, Parts, Tracked
  <2> QED
    BY <1>2, <2>1 DEF Decoded
<1> QED
  BY <1>1, <1>2

\* The invariant implies the second part of RemoteExact.
LEMMA ApartFinds == Apart => RemoteFinds
<1> SUFFICES ASSUME Apart, NEW c \in DOMAIN conns, ~Arrived(c),
                    NEW k \in DOMAIN stream, NEW j \in InStepOf(c), j <= k,
                    End(k) <= conns[c].start + conns[c].len
             PROVE  k \in ToSet(conns[c].got)
  BY DEF RemoteFinds, Due
<1> DEFINE r == conns[c]
<1>1. /\ stream \in Seq(Lengths)
      /\ \A n : Begin(n) = From(stream, n) /\ End(n) = To(stream, n)
      /\ \A p : FrameAt(p) = At(stream, p)
  BY StreamFrames DEF Apart, Moved
<1>2. Tracked(r, stream)
  BY DEF Apart, Parts
<1>3. j \in InStep(r, stream) /\ To(stream, k) <= r.start + r.len
  BY <1>1 DEF InStep, InStepOf
<1>4. ASSUME NEW n \in At(stream, r.at) PROVE ~(To(stream, n) <= r.start + r.len)
  <2>1. (CHOOSE m \in At(stream, r.at) : TRUE) = n /\ At(stream, r.at) # {}
    BY <1>1, FrameFound
  <2>2. After(r.at) = To(stream, n)
    <3>1. FrameAt(r.at) = At(stream, r.at)
      BY <1>1
    <3> QED
      BY <2>1, <3>1, <1>1 DEF After
  <2> QED
    BY <2>2 DEF Arrived
<1>5. At(stream, r.at) = {} => ~(r.at + 4 <= r.start + r.len)
  BY <1>1 DEF Arrived, After, Skipped
<1> HIDE DEF r
<1>6. k \in ToSet(r.got)
  BY <1>1, <1>2, <1>3, <1>4, <1>5, TrackedFinds
<1> QED
  BY <1>6 DEF r

\* The second hadock gets the frames in the order they were sent, each at most
\* once, however often the proxy connects again, and a connection that was made in the middle of a frame is
\* back in step at the first frame that begins at a multiple of four bytes from
\* its start, from where it misses none: proxy.Write, reconnect and the search
\* of readPreamble, for all lengths of frames and of reads.
THEOREM SecondDecodes == Spec => []RemoteExact
<1>1. Init => Tended /\ Apart
  BY InitTended, InitApart
<1>2. Tended /\ Apart /\ [Next]_vars => (Tended /\ Apart)'
  BY NextTended, NextApart
<1>3. Apart => RemoteExact
  BY ApartOrdered, ApartFinds DEF RemoteExact
<1> QED
  BY <1>1, <1>2, <1>3, PTL DEF Spec

-----------------------------------------------------------------------------
(* The frames of a packet. *)

Bytes == Nat \X Nat
FrameSet == [final : BOOLEAN, curr : Nat, payload : Seq(Bytes)]

\* How many frames a packet of a length has.
Count(c, len) == IF c = 0 THEN 1 ELSE Chunks(c, len)

\* Where the i-th chunk ends.
Upto(c, len, i) == IF i * c < len THEN i * c ELSE len

\* Some byte of the frame is of packet k.
Bears(f, k) == \E b \in ToSet(f.payload) : b[1] = k

\* The arithmetic of the numbers of the fragments.
LEMMA ChunkNumbers ==
    ASSUME NEW c \in Nat, NEW len \in Nat, c # 0, len # 0, len \div c < Width, Width \in Nat
    PROVE  /\ Chunks(c, len) \in Nat /\ Chunks(c, len) # 0
           /\ \A i \in 1 .. Chunks(c, len) :
                 /\ (i - 1) % Width = i - 1
                 /\ (i - 1) * c \in Nat /\ (i - 1) * c < len
                 /\ Upto(c, len, i - 1) = (i - 1) * c
                 /\ Upto(c, len, i) \in Nat
                 /\ (i - 1) * c + 1 <= Upto(c, len, i) /\ Upto(c, len, i) <= len
                 /\ (i - 1) % Width = LastNumber(c, len) % Width
                    <=> i = Chunks(c, len) /\ ~Endless(c, len)
           /\ Upto(c, len, Chunks(c, len)) = len /\ Upto(c, len, 0) = 0
<1> DEFINE q == len \div c
           r == len % c
           n == Chunks(c, len)
<1>1. q \in Nat /\ r \in 0 .. c - 1 /\ len = c * q + r
  OBVIOUS
<1>2. n = IF r = 0 THEN q ELSE q + 1
  BY DEF Chunks
<1>3. (Endless(c, len) <=> r = 0) /\ LastNumber(c, len) = q
  BY DEF Endless, LastNumber
<1>4. q < Width /\ q % Width = q
  BY <1>1
<1> HIDE DEF q, r, n
<1>5. n \in Nat /\ n # 0
  BY <1>1, <1>2
<1>6. ASSUME NEW i \in 1 .. n
      PROVE  /\ (i - 1) % Width = i - 1
             /\ (i - 1) * c \in Nat /\ (i - 1) * c < len
             /\ Upto(c, len, i - 1) = (i - 1) * c
             /\ Upto(c, len, i) \in Nat
             /\ (i - 1) * c + 1 <= Upto(c, len, i) /\ Upto(c, len, i) <= len
             /\ (i - 1) % Width = LastNumber(c, len) % Width <=> i = n /\ ~Endless(c, len)
  <2> DEFINE m == i - 1
  <2>1. m \in Nat /\ i = m + 1 /\ m <= q /\ (r = 0 => m < q) /\ m < n
    BY <1>1, <1>2
  <2>2. m < Width /\ m % Width = m
    <3>1. m < Width
      BY <1>1, <1>4, <2>1
    <3> HIDE DEF m
    <3> QED
      BY ONLY <2>1, <3>1, Width \in Nat
  <2> HIDE DEF m
  <2>3. m * c \in Nat /\ m * c < len
    <3>1. m * c \in Nat /\ m * c <= c * q /\ (m < q => m * c < c * q)
      BY ONLY <2>1, <1>1, c \in Nat, c # 0
    <3>2. c * q \in Nat
      BY ONLY <1>1, c \in Nat
    <3> QED
      BY ONLY <1>1, <2>1, <3>1, <3>2, c \in Nat
  <2>4. i * c = m * c + c /\ i * c \in Nat
    BY ONLY <2>1, c \in Nat
  <2>5. /\ Upto(c, len, m) = m * c /\ Upto(c, len, i) \in Nat
        /\ m * c + 1 <= Upto(c, len, i) /\ Upto(c, len, i) <= len
    <3> DEFINE a == m * c
               b == i * c
    <3>1. a \in Nat /\ a < len /\ b \in Nat /\ b = a + c
      BY <2>3, <2>4
    <3>2. Upto(c, len, m) = (IF a < len THEN a ELSE len) /\ Upto(c, len, i) = (IF b < len THEN b ELSE len)
      BY DEF Upto
    <3> HIDE DEF a, b
    <3>3. /\ Upto(c, len, m) = a /\ Upto(c, len, i) \in Nat
          /\ a + 1 <= Upto(c, len, i) /\ Upto(c, len, i) <= len
      BY ONLY <3>1, <3>2, c \in Nat, c # 0, len \in Nat
    <3> QED
      BY <3>3 DEF a
  <2>6. m = q <=> i = n /\ r # 0
    BY ONLY <1>1, <1>2, <2>1
  <2>7. m % Width = LastNumber(c, len) % Width <=> i = n /\ ~Endless(c, len)
    BY ONLY <1>3, <1>4, <2>2, <2>6
  <2> QED
    BY <2>2, <2>3, <2>5, <2>7 DEF m
<1>7. Upto(c, len, n) = len
  <2>1. n * c >= len
    <3>1. CASE r = 0
      BY ONLY <1>1, <1>2, <3>1, c \in Nat
    <3>2. CASE r # 0
      <4>1. n * c = c * q + c
        BY ONLY <1>1, <1>2, <3>2, c \in Nat
      <4>2. c * q \in Nat
        BY ONLY <1>1, c \in Nat
      <4> QED
        BY ONLY <1>1, <4>1, <4>2, c \in Nat
    <3> QED
      BY ONLY <3>1, <3>2
  <2>2. n * c \in Nat
    BY ONLY <1>5, c \in Nat
  <2>3. ~(n * c < len)
    BY ONLY <2>1, <2>2, len \in Nat
  <2> QED
    BY ONLY <2>3 DEF Upto
<1>8. Upto(c, len, 0) = 0
  <2>1. 0 * c = 0 /\ 0 < len
    OBVIOUS
  <2> QED
    BY ONLY <2>1 DEF Upto
<1> QED
  BY <1>5, <1>6, <1>7, <1>8 DEF n

\* Two pieces of a sequence that follow each other.
LEMMA TwoPieces ==
    ASSUME NEW T, NEW P \in Seq(T), NEW a \in Nat, NEW b \in Nat, a < b, b <= Len(P)
    PROVE  /\ SubSeq(P, 1, a) \in Seq(T) /\ SubSeq(P, 1, b) \in Seq(T)
           /\ SubSeq(P, a + 1, b) \in Seq(T)
           /\ SubSeq(P, 1, b) = SubSeq(P, 1, a) \o SubSeq(P, a + 1, b)
           /\ SubSeq(P, a + 1, b) # <<>> /\ \A i \in 1 .. b - a : SubSeq(P, a + 1, b)[i] = P[a + i]
           /\ Len(SubSeq(P, a + 1, b)) = b - a
<1> DEFINE x == SubSeq(P, 1, a)
           y == SubSeq(P, a + 1, b)
           z == SubSeq(P, 1, b)
           u == x \o y
<1>1. Len(P) \in Nat /\ \A i \in 1 .. Len(P) : P[i] \in T
  OBVIOUS
<1>2. x \in Seq(T) /\ Len(x) = a /\ \A i \in 1 .. a : x[i] = P[i]
  BY <1>1
<1>3. y \in Seq(T) /\ Len(y) = b - a /\ \A i \in 1 .. b - a : y[i] = P[a + i]
  BY <1>1
<1>4. z \in Seq(T) /\ Len(z) = b /\ \A i \in 1 .. b : z[i] = P[i]
  BY <1>1
<1> HIDE DEF x, y, z
<1>5. u \in Seq(T) /\ Len(u) = b
  BY <1>2, <1>3
<1>6. \A i \in 1 .. b : u[i] = P[i]
  <2> TAKE i \in 1 .. b
  <2>1. CASE i <= a
    <3>1. i \in 1 .. Len(x) /\ u[i] = x[i]
      BY <1>2, <1>3, <2>1
    <3> QED
      BY <1>2, <3>1
  <2>2. CASE ~(i <= a)
    <3>1. i - a \in 1 .. b - a /\ a + (i - a) = i /\ u[i] = y[i - a]
      BY <1>2, <1>3, <2>2
    <3> QED
      BY <1>3, <3>1
  <2> QED
    BY <2>1, <2>2
<1> HIDE DEF u
<1>7. \A i \in 1 .. Len(u) : u[i] = z[i]
  BY ONLY <1>4, <1>5, <1>6
<1>8. u = z
  BY ONLY <1>4, <1>5, <1>7, SameSeq
<1>9. y # <<>>
  BY <1>3
<1> QED
  BY <1>2, <1>3, <1>4, <1>8, <1>9 DEF u, x, y, z

\* A payload is a sequence of bytes of its packet.
LEMMA PayloadBytes ==
    ASSUME NEW k \in Nat, NEW len \in Nat
    PROVE  /\ Payload(k, len) \in Seq(Bytes) /\ Len(Payload(k, len)) = len
           /\ \A j \in 1 .. len : Payload(k, len)[j] = <<k, j>>
BY DEF Payload, Bytes

\* What the frames of a packet are.
Splits(c, k, len) ==
    /\ Prepared(c, k, len) \in Seq(FrameSet)
    /\ Count(c, len) \in Nat /\ Count(c, len) # 0 /\ Len(Prepared(c, k, len)) = Count(c, len)
    /\ \A i \in 1 .. Count(c, len) :
          /\ Prepared(c, k, len)[i].curr = i - 1
          /\ Prepared(c, k, len)[i].final <=> i = Count(c, len) /\ ~Endless(c, len)
          /\ Bears(Prepared(c, k, len)[i], k)
    /\ Joined(Prepared(c, k, len)) = Payload(k, len)

\* A whole packet is one frame.
LEMMA WholeSplits ==
    ASSUME NEW k \in Nat, NEW len \in Nat, len # 0
    PROVE  Splits(0, k, len)
<1> DEFINE P == Payload(k, len)
           f == [final |-> TRUE, curr |-> 0, payload |-> P]
<1>1. P \in Seq(Bytes) /\ Len(P) = len /\ P[1] = <<k, 1>> /\ 1 \in DOMAIN P
  <2>1. P \in Seq(Bytes) /\ Len(P) = len /\ \A j \in 1 .. len : P[j] = <<k, j>>
    BY PayloadBytes
  <2> HIDE DEF P
  <2>2. 1 \in 1 .. len /\ DOMAIN P = 1 .. len
    BY <2>1
  <2> QED
    BY ONLY <2>1, <2>2
<1>2. Prepared(0, k, len) = <<f>> /\ Count(0, len) = 1 /\ ~Endless(0, len)
  BY DEF Prepared, WholeFrame, Count, Endless
<1> HIDE DEF P
<1>3. Bears(f, k)
  <2>1. P[1] \in ToSet(P) /\ P[1][1] = k
    BY <1>1 DEF ToSet
  <2> QED
    BY ONLY <2>1 DEF Bears
<1>4. f \in FrameSet
  BY <1>1 DEF FrameSet
<1>5. Joined(<<f>>) = P
  <2>1. [i \in DOMAIN <<f>> |-> <<f>>[i].payload] = Append(<<>>, P)
    OBVIOUS
  <2>2. <<>> \in Seq(Seq(Bytes))
    OBVIOUS
  <2>3. FlattenSeq(Append(<<>>, P)) = <<>> \o P
    BY ONLY <1>1, <2>2, FlattenAppend
  <2> QED
    BY <1>1, <2>1, <2>3 DEF Joined
<1>6. f.final = TRUE /\ f.curr = 0
  OBVIOUS
<1> HIDE DEF f
<1>7. <<f>> \in Seq(FrameSet) /\ Len(<<f>>) = 1 /\ <<f>>[1] = f
  BY <1>4
<1> DEFINE F == <<f>>
<1>8. F \in Seq(FrameSet) /\ Len(F) = 1 /\ F[1] = f /\ Joined(F) = P /\ Prepared(0, k, len) = F
  BY ONLY <1>2, <1>5, <1>7
<1> HIDE DEF F
<1>9. \A i \in 1 .. 1 : /\ F[i].curr = i - 1
                        /\ F[i].final <=> i = 1 /\ ~Endless(0, len)
                        /\ Bears(F[i], k)
  <2> TAKE i \in 1 .. 1
  <2>1. i = 1 /\ i - 1 = 0
    OBVIOUS
  <2> QED
    BY ONLY <1>2, <1>3, <1>6, <1>8, <2>1
<1> QED
  BY ONLY <1>2, <1>8, <1>9, 1 \in Nat, 1 # 0 DEF Splits, P

\* The fragments of a packet, one after the other, are its payload.
LEMMA PartsSplit ==
    ASSUME NEW k \in Nat, NEW c \in Nat, NEW len \in Nat, c # 0, len # 0,
           len \div c < Width, Width \in Nat
    PROVE  Splits(c, k, len)
<1> DEFINE P == Payload(k, len)
           n == Chunks(c, len)
           u(i) == Upto(c, len, i)
           F == Fragments(c, k, len)
<1>1. P \in Seq(Bytes) /\ Len(P) = len /\ \A j \in 1 .. len : P[j] = <<k, j>>
  BY PayloadBytes
<1>2. /\ n \in Nat /\ n # 0
      /\ \A i \in 1 .. n :
            /\ (i - 1) % Width = i - 1
            /\ (i - 1) * c \in Nat /\ (i - 1) * c < len
            /\ u(i - 1) = (i - 1) * c
            /\ u(i) \in Nat
            /\ (i - 1) * c + 1 <= u(i) /\ u(i) <= len
            /\ (i - 1) % Width = LastNumber(c, len) % Width <=> i = n /\ ~Endless(c, len)
      /\ u(n) = len /\ u(0) = 0
  BY ChunkNumbers
<1>3. F = [i \in 1 .. n |->
             [final   |-> (i - 1) % Width = LastNumber(c, len) % Width,
              curr    |-> (i - 1) % Width,
              payload |-> SubSeq(P, (i - 1) * c + 1, u(i))]]
  BY DEF Fragments, Upto
<1>4. Prepared(c, k, len) = F /\ Count(c, len) = n
  BY DEF Prepared, Count
<1> HIDE DEF P, n, u, F
<1>5. ASSUME NEW i \in 1 .. n
      PROVE  /\ SubSeq(P, 1, u(i - 1)) \in Seq(Bytes) /\ SubSeq(P, 1, u(i)) \in Seq(Bytes)
             /\ SubSeq(P, 1, u(i)) = SubSeq(P, 1, u(i - 1)) \o SubSeq(P, (i - 1) * c + 1, u(i))
             /\ SubSeq(P, (i - 1) * c + 1, u(i)) \in Seq(Bytes)
             /\ \E b \in ToSet(SubSeq(P, (i - 1) * c + 1, u(i))) : b[1] = k
  <2> DEFINE a == (i - 1) * c
             y == SubSeq(P, a + 1, u(i))
  <2>1. a \in Nat /\ u(i) \in Nat /\ a < u(i) /\ u(i) <= len /\ u(i - 1) = a
    <3>1. a \in Nat /\ u(i) \in Nat /\ a + 1 <= u(i) /\ u(i) <= len /\ u(i - 1) = a
      BY <1>2
    <3> HIDE DEF a
    <3> QED
      BY <3>1
  <2> HIDE DEF a
  <2>2. /\ SubSeq(P, 1, a) \in Seq(Bytes) /\ SubSeq(P, 1, u(i)) \in Seq(Bytes)
        /\ y \in Seq(Bytes) /\ SubSeq(P, 1, u(i)) = SubSeq(P, 1, a) \o y
        /\ \A j \in 1 .. u(i) - a : y[j] = P[a + j]
        /\ Len(y) = u(i) - a
    <3>1. u(i) <= Len(P)
      BY ONLY <1>1, <2>1
    <3> DEFINE b == u(i)
    <3> HIDE DEF b
    <3>2. b \in Nat /\ a < b /\ b <= Len(P)
      BY ONLY <2>1, <3>1 DEF b
    <3>3. /\ SubSeq(P, 1, a) \in Seq(Bytes) /\ SubSeq(P, 1, b) \in Seq(Bytes)
          /\ SubSeq(P, a + 1, b) \in Seq(Bytes)
          /\ SubSeq(P, 1, b) = SubSeq(P, 1, a) \o SubSeq(P, a + 1, b)
          /\ \A j \in 1 .. b - a : SubSeq(P, a + 1, b)[j] = P[a + j]
          /\ Len(SubSeq(P, a + 1, b)) = b - a
      <4>1. P \in Seq(Bytes) /\ a \in Nat /\ b \in Nat /\ a < b /\ b <= Len(P)
        BY ONLY <1>1, <2>1, <3>2
      <4> QED
        BY ONLY <4>1, TwoPieces, Zenon
    <3> QED
      BY ONLY <3>3 DEF b
  <2> HIDE DEF y
  <2>3. 1 \in DOMAIN y /\ y[1] = P[a + 1] /\ a + 1 \in 1 .. len
    BY <2>1, <2>2
  <2>4. y[1] \in ToSet(y) /\ y[1][1] = k
    BY <1>1, <2>3 DEF ToSet
  <2> QED
    BY <2>1, <2>2, <2>4 DEF a, y
<1>6. ASSUME NEW i \in 1 .. n
      PROVE  /\ F[i].curr = i - 1 /\ (F[i].final <=> i = n /\ ~Endless(c, len))
             /\ Bears(F[i], k) /\ F[i] \in FrameSet
             /\ F[i].payload = SubSeq(P, (i - 1) * c + 1, u(i))
  <2> DEFINE x == SubSeq(P, (i - 1) * c + 1, u(i))
             m == (i - 1) % Width
             l == LastNumber(c, len) % Width
  <2>1. F[i] = [final |-> m = l, curr |-> m, payload |-> x]
    BY <1>3
  <2>2. m = i - 1 /\ m \in Nat /\ (m = l <=> i = n /\ ~Endless(c, len))
    <3>1. m = i - 1 /\ (m = l <=> i = n /\ ~Endless(c, len))
      BY <1>2, Zenon
    <3> HIDE DEF m, l
    <3>2. i - 1 \in Nat
      BY <1>2
    <3> QED
      BY ONLY <3>1, <3>2
  <2>3. x \in Seq(Bytes) /\ \E b \in ToSet(x) : b[1] = k
    BY <1>5
  <2> HIDE DEF x, m, l
  <2>4. F[i].curr = m /\ F[i].final = (m = l) /\ F[i].payload = x /\ F[i] \in FrameSet
    BY <2>1, <2>2, <2>3 DEF FrameSet
  <2>5. Bears(F[i], k)
    BY ONLY <2>3, <2>4 DEF Bears
  <2> QED
    BY <2>2, <2>4, <2>5 DEF x
<1>7. F \in Seq(FrameSet) /\ Len(F) = n
  <2>1. F \in [1 .. n -> FrameSet]
    <3>1. DOMAIN F = 1 .. n
      BY ONLY <1>3
    <3>2. F = [i \in 1 .. n |-> F[i]]
      BY ONLY <1>3
    <3> QED
      BY ONLY <1>6, <3>1, <3>2
  <2> QED
    BY ONLY <1>2, <2>1
<1>8. Joined(F) = P
  <2> DEFINE s == [i \in DOMAIN F |-> F[i].payload]
             g == [i \in 0 .. n |-> SubSeq(P, 1, u(i))]
  <2>1. s \in Seq(Seq(Bytes)) /\ Len(s) = n /\ \A i \in 1 .. n : s[i] = SubSeq(P, (i - 1) * c + 1, u(i))
    <3>1. DOMAIN F = 1 .. n
      BY ONLY <1>7, <1>2
    <3>2. \A i \in 1 .. n : F[i].payload \in Seq(Bytes)
      BY <1>5, <1>6
    <3>3. s \in [1 .. n -> Seq(Bytes)]
      BY ONLY <3>1, <3>2
    <3>4. s \in Seq(Seq(Bytes)) /\ Len(s) = n
      BY ONLY <3>3, <1>2
    <3> QED
      BY ONLY <1>6, <3>1, <3>4
  <2>0. 0 \in 0 .. n /\ n \in 0 .. n
    BY <1>2
  <2>2. SubSeq(P, 1, u(0)) = <<>> /\ SubSeq(P, 1, u(n)) = P
    <3>1. SubSeq(P, 1, 0) = <<>> /\ SubSeq(P, 1, len) = P
      BY <1>1
    <3> QED
      BY ONLY <3>1, <1>2
  <2>3. g \in [0 .. n -> Seq(Bytes)]
    <3>1. ASSUME NEW i \in 0 .. n PROVE SubSeq(P, 1, u(i)) \in Seq(Bytes)
      <4>1. CASE i = 0
        BY ONLY <2>2, <4>1, <<>> \in Seq(Bytes)
      <4>2. CASE i # 0
        <5>1. i \in 1 .. n
          BY <1>2, <4>2
        <5> QED
          BY <1>5, <5>1
      <4> QED
        BY <4>1, <4>2
    <3> QED
      BY <3>1
  <2>4. Joins(g, s)
    <3>1. g[0] = <<>>
      BY ONLY <2>2, <2>0
    <3>2. ASSUME NEW i \in 1 .. n PROVE g[i] = g[i - 1] \o s[i]
      <4>1. i \in 0 .. n /\ i - 1 \in 0 .. n
        BY ONLY <1>2, <3>2
      <4>2. g[i] = SubSeq(P, 1, u(i)) /\ g[i - 1] = SubSeq(P, 1, u(i - 1))
        BY ONLY <4>1
      <4> HIDE DEF g, s
      <4>3. SubSeq(P, 1, u(i)) = SubSeq(P, 1, u(i - 1)) \o SubSeq(P, (i - 1) * c + 1, u(i))
        BY <1>5
      <4>4. s[i] = SubSeq(P, (i - 1) * c + 1, u(i))
        BY <2>1
      <4> QED
        BY ONLY <4>2, <4>3, <4>4
    <3> HIDE DEF g, s
    <3> QED
      BY ONLY <2>1, <3>1, <3>2 DEF Joins, JoinsTo
  <2>5. g[n] = P
    BY ONLY <2>0, <2>2
  <2>6. FlattenSeq(s) = P
    <3> HIDE DEF g, s
    <3> QED
      BY ONLY <2>1, <2>3, <2>4, <2>5, FlattenJoins
  <2> QED
    BY ONLY <2>6 DEF Joined, s
<1> QED
  BY ONLY <1>2, <1>4, <1>6, <1>7, <1>8 DEF Splits, P

\* What the frames of a packet are.
LEMMA PreparedIs ==
    ASSUME NEW k \in Nat, NEW c \in ChunkSizes, NEW len \in PacketLengths
    PROVE  Splits(c, k, len)
<1>1. c \in Nat /\ len \in Nat /\ len # 0 /\ Width \in Nat /\ (c # 0 => len \div c < Width)
  BY CodecAssumption
<1>2. CASE c = 0
  BY ONLY <1>1, <1>2, WholeSplits, k \in Nat
<1>3. CASE c # 0
  BY ONLY <1>1, <1>3, PartsSplit, k \in Nat
<1> QED
  BY <1>2, <1>3

-----------------------------------------------------------------------------
(* Fragments put in order, and joined. *)

\* Only the identity puts the numbers up to n in an ascending order.
LEMMA AscendsAll ==
    ASSUME NEW n \in Nat, NEW p \in [1 .. n -> 1 .. n],
           \A i, j \in 1 .. n : i < j => p[i] < p[j]
    PROVE  \A i \in 1 .. n : p[i] = i
<1>0. \A i \in 1 .. n : p[i] \in Nat /\ p[i] <= n /\ 1 <= p[i]
  OBVIOUS
<1>1. \A i \in 0 .. n : i \in {m \in 0 .. n : m # 0 => m <= p[m]}
  <2> DEFINE K == {m \in 0 .. n : m # 0 => m <= p[m]}
  <2>1. 0 \in K
    OBVIOUS
  <2>2. ASSUME NEW m \in 0 .. n - 1, m \in K PROVE m + 1 \in K
    <3>1. CASE m = 0
      BY <1>0, <3>1
    <3>2. CASE m # 0
      <4>1. m \in 1 .. n /\ m + 1 \in 1 .. n /\ m < m + 1 /\ m <= p[m]
        BY <2>2, <3>2
      <4>2. p[m] < p[m + 1]
        BY <4>1
      <4> QED
        BY <1>0, <4>1, <4>2
    <3> QED
      BY <3>1, <3>2
  <2> HIDE DEF K
  <2>3. \A m \in 0 .. n : m \in K
    BY <2>1, <2>2, Induct
  <2> QED
    BY <2>3 DEF K
<1>2. \A d \in 0 .. n : d \in {m \in 0 .. n : m # n => p[n - m] <= n - m}
  <2> DEFINE K == {m \in 0 .. n : m # n => p[n - m] <= n - m}
  <2>1. 0 \in K
    <3>1. n # 0 => n \in 1 .. n /\ n - 0 = n
      OBVIOUS
    <3> QED
      BY <1>0, <3>1
  <2>2. ASSUME NEW m \in 0 .. n - 1, m \in K PROVE m + 1 \in K
    <3> SUFFICES ASSUME m + 1 # n PROVE p[n - (m + 1)] <= n - (m + 1)
      OBVIOUS
    <3> DEFINE i == n - (m + 1)
    <3>1. i \in 1 .. n /\ n - m \in 1 .. n /\ i < n - m /\ n - m = i + 1
      OBVIOUS
    <3>2. p[i] < p[n - m]
      <4> HIDE DEF i
      <4> QED
        BY <3>1
    <3>3. p[n - m] <= n - m
      BY <2>2
    <3>4. p[i] \in Nat /\ p[n - m] \in Nat
      BY <1>0, <3>1
    <3> HIDE DEF i
    <3>5. p[i] <= i
      BY ONLY <3>1, <3>2, <3>3, <3>4
    <3> QED
      BY <3>5 DEF i
  <2> HIDE DEF K
  <2>3. \A m \in 0 .. n : m \in K
    BY <2>1, <2>2, Induct
  <2> QED
    BY <2>3 DEF K
<1> TAKE i \in 1 .. n
<1>3. i \in 0 .. n /\ n - i \in 0 .. n /\ n - i # n /\ n - (n - i) = i
  OBVIOUS
<1>4. i <= p[i]
  BY <1>1, <1>3
<1>5. p[n - (n - i)] <= n - (n - i)
  BY ONLY <1>2, <1>3
<1> QED
  BY <1>0, <1>3, <1>4, <1>5

\* What an order of the fragments is.
LEMMA SortedBy ==
    ASSUME NEW fs, NEW gs \in Sorted(fs)
    PROVE  \E p \in Bijection(DOMAIN fs, DOMAIN fs) :
              /\ gs = [i \in DOMAIN fs |-> fs[p[i]]]
              /\ \A i, j \in DOMAIN gs : i < j => gs[i].curr <= gs[j].curr
<1>1. PICK p \in Permutations(DOMAIN fs) \cap Bijection(DOMAIN fs, DOMAIN fs) :
            gs = [i \in DOMAIN fs |-> fs[p[i]]]
  BY Zenon DEF Sorted
<1>2. \A i, j \in DOMAIN gs : i < j => gs[i].curr <= gs[j].curr
  BY Zenon DEF Sorted
<1>3. p \in Bijection(DOMAIN fs, DOMAIN fs)
  BY Zenon
<1> QED
  BY ONLY <1>1, <1>2, <1>3, Zenon

\* Fragments that were collected in the order of their numbers stay in it.
LEMMA SortedSame ==
    ASSUME NEW fs \in Seq(FrameSet), \A i \in 1 .. Len(fs) : fs[i].curr = i - 1,
           NEW gs \in Sorted(fs)
    PROVE  gs = fs
<1> DEFINE n == Len(fs)
<1>1. n \in Nat /\ DOMAIN fs = 1 .. n
  OBVIOUS
<1>2. PICK p \in Bijection(DOMAIN fs, DOMAIN fs) :
              /\ gs = [i \in DOMAIN fs |-> fs[p[i]]]
              /\ \A i, j \in DOMAIN gs : i < j => gs[i].curr <= gs[j].curr
  BY ONLY SortedBy, gs \in Sorted(fs), Zenon
<1> HIDE DEF n
<1>3. p \in [1 .. n -> 1 .. n] /\ \A i, j \in 1 .. n : i # j => p[i] # p[j]
  <2>1. p \in Bijection(1 .. n, 1 .. n)
    BY ONLY <1>1, p \in Bijection(DOMAIN fs, DOMAIN fs)
  <2> QED
    BY ONLY <2>1 DEF Bijection, Injection, Surjection, IsInjective
<1>4. DOMAIN gs = 1 .. n /\ \A i \in 1 .. n : gs[i] = fs[p[i]]
  BY ONLY <1>1, <1>2
<1>5. \A i \in 1 .. n : gs[i].curr = p[i] - 1 /\ p[i] \in Nat
  BY <1>1, <1>3, <1>4 DEF n
<1>6. \A i, j \in 1 .. n : i < j => p[i] < p[j]
  <2> TAKE i, j \in 1 .. n
  <2> HAVE i < j
  <2>1. gs[i].curr <= gs[j].curr
    BY <1>2, <1>4
  <2>2. i # j
    BY <1>1
  <2>3. p[i] # p[j]
    BY ONLY <1>3, <2>2, i \in 1 .. n, j \in 1 .. n
  <2> QED
    BY ONLY <1>5, <2>1, <2>3, i \in 1 .. n, j \in 1 .. n
<1>7. \A i \in 1 .. n : p[i] = i
  BY ONLY <1>1, <1>3, <1>6, AscendsAll
<1>8. gs = [i \in 1 .. n |-> fs[i]]
  BY ONLY <1>1, <1>2, <1>7
<1> QED
  BY ONLY <1>1, <1>8, fs \in Seq(FrameSet)

\* Every byte of a sequence is in what FlattenSeq joins.
LEMMA FlattenHas ==
    ASSUME NEW U, NEW s \in Seq(Seq(U)), NEW m \in 1 .. Len(s), NEW x \in ToSet(s[m])
    PROVE  x \in ToSet(FlattenSeq(s)) /\ FlattenSeq(s) \in Seq(U)
<1> DEFINE n == Len(s)
<1>1. PICK f \in [0 .. n -> Seq(U)] : Joins(f, s)
  BY JoinsExists
<1>2. FlattenSeq(s) = f[n] /\ FlattenSeq(s) \in Seq(U)
  BY <1>1, FlattenJoins
<1>3. n \in Nat /\ m \in 1 .. n /\ \A k \in 1 .. n : s[k] \in Seq(U)
  OBVIOUS
<1>4. \A k \in 1 .. n : f[k] = f[k - 1] \o s[k] /\ f[k - 1] \in Seq(U)
  <2>1. \A k \in 1 .. n : f[k] = f[k - 1] \o s[k]
    BY <1>1 DEF Joins, JoinsTo
  <2> HIDE DEF n
  <2>2. \A k \in 1 .. n : k - 1 \in 0 .. n
    BY <1>3
  <2>3. \A k \in 1 .. n : f[k - 1] \in Seq(U)
    BY ONLY <2>2, f \in [0 .. n -> Seq(U)]
  <2> QED
    BY ONLY <2>1, <2>3
<1> HIDE DEF n
<1> DEFINE K == {k \in 0 .. n : k >= m => x \in ToSet(f[k])}
<1>5. 0 \in K
  BY <1>3
<1>6. ASSUME NEW k \in 0 .. n - 1, k \in K PROVE k + 1 \in K
  <2> DEFINE a == f[k]
             b == s[k + 1]
  <2>1. k + 1 \in 1 .. n /\ (k + 1) - 1 = k /\ k + 1 \in 0 .. n
    BY <1>3
  <2>2. f[k + 1] = a \o b /\ a \in Seq(U) /\ b \in Seq(U)
    BY <1>3, <1>4, <2>1
  <2>3. k + 1 >= m => x \in ToSet(a) \/ x \in ToSet(b)
    <3>1. CASE k >= m
      BY <1>6, <3>1
    <3>2. CASE k + 1 = m
      BY <3>2
    <3> QED
      BY <1>3, <3>1, <3>2
  <2> HIDE DEF a, b
  <2>4. ASSUME x \in ToSet(a) \/ x \in ToSet(b) PROVE x \in ToSet(a \o b)
    <3> DEFINE y == a \o b
    <3>1. /\ Len(y) = Len(a) + Len(b) /\ DOMAIN y = 1 .. Len(y) /\ Len(a) \in Nat /\ Len(b) \in Nat
          /\ \A i \in 1 .. Len(a) : y[i] = a[i]
          /\ \A i \in 1 .. Len(b) : y[Len(a) + i] = b[i]
          /\ DOMAIN a = 1 .. Len(a) /\ DOMAIN b = 1 .. Len(b)
      BY <2>2
    <3> HIDE DEF y
    <3>2. CASE x \in ToSet(a)
      <4>1. PICK i \in 1 .. Len(a) : a[i] = x
        BY <3>1, <3>2 DEF ToSet
      <4>2. i \in DOMAIN y /\ y[i] = x
        BY <3>1, <4>1
      <4> QED
        BY <4>2 DEF ToSet, y
    <3>3. CASE x \in ToSet(b)
      <4>1. PICK i \in 1 .. Len(b) : b[i] = x
        BY <3>1, <3>3 DEF ToSet
      <4>2. Len(a) + i \in DOMAIN y /\ y[Len(a) + i] = x
        BY <3>1, <4>1
      <4> QED
        BY <4>2 DEF ToSet, y
    <3> QED
      BY <2>4, <3>2, <3>3
  <2> QED
    BY <2>1, <2>2, <2>3, <2>4
<1> HIDE DEF K
<1>7. \A k \in 0 .. n : k \in K
  BY <1>3, <1>5, <1>6, Induct
<1>8. n \in K /\ n >= m
  BY <1>3, <1>7
<1> QED
  BY <1>2, <1>8 DEF K

\* Every byte of a fragment is in what an order of the fragments joins.
LEMMA JoinedHas ==
    ASSUME NEW fs \in Seq(FrameSet), NEW gs \in Sorted(fs), NEW m \in 1 .. Len(fs),
           NEW x \in ToSet(fs[m].payload)
    PROVE  x \in ToSet(Joined(gs)) /\ Joined(gs) \in Seq(Bytes)
<1> DEFINE n == Len(fs)
           s == [i \in DOMAIN gs |-> gs[i].payload]
<1>1. n \in Nat /\ DOMAIN fs = 1 .. n /\ m \in 1 .. n /\ \A i \in 1 .. n : fs[i] \in FrameSet
  OBVIOUS
<1>2. PICK p \in Bijection(DOMAIN fs, DOMAIN fs) : gs = [i \in DOMAIN fs |-> fs[p[i]]]
  BY ONLY SortedBy, gs \in Sorted(fs), Zenon
<1> HIDE DEF n
<1>3. p \in [1 .. n -> 1 .. n] /\ \E j \in 1 .. n : p[j] = m
  <2>1. p \in Bijection(1 .. n, 1 .. n)
    BY ONLY <1>1, p \in Bijection(DOMAIN fs, DOMAIN fs)
  <2> QED
    BY ONLY <1>1, <2>1 DEF Bijection, Injection, Surjection
<1>4. PICK j \in 1 .. n : p[j] = m
  BY <1>3
<1>5. DOMAIN gs = 1 .. n /\ \A i \in 1 .. n : gs[i] = fs[p[i]]
  BY ONLY <1>1, <1>2
<1>6. \A i \in 1 .. n : gs[i].payload \in Seq(Bytes)
  BY <1>1, <1>3, <1>5 DEF FrameSet
<1>7. s \in Seq(Seq(Bytes)) /\ Len(s) = n /\ s[j] = fs[m].payload
  <2>1. s \in [1 .. n -> Seq(Bytes)]
    BY ONLY <1>5, <1>6
  <2>2. s \in Seq(Seq(Bytes)) /\ Len(s) = n
    BY ONLY <1>1, <2>1
  <2> QED
    BY ONLY <1>4, <1>5, <2>2
<1> HIDE DEF s
<1>8. x \in ToSet(FlattenSeq(s)) /\ FlattenSeq(s) \in Seq(Bytes)
  BY ONLY <1>4, <1>7, FlattenHas, x \in ToSet(fs[m].payload)
<1> QED
  BY ONLY <1>8 DEF Joined, s

-----------------------------------------------------------------------------
(* Where the decoder is: q.k is the packet, and q.i the frame of it, that   *)
(* was read last; the packet 0 stands for none.  S is sent, c the chunk.    *)

FramesOf(c, S, k) == IF k = 0 THEN 1 ELSE Count(c, S[k])
Places(c, S) == {q \in [k : Nat, i : Nat] : q.k <= Len(S) /\ q.i # 0 /\ q.i <= FramesOf(c, S, q.k)}
Behind(c, S, q) == IF q.i < FramesOf(c, S, q.k) THEN [k |-> q.k, i |-> q.i + 1] ELSE [k |-> q.k + 1, i |-> 1]
FrameOf(c, S, q) == Prepared(c, q.k, S[q.k])[q.i]
EndOf(c, S) == [k |-> Len(S), i |-> FramesOf(c, S, Len(S))]

\* The packet begins with no fragment of an earlier one in the collection.
Starts(c, S, k) == k = 1 \/ ~Endless(c, S[k - 1])

\* The packet was read to the end and returned.
Returned(c, S, q) == q.k = 0 \/ (q.i = FramesOf(c, S, q.k) /\ ~Endless(c, S[q.k]))

\* How many packets were read to the end.
Passed(c, S, q) == IF q.i = FramesOf(c, S, q.k) THEN q.k ELSE q.k - 1

ClearOf(c, S) == {k \in 1 .. Len(S) : ~Endless(c, S[k]) /\ Starts(c, S, k)}
UpTo(n) == [k \in 1 .. n |-> k]
PayloadAt(S, ks) == [n \in DOMAIN ks |-> Payload(ks[n], S[ks[n]])]
\* The payloads of the clear packets among the first n.
FirstClear(c, S, n) == PayloadAt(S, Only(UpTo(n), ClearOf(c, S)))

Pure == {bytes \in Seq(Bytes) : \A b \in ToSet(bytes) : b[1] = bytes[1][1]}

\* Some byte collected is of a packet before k.
Earlier(fs, k) == \E n \in DOMAIN fs : \E b \in ToSet(fs[n].payload) : b[1] < k

\* What the fragments are when the frame at q was read.
Collected(c, S, q, fs) ==
    /\ fs \in Seq(FrameSet)
    /\ Returned(c, S, q) => fs = <<>>
    /\ ~Returned(c, S, q) /\ Starts(c, S, q.k) => fs = SubSeq(Prepared(c, q.k, S[q.k]), 1, q.i)
    /\ ~Returned(c, S, q) /\ ~Starts(c, S, q.k) => Earlier(fs, q.k)

\* The frames w[1], w[2], ... are on the wire.
Travels(c, S, w, fs) ==
    /\ w \in [0 .. Len(fs) -> Places(c, S)]
    /\ \A n \in 1 .. Len(fs) : w[n] = Behind(c, S, w[n - 1]) /\ fs[n] = FrameOf(c, S, w[n])

\* What the wire, the fragments and the payloads returned have to do with the
\* packets that were written.
Stream(c, S, w, fs, gs, bs, op) ==
    /\ fs \in Seq(FrameSet) /\ bs \in Seq(Seq(Bytes)) /\ op \in BOOLEAN
    /\ Travels(c, S, w, fs)
    /\ op => w[Len(fs)] = EndOf(c, S)
    /\ Collected(c, S, w[0], gs)
    /\ Only(bs, Pure) = FirstClear(c, S, Passed(c, S, w[0]))

CodecInv ==
    /\ chunk \in ChunkSizes
    /\ sent \in Seq(PacketLengths)
    /\ \E w : Stream(chunk, sent, w, wire, frags, decoded, open)

-----------------------------------------------------------------------------
(* The payloads of the clear packets. *)

\* Only asks about the elements of the list.
LEMMA OnlyAgree ==
    ASSUME NEW s, NEW A, NEW B, \A n \in DOMAIN s : s[n] \in A <=> s[n] \in B
    PROVE  Only(s, A) = Only(s, B)
<1>1. [n \in DOMAIN s |-> IF s[n] \in A THEN <<s[n]>> ELSE <<>>]
        = [n \in DOMAIN s |-> IF s[n] \in B THEN <<s[n]>> ELSE <<>>]
  OBVIOUS
<1> QED
  BY ONLY <1>1 DEF Only

\* Nothing is left of the empty list.
LEMMA OnlyNone ==
    ASSUME NEW A
    PROVE  Only(<<>>, A) = <<>>
<1>1. <<>> \in Seq(Nat) /\ 1 \in Nat
  OBVIOUS
<1> QED
  BY ONLY <1>1, OnlyAppend, Zenon

\* What is left of a list with one more element.
OneMore(s, x, A) == Only(Append(s, x), A) = IF x \in A THEN Append(Only(s, A), x) ELSE Only(s, A)

\* One more element is left if it is in the set.
LEMMA OnlyOneMore ==
    ASSUME NEW T, NEW s \in Seq(T), NEW x \in T, NEW A
    PROVE  OneMore(s, x, A)
BY ONLY OnlyAppend, s \in Seq(T), x \in T DEF OneMore

\* The numbers up to n + 1.
LEMMA UpToMore ==
    ASSUME NEW n \in Nat
    PROVE  /\ UpTo(0) = <<>> /\ UpTo(n) \in Seq(Nat) /\ DOMAIN UpTo(n) = 1 .. n
           /\ \A m \in 1 .. n : UpTo(n)[m] = m
           /\ UpTo(n + 1) = Append(UpTo(n), n + 1) /\ UpTo(n + 1) \in Seq(Nat)
<1>1. /\ UpTo(n) \in Seq(Nat) /\ Len(UpTo(n)) = n /\ DOMAIN UpTo(n) = 1 .. n
      /\ \A m \in 1 .. n : UpTo(n)[m] = m
  BY DEF UpTo
<1>2. /\ UpTo(n + 1) \in Seq(Nat) /\ Len(UpTo(n + 1)) = n + 1
      /\ \A m \in 1 .. n + 1 : UpTo(n + 1)[m] = m
  BY DEF UpTo
<1> DEFINE a == Append(UpTo(n), n + 1)
<1>3. /\ a \in Seq(Nat) /\ Len(a) = n + 1 /\ a[n + 1] = n + 1
      /\ \A m \in 1 .. n : a[m] = UpTo(n)[m]
  BY <1>1
<1> HIDE DEF a
<1>4. \A m \in 1 .. n + 1 : UpTo(n + 1)[m] = a[m]
  BY ONLY <1>1, <1>2, <1>3, n \in Nat
<1>5. UpTo(n + 1) = a
  BY ONLY <1>2, <1>3, <1>4, SameSeq
<1>6. UpTo(0) = <<>>
  BY DEF UpTo
<1> QED
  BY <1>1, <1>2, <1>5, <1>6 DEF a

\* The payloads of a list of packets with one more packet.
LEMMA PayloadAppend ==
    ASSUME NEW S \in Seq(Nat), NEW ks \in Seq(1 .. Len(S)), NEW k \in 1 .. Len(S)
    PROVE  /\ PayloadAt(S, ks) \in Seq(Seq(Bytes)) /\ PayloadAt(S, <<>>) = <<>>
           /\ PayloadAt(S, Append(ks, k)) = Append(PayloadAt(S, ks), Payload(k, S[k]))
<1> DEFINE v == Append(ks, k)
           a == PayloadAt(S, ks)
           b == PayloadAt(S, v)
           n == Len(ks)
           x == Payload(k, S[k])
           d == Append(a, x)
<1>0. \A m \in 1 .. Len(S) : Payload(m, S[m]) \in Seq(Bytes)
  <2> TAKE m \in 1 .. Len(S)
  <2>1. m \in Nat /\ S[m] \in Nat
    OBVIOUS
  <2> QED
    BY ONLY <2>1, PayloadBytes
<1>1. /\ n \in Nat /\ DOMAIN ks = 1 .. n /\ \A m \in 1 .. n : ks[m] \in 1 .. Len(S)
      /\ v \in Seq(1 .. Len(S)) /\ Len(v) = n + 1 /\ DOMAIN v = 1 .. n + 1 /\ v[n + 1] = k
      /\ \A m \in 1 .. n : v[m] = ks[m]
      /\ \A m \in 1 .. n + 1 : v[m] \in 1 .. Len(S)
  <2>1. n \in Nat /\ DOMAIN ks = 1 .. n /\ \A m \in 1 .. n : ks[m] \in 1 .. Len(S)
    OBVIOUS
  <2>2. /\ v \in Seq(1 .. Len(S)) /\ Len(v) = n + 1 /\ v[n + 1] = k
        /\ \A m \in 1 .. n : v[m] = ks[m]
    OBVIOUS
  <2> HIDE DEF v
  <2>3. DOMAIN v = 1 .. n + 1 /\ \A m \in 1 .. n + 1 : v[m] \in 1 .. Len(S)
    BY <2>2
  <2> QED
    BY <2>1, <2>2, <2>3
<1> HIDE DEF v, n
<1>2. a \in Seq(Seq(Bytes)) /\ Len(a) = n /\ \A m \in 1 .. n : a[m] = Payload(ks[m], S[ks[m]])
  <2>1. a = [m \in 1 .. n |-> Payload(ks[m], S[ks[m]])]
    BY ONLY <1>1 DEF PayloadAt
  <2>2. \A m \in 1 .. n : Payload(ks[m], S[ks[m]]) \in Seq(Bytes)
    BY ONLY <1>0, <1>1
  <2>3. a \in [1 .. n -> Seq(Bytes)]
    BY ONLY <2>1, <2>2
  <2>4. a \in Seq(Seq(Bytes)) /\ Len(a) = n
    BY ONLY <1>1, <2>3
  <2> QED
    BY ONLY <2>1, <2>4
<1>3. b \in Seq(Seq(Bytes)) /\ Len(b) = n + 1 /\ \A m \in 1 .. n + 1 : b[m] = Payload(v[m], S[v[m]])
  <2>1. b = [m \in 1 .. n + 1 |-> Payload(v[m], S[v[m]])]
    BY ONLY <1>1 DEF PayloadAt
  <2>2. \A m \in 1 .. n + 1 : Payload(v[m], S[v[m]]) \in Seq(Bytes)
    BY ONLY <1>0, <1>1
  <2>3. b \in [1 .. n + 1 -> Seq(Bytes)]
    BY ONLY <2>1, <2>2
  <2>4. b \in Seq(Seq(Bytes)) /\ Len(b) = n + 1
    BY ONLY <1>1, <2>3
  <2> QED
    BY ONLY <2>1, <2>4
<1>4. x \in Seq(Bytes)
  BY <1>0
<1> HIDE DEF a, b, x
<1>5. d \in Seq(Seq(Bytes)) /\ Len(d) = n + 1 /\ d[n + 1] = x /\ \A m \in 1 .. n : d[m] = a[m]
  BY <1>2, <1>4
<1>6. \A m \in 1 .. Len(b) : b[m] = d[m]
  <2> HIDE DEF d
  <2> SUFFICES ASSUME NEW m \in 1 .. n + 1 PROVE b[m] = d[m]
    BY <1>3
  <2>1. CASE m = n + 1
    BY ONLY <1>1, <1>3, <1>5, <2>1, m \in 1 .. n + 1 DEF x
  <2>2. CASE m # n + 1
    <3>1. m \in 1 .. n
      BY <1>1, <2>2
    <3> QED
      BY ONLY <1>1, <1>2, <1>3, <1>5, <3>1, m \in 1 .. n + 1
  <2> QED
    BY <2>1, <2>2
<1> HIDE DEF d
<1>7. b = d
  BY ONLY <1>3, <1>5, <1>6, SameSeq
<1>8. PayloadAt(S, <<>>) = <<>>
  BY DEF PayloadAt
<1> QED
  BY ONLY <1>2, <1>7, <1>8 DEF a, b, d, v, x

\* The clear packets among the first n are packets.
LEMMA ClearList ==
    ASSUME NEW c, NEW S \in Seq(Nat), NEW n \in 0 .. Len(S)
    PROVE  Only(UpTo(n), ClearOf(c, S)) \in Seq(1 .. Len(S))
<1>1. UpTo(n) \in Seq(1 .. Len(S))
  BY DEF UpTo
<1> QED
  BY ONLY <1>1, OnlyElements

\* One more packet.
LEMMA FirstClearMore ==
    ASSUME NEW c, NEW S \in Seq(Nat), NEW n \in 0 .. Len(S) - 1
    PROVE  /\ FirstClear(c, S, 0) = <<>> /\ FirstClear(c, S, n) \in Seq(Seq(Bytes))
           /\ FirstClear(c, S, n + 1) =
                 IF n + 1 \in ClearOf(c, S)
                 THEN Append(FirstClear(c, S, n), Payload(n + 1, S[n + 1]))
                 ELSE FirstClear(c, S, n)
<1> DEFINE C  == ClearOf(c, S)
           T  == 1 .. Len(S)
           ks == Only(UpTo(n), C)
           k  == n + 1
<1>1. n \in Nat /\ k \in T
  OBVIOUS
<1>2. ks \in Seq(T)
  <2>1. n \in 0 .. Len(S)
    OBVIOUS
  <2> QED
    BY ONLY <2>1, ClearList, S \in Seq(Nat)
<1>3. UpTo(n) \in Seq(T)
  BY DEF UpTo
<1>4. UpTo(n + 1) = Append(UpTo(n), k) /\ UpTo(0) = <<>>
  BY <1>1, UpToMore
<1> HIDE DEF C, T, ks, k
<1>5. /\ Only(<<>>, C) = <<>>
      /\ Only(Append(UpTo(n), k), C) = IF k \in C THEN Append(Only(UpTo(n), C), k) ELSE Only(UpTo(n), C)
  <2>1. Only(Append(UpTo(n), k), C) = IF k \in C THEN Append(Only(UpTo(n), C), k) ELSE Only(UpTo(n), C)
    <3> DEFINE v == UpTo(n)
    <3>1. v \in Seq(T) /\ k \in T
      BY ONLY <1>1, <1>3
    <3> HIDE DEF v
    <3>2. Only(Append(v, k), C) = IF k \in C THEN Append(Only(v, C), k) ELSE Only(v, C)
      BY ONLY <3>1, OnlyOneMore, Zenon DEF OneMore
    <3> QED
      BY ONLY <3>2 DEF v
  <2> QED
    BY ONLY <2>1, OnlyNone
<1>6. /\ PayloadAt(S, ks) \in Seq(Seq(Bytes)) /\ PayloadAt(S, <<>>) = <<>>
      /\ PayloadAt(S, Append(ks, k)) = Append(PayloadAt(S, ks), Payload(k, S[k]))
  BY ONLY <1>1, <1>2, PayloadAppend, S \in Seq(Nat) DEF T
<1>7. FirstClear(c, S, 0) = <<>> /\ FirstClear(c, S, n) = PayloadAt(S, ks)
  BY ONLY <1>4, <1>5, <1>6 DEF FirstClear, ks, C
<1>8. FirstClear(c, S, n + 1) = PayloadAt(S, IF k \in C THEN Append(ks, k) ELSE ks)
  BY ONLY <1>4, <1>5 DEF FirstClear, ks, C
<1>9. CASE k \in C
  BY ONLY <1>6, <1>7, <1>8, <1>9 DEF k, C
<1>10. CASE k \notin C
  BY ONLY <1>6, <1>7, <1>8, <1>10 DEF k, C
<1> QED
  BY ONLY <1>9, <1>10

\* A packet that is written later does not change them.
LEMMA FirstClearKeeps ==
    ASSUME NEW c, NEW S \in Seq(Nat), NEW len \in Nat, NEW n \in 0 .. Len(S)
    PROVE  FirstClear(c, Append(S, len), n) = FirstClear(c, S, n)
<1> DEFINE Z == Append(S, len)
           ks == Only(UpTo(n), ClearOf(c, S))
<1>1. Len(Z) = Len(S) + 1 /\ Len(S) \in Nat /\ \A k \in 1 .. Len(S) : Z[k] = S[k]
  OBVIOUS
<1> HIDE DEF Z
<1>2. \A k \in 1 .. n : k \in ClearOf(c, Z) <=> k \in ClearOf(c, S)
  <2> TAKE k \in 1 .. n
  <2>1. k \in 1 .. Len(S) /\ k \in 1 .. Len(Z) /\ Z[k] = S[k]
    BY <1>1
  <2>2. Starts(c, Z, k) <=> Starts(c, S, k)
    <3>1. k # 1 => k - 1 \in 1 .. Len(S)
      BY <1>1
    <3> QED
      BY ONLY <1>1, <3>1 DEF Starts
  <2> QED
    BY ONLY <2>1, <2>2 DEF ClearOf
<1>3. DOMAIN UpTo(n) = 1 .. n /\ \A m \in 1 .. n : UpTo(n)[m] = m
  BY DEF UpTo
<1>4. Only(UpTo(n), ClearOf(c, Z)) = ks
  BY ONLY <1>2, <1>3, OnlyAgree
<1>5. ks \in Seq(1 .. Len(S))
  BY ClearList
<1> HIDE DEF ks
<1>6. \A m \in DOMAIN ks : ks[m] \in 1 .. Len(S)
  BY <1>5
<1>7. PayloadAt(Z, ks) = PayloadAt(S, ks)
  BY ONLY <1>1, <1>6 DEF PayloadAt
<1> QED
  BY ONLY <1>4, <1>7 DEF FirstClear, ks, Z

\* The payloads of fewer packets are a beginning of those of more.
LEMMA FirstClearPrefix ==
    ASSUME NEW c, NEW S \in Seq(Nat), NEW n \in 0 .. Len(S)
    PROVE  IsPrefix(FirstClear(c, S, n), FirstClear(c, S, Len(S)))
<1> DEFINE ks(m) == Only(UpTo(m), ClearOf(c, S))
           a == FirstClear(c, S, n)
           Begins(b) == b \in Seq(Seq(Bytes)) /\ Len(a) <= Len(b) /\ \A i \in 1 .. Len(a) : b[i] = a[i]
           d == Len(S) - n
           K == {j \in 0 .. d : Begins(FirstClear(c, S, n + j))}
<1>1. d \in Nat /\ n \in Nat /\ n + 0 = n /\ n + d = Len(S) /\ Len(S) \in Nat
  OBVIOUS
<1>2. a \in Seq(Seq(Bytes))
  <2>1. CASE n = Len(S) /\ n # 0
    <3>1. n - 1 \in 0 .. Len(S) - 1 /\ (n - 1) + 1 = n /\ n \in 1 .. Len(S)
      BY <1>1, <2>1
    <3> DEFINE b == FirstClear(c, S, n - 1)
               x == Payload(n, S[n])
    <3>2. /\ b \in Seq(Seq(Bytes))
          /\ a = IF n \in ClearOf(c, S) THEN Append(b, x) ELSE b
      <4> DEFINE m == n - 1
      <4>1. m \in 0 .. Len(S) - 1 /\ m + 1 = n
        BY <3>1
      <4> HIDE DEF m
      <4>2. /\ FirstClear(c, S, m) \in Seq(Seq(Bytes))
            /\ FirstClear(c, S, m + 1) =
                  IF m + 1 \in ClearOf(c, S)
                  THEN Append(FirstClear(c, S, m), Payload(m + 1, S[m + 1]))
                  ELSE FirstClear(c, S, m)
        BY ONLY <4>1, FirstClearMore, S \in Seq(Nat)
      <4> QED
        BY ONLY <4>1, <4>2 DEF m
    <3>3. x \in Seq(Bytes)
      <4>1. n \in Nat /\ S[n] \in Nat
        BY <3>1
      <4> QED
        BY ONLY <4>1, PayloadBytes
    <3> HIDE DEF a, b, x
    <3> QED
      BY <3>2, <3>3
  <2>2. CASE n = 0
    <3>1. Only(UpTo(0), ClearOf(c, S)) = <<>>
      <4>1. UpTo(0) = <<>>
        BY DEF UpTo
      <4> QED
        BY ONLY <4>1, OnlyNone
    <3>2. a = <<>>
      BY <2>2, <3>1 DEF FirstClear, PayloadAt
    <3> QED
      BY <3>2
  <2>3. CASE n # Len(S)
    <3>1. n \in 0 .. Len(S) - 1
      BY <2>3
    <3> QED
      BY ONLY <3>1, FirstClearMore, S \in Seq(Nat)
  <2> QED
    BY <2>1, <2>2, <2>3
<1> HIDE DEF a
<1>3. 0 \in K
  <2>1. Begins(a)
    BY <1>2
  <2> HIDE DEF Begins, d
  <2> QED
    BY <1>1, <2>1 DEF a
<1>4. ASSUME NEW j \in 0 .. d - 1, j \in K PROVE j + 1 \in K
  <2> DEFINE m == n + j
             b == FirstClear(c, S, m)
             x == Payload(m + 1, S[m + 1])
  <2>1. m \in 0 .. Len(S) - 1 /\ n + (j + 1) = m + 1 /\ j + 1 \in 0 .. d /\ m + 1 \in 1 .. Len(S)
    BY <1>1
  <2>2. Begins(b)
    <3> HIDE DEF Begins
    <3> QED
      BY <1>4
  <2>3. x \in Seq(Bytes)
    <3> HIDE DEF m
    <3>1. m + 1 \in Nat /\ S[m + 1] \in Nat
      BY <2>1
    <3> QED
      BY ONLY <3>1, PayloadBytes
  <2>4. FirstClear(c, S, m + 1) = IF m + 1 \in ClearOf(c, S) THEN Append(b, x) ELSE b
    <3> HIDE DEF m
    <3> QED
      BY ONLY <2>1, FirstClearMore, S \in Seq(Nat)
  <2> HIDE DEF b, x, m
  <2>5. Begins(Append(b, x))
    <3> DEFINE e == Append(b, x)
    <3>1. e \in Seq(Seq(Bytes)) /\ Len(e) = Len(b) + 1 /\ Len(b) \in Nat /\ \A i \in 1 .. Len(b) : e[i] = b[i]
      BY <2>2, <2>3
    <3> HIDE DEF e
    <3>2. Len(a) \in Nat
      BY <1>2
    <3>3. Begins(e)
      BY ONLY <2>2, <3>1, <3>2
    <3> QED
      BY <3>3 DEF e
  <2> HIDE DEF Begins
  <2>6. Begins(FirstClear(c, S, n + (j + 1)))
    BY ONLY <2>1, <2>2, <2>4, <2>5
  <2> QED
    BY ONLY <2>1, <2>6
<1>5. Begins(FirstClear(c, S, Len(S)))
  <2> HIDE DEF Begins, K
  <2>1. \A j \in 0 .. d : j \in K
    <3> HIDE DEF d
    <3> QED
      BY ONLY <1>1, <1>3, <1>4, Induct
  <2>2. d \in K
    BY <1>1, <2>1
  <2> HIDE DEF d
  <2> QED
    BY ONLY <1>1, <2>2 DEF K
<1> DEFINE b == FirstClear(c, S, Len(S))
<1> HIDE DEF b
<1>6. b \in Seq(Seq(Bytes)) /\ Len(a) <= Len(b) /\ Len(a) \in Nat /\ \A i \in 1 .. Len(a) : b[i] = a[i]
  BY <1>2, <1>5 DEF b
<1>7. SubSeq(a, 1, Len(a)) = a
  BY <1>2
<1>8. SubSeq(b, 1, Len(a)) = a
  <2> DEFINE e == SubSeq(b, 1, Len(a))
  <2>1. e \in Seq(Seq(Bytes)) /\ Len(e) = Len(a) /\ \A i \in 1 .. Len(a) : e[i] = b[i]
    BY <1>6
  <2> HIDE DEF e
  <2>2. \A i \in 1 .. Len(e) : e[i] = a[i]
    BY ONLY <1>6, <2>1
  <2>3. e = a
    BY ONLY <1>2, <2>1, <2>2, SameSeq
  <2> QED
    BY <2>3 DEF e
<1> QED
  BY <1>6, <1>7, <1>8 DEF IsPrefix, a, b

-----------------------------------------------------------------------------
(* The decoder reads the next frame. *)

\* The packets and frames a place stands for.
LEMMA PlaceIs ==
    ASSUME NEW c \in ChunkSizes, NEW S \in Seq(PacketLengths), NEW q \in Places(c, S)
    PROVE  /\ q \in [k : Nat, i : Nat] /\ q.k \in 0 .. Len(S) /\ Len(S) \in Nat
           /\ FramesOf(c, S, q.k) \in Nat /\ q.i \in 1 .. FramesOf(c, S, q.k)
           /\ q.k # 0 => /\ q.k \in 1 .. Len(S) /\ Splits(c, q.k, S[q.k])
                         /\ FramesOf(c, S, q.k) = Count(c, S[q.k])
                         /\ FrameOf(c, S, q) = Prepared(c, q.k, S[q.k])[q.i]
                         /\ FrameOf(c, S, q) \in FrameSet
           /\ q.k = 0 => FramesOf(c, S, q.k) = 1
<1>1. q \in [k : Nat, i : Nat] /\ q.k <= Len(S) /\ q.i # 0 /\ q.i <= FramesOf(c, S, q.k)
  BY DEF Places
<1>2. q.k \in Nat /\ q.i \in Nat /\ Len(S) \in Nat
  BY <1>1
<1>3. CASE q.k = 0
  BY <1>1, <1>2, <1>3 DEF FramesOf
<1>4. CASE q.k # 0
  <2>1. q.k \in 1 .. Len(S) /\ S[q.k] \in PacketLengths
    BY <1>1, <1>2, <1>4
  <2>2. Splits(c, q.k, S[q.k])
    BY ONLY <1>2, <2>1, PreparedIs, c \in ChunkSizes
  <2> DEFINE F == Prepared(c, q.k, S[q.k])
             n == Count(c, S[q.k])
  <2>3. F \in Seq(FrameSet) /\ Len(F) = n /\ n \in Nat
    BY ONLY <2>2 DEF Splits
  <2>4. FramesOf(c, S, q.k) = n /\ FrameOf(c, S, q) = F[q.i]
    BY <1>4 DEF FramesOf, FrameOf
  <2> HIDE DEF F, n
  <2>5. q.i \in 1 .. n
    BY <1>1, <1>2, <2>3, <2>4
  <2>6. F[q.i] \in FrameSet
    BY ONLY <2>3, <2>5
  <2> QED
    BY ONLY <1>1, <1>2, <1>4, <2>1, <2>2, <2>3, <2>4, <2>5, <2>6 DEF F, n
<1> QED
  BY <1>3, <1>4

\* The place behind another.
LEMMA AfterIs ==
    ASSUME NEW c \in ChunkSizes, NEW S \in Seq(PacketLengths), NEW q \in Places(c, S),
           NEW p \in Places(c, S), p = Behind(c, S, q)
    PROVE  /\ p.k # 0 /\ Passed(c, S, q) = p.k - 1 /\ p.k - 1 \in 0 .. Len(S) - 1
           /\ \/ q.k # 0 /\ q.i < FramesOf(c, S, q.k) /\ p.k = q.k /\ p.i = q.i + 1
              \/ q.i = FramesOf(c, S, q.k) /\ p.k = q.k + 1 /\ p.i = 1
<1> DEFINE n == FramesOf(c, S, q.k)
<1>1. /\ q.k \in 0 .. Len(S) /\ Len(S) \in Nat /\ n \in Nat /\ q.i \in 1 .. n
      /\ q.k = 0 => n = 1
  BY PlaceIs
<1>2. p.k \in 0 .. Len(S)
  BY PlaceIs
<1>3. p = IF q.i < n THEN [k |-> q.k, i |-> q.i + 1] ELSE [k |-> q.k + 1, i |-> 1]
  BY DEF Behind
<1>4. Passed(c, S, q) = IF q.i = n THEN q.k ELSE q.k - 1
  BY DEF Passed
<1> HIDE DEF n
<1>5. CASE q.i < n
  <2>1. p.k = q.k /\ p.i = q.i + 1
    BY <1>3, <1>5
  <2>2. q.k # 0 /\ q.i # n
    BY <1>1, <1>5
  <2> QED
    BY ONLY <1>1, <1>4, <1>5, <2>1, <2>2 DEF n
<1>6. CASE ~(q.i < n)
  <2>1. p.k = q.k + 1 /\ p.i = 1
    BY <1>3, <1>6
  <2>2. q.i = n
    BY <1>1, <1>6
  <2> QED
    BY ONLY <1>1, <1>2, <1>4, <2>1, <2>2 DEF n
<1> QED
  BY <1>5, <1>6

\* An earlier byte stays among the fragments.
LEMMA EarlierMore ==
    ASSUME NEW fs \in Seq(FrameSet), NEW f \in FrameSet, NEW k \in Nat, NEW m \in Nat,
           Earlier(fs, k), k <= m
    PROVE  Earlier(Append(fs, f), m)
<1>1. PICK n \in DOMAIN fs : \E b \in ToSet(fs[n].payload) : b[1] < k
  BY DEF Earlier
<1>2. PICK b \in ToSet(fs[n].payload) : b[1] < k
  BY <1>1
<1> DEFINE gs == Append(fs, f)
           y == fs[n].payload
<1>3. n \in DOMAIN gs /\ gs[n] = fs[n] /\ fs[n] \in FrameSet
  OBVIOUS
<1>4. y \in Seq(Bytes)
  BY <1>3 DEF FrameSet
<1>5. b \in Bytes
  <2> HIDE DEF y
  <2>1. b \in ToSet(y)
    BY DEF y
  <2> QED
    BY <1>4, <2>1 DEF ToSet
<1>6. b[1] \in Nat
  BY <1>5 DEF Bytes
<1>7. b[1] < m
  BY ONLY <1>2, <1>6, k \in Nat, m \in Nat, k <= m
<1> HIDE DEF gs
<1>8. b \in ToSet(gs[n].payload)
  BY ONLY <1>3, b \in ToSet(fs[n].payload)
<1>9. Earlier(gs, m)
  BY ONLY <1>3, <1>7, <1>8 DEF Earlier
<1> QED
  BY <1>9 DEF gs

\* The fragments with the frame that was just read.
Gathers(c, S, p, gs) ==
    /\ gs \in Seq(FrameSet) /\ gs # <<>> /\ gs[Len(gs)] = FrameOf(c, S, p)
    /\ Starts(c, S, p.k) => gs = SubSeq(Prepared(c, p.k, S[p.k]), 1, p.i)
    /\ ~Starts(c, S, p.k) => Earlier(gs, p.k)

\* What the fragments are with the next frame.
LEMMA GathersNext ==
    ASSUME NEW c \in ChunkSizes, NEW S \in Seq(PacketLengths), NEW q \in Places(c, S),
           NEW p \in Places(c, S), p = Behind(c, S, q), NEW fs, Collected(c, S, q, fs)
    PROVE  Gathers(c, S, p, Append(fs, FrameOf(c, S, p)))
<1> DEFINE f == FrameOf(c, S, p)
           F == Prepared(c, p.k, S[p.k])
           n == FramesOf(c, S, p.k)
           gs == Append(fs, f)
<1>1. p.k # 0 /\ \/ q.k # 0 /\ q.i < FramesOf(c, S, q.k) /\ p.k = q.k /\ p.i = q.i + 1
                 \/ q.i = FramesOf(c, S, q.k) /\ p.k = q.k + 1 /\ p.i = 1
  BY ONLY AfterIs, c \in ChunkSizes, S \in Seq(PacketLengths), q \in Places(c, S),
          p \in Places(c, S), p = Behind(c, S, q)
<1>2. /\ p.k \in 1 .. Len(S) /\ Splits(c, p.k, S[p.k]) /\ n = Count(c, S[p.k])
      /\ f = F[p.i] /\ f \in FrameSet /\ n \in Nat /\ p.i \in 1 .. n /\ Len(S) \in Nat
  BY ONLY <1>1, PlaceIs, c \in ChunkSizes, S \in Seq(PacketLengths), p \in Places(c, S)
<1>3. F \in Seq(FrameSet) /\ Len(F) = n
  BY ONLY <1>2 DEF Splits
<1>4. fs \in Seq(FrameSet)
  BY DEF Collected
<1>5. q.k \in 0 .. Len(S) /\ FramesOf(c, S, q.k) \in Nat /\ q.i \in 1 .. FramesOf(c, S, q.k)
  BY ONLY PlaceIs, c \in ChunkSizes, S \in Seq(PacketLengths), q \in Places(c, S)
<1> HIDE DEF f, F, n
<1>6. gs \in Seq(FrameSet) /\ gs # <<>> /\ gs[Len(gs)] = f
  BY <1>2, <1>4
<1>7. CASE q.k # 0 /\ q.i < FramesOf(c, S, q.k) /\ p.k = q.k /\ p.i = q.i + 1
  <2>1. ~Returned(c, S, q)
    BY <1>5, <1>7 DEF Returned
  <2>2. ASSUME Starts(c, S, p.k) PROVE gs = SubSeq(F, 1, p.i)
    <3>1. fs = SubSeq(F, 1, q.i)
      BY <1>7, <2>1, <2>2 DEF Collected, F
    <3>2. q.i \in 0 .. Len(F) - 1
      BY <1>2, <1>3, <1>5, <1>7
    <3> DEFINE m == q.i
    <3> HIDE DEF m
    <3>3. SubSeq(F, 1, m + 1) = Append(SubSeq(F, 1, m), F[m + 1])
      BY ONLY <1>3, <3>2, SubSeqMore DEF m
    <3> QED
      BY ONLY <1>2, <1>7, <3>1, <3>3 DEF m, gs
  <2>3. ASSUME ~Starts(c, S, p.k) PROVE Earlier(gs, p.k)
    <3>1. Earlier(fs, p.k)
      BY <1>7, <2>1, <2>3 DEF Collected
    <3>2. p.k \in Nat /\ p.k <= p.k
      BY <1>2
    <3> QED
      BY ONLY <1>2, <1>4, <3>1, <3>2, EarlierMore
  <2> QED
    BY ONLY <1>6, <2>2, <2>3 DEF Gathers, f, F, gs
<1>8. CASE q.i = FramesOf(c, S, q.k) /\ p.k = q.k + 1 /\ p.i = 1
  <2>0. q.k \in Nat /\ p.k - 1 = q.k /\ p.k \in Nat /\ q.k < p.k /\ (p.k = 1 <=> q.k = 0)
    BY <1>5, <1>8
  <2>1. Returned(c, S, q) <=> Starts(c, S, p.k)
    BY ONLY <1>8, <2>0 DEF Returned, Starts
  <2>2. ASSUME Starts(c, S, p.k) PROVE gs = SubSeq(F, 1, p.i)
    <3>1. fs = <<>>
      BY <2>1, <2>2 DEF Collected
    <3>2. 0 \in 0 .. Len(F) - 1 /\ SubSeq(F, 1, 0) = <<>>
      BY <1>2, <1>3
    <3>3. SubSeq(F, 1, 0 + 1) = Append(SubSeq(F, 1, 0), F[0 + 1])
      BY ONLY <1>3, <3>2, SubSeqMore
    <3> QED
      BY <1>2, <1>8, <3>1, <3>2, <3>3
  <2>3. ASSUME ~Starts(c, S, p.k) PROVE Earlier(gs, p.k)
    <3>1. ~Returned(c, S, q) /\ q.k # 0
      BY <2>1, <2>3 DEF Returned
    <3>2. CASE Starts(c, S, q.k)
      <4> DEFINE G == Prepared(c, q.k, S[q.k])
      <4>1. fs = SubSeq(G, 1, q.i)
        BY <3>1, <3>2 DEF Collected
      <4>2. Splits(c, q.k, S[q.k]) /\ FramesOf(c, S, q.k) = Count(c, S[q.k])
        BY ONLY <3>1, PlaceIs, c \in ChunkSizes, S \in Seq(PacketLengths), q \in Places(c, S)
      <4>3. G \in Seq(FrameSet) /\ Len(G) = q.i /\ 1 \in 1 .. Len(G)
        <5>1. G \in Seq(FrameSet) /\ Len(G) = q.i
          BY ONLY <1>8, <4>2 DEF Splits
        <5> QED
          BY <1>5, <5>1
      <4>4. Bears(G[1], q.k)
        <5>1. 1 \in 1 .. Count(c, S[q.k])
          BY ONLY <1>8, <4>2, <4>3
        <5> QED
          BY ONLY <4>2, <5>1 DEF Splits
      <4> HIDE DEF G
      <4>5. 1 \in DOMAIN gs /\ gs[1] = G[1]
        <5>1. fs = G
          BY <4>1, <4>3
        <5> QED
          BY <1>2, <4>3, <5>1
      <4> HIDE DEF gs
      <4>6. PICK b \in ToSet(G[1].payload) : b[1] = q.k
        BY ONLY <4>4 DEF Bears
      <4>7. b \in ToSet(gs[1].payload) /\ b[1] < p.k
        BY ONLY <2>0, <4>5, <4>6
      <4> QED
        BY ONLY <4>5, <4>7 DEF Earlier
    <3>3. CASE ~Starts(c, S, q.k)
      <4>1. Earlier(fs, q.k)
        BY <3>1, <3>3 DEF Collected
      <4>2. q.k <= p.k
        BY <2>0
      <4> QED
        BY ONLY <1>2, <1>4, <2>0, <4>1, <4>2, EarlierMore
    <3> QED
      BY <3>2, <3>3
  <2> QED
    BY ONLY <1>6, <2>2, <2>3 DEF Gathers, f, F, gs
<1> QED
  BY <1>1, <1>7, <1>8

\* Lengths are numbers.
LEMMA LengthsAreNumbers ==
    ASSUME NEW S \in Seq(PacketLengths)
    PROVE  S \in Seq(Nat)
<1>1. S = [n \in 1 .. Len(S) |-> S[n]] /\ Len(S) \in Nat /\ \A n \in 1 .. Len(S) : S[n] \in PacketLengths
  OBVIOUS
<1>2. PacketLengths \subseteq Nat
  BY CodecAssumption
<1>3. \A n \in 1 .. Len(S) : S[n] \in Nat
  BY ONLY <1>1, <1>2
<1>4. S \in [1 .. Len(S) -> Nat]
  BY ONLY <1>1, <1>3
<1> QED
  BY ONLY <1>1, <1>4

\* The frames that end a packet.
LEMMA FinalIs ==
    ASSUME NEW c \in ChunkSizes, NEW S \in Seq(PacketLengths), NEW p \in Places(c, S), p.k # 0
    PROVE  FrameOf(c, S, p).final <=> p.i = FramesOf(c, S, p.k) /\ ~Endless(c, S[p.k])
<1>1. /\ Splits(c, p.k, S[p.k]) /\ FramesOf(c, S, p.k) = Count(c, S[p.k])
      /\ FrameOf(c, S, p) = Prepared(c, p.k, S[p.k])[p.i]
      /\ p.i \in 1 .. FramesOf(c, S, p.k)
  BY ONLY PlaceIs, c \in ChunkSizes, S \in Seq(PacketLengths), p \in Places(c, S), p.k # 0
<1>2. p.i \in 1 .. Count(c, S[p.k])
  BY ONLY <1>1
<1>3. Prepared(c, p.k, S[p.k])[p.i].final <=> p.i = Count(c, S[p.k]) /\ ~Endless(c, S[p.k])
  BY ONLY <1>1, <1>2 DEF Splits
<1> QED
  BY ONLY <1>1, <1>3

\* The fragments that stay.
LEMMA CollectedNext ==
    ASSUME NEW c \in ChunkSizes, NEW S \in Seq(PacketLengths), NEW p \in Places(c, S), p.k # 0,
           NEW gs, Gathers(c, S, p, gs)
    PROVE  Collected(c, S, p, IF FrameOf(c, S, p).final THEN <<>> ELSE gs)
<1>1. FrameOf(c, S, p).final <=> Returned(c, S, p)
  <2>1. FrameOf(c, S, p).final <=> p.i = FramesOf(c, S, p.k) /\ ~Endless(c, S[p.k])
    BY ONLY FinalIs, c \in ChunkSizes, S \in Seq(PacketLengths), p \in Places(c, S), p.k # 0
  <2> QED
    BY ONLY <2>1, p.k # 0 DEF Returned
<1>2. CASE Returned(c, S, p)
  <2>1. <<>> \in Seq(FrameSet)
    OBVIOUS
  <2> QED
    BY ONLY <1>1, <1>2, <2>1 DEF Collected
<1>3. CASE ~Returned(c, S, p)
  BY ONLY <1>1, <1>3, Gathers(c, S, p, gs) DEF Collected, Gathers
<1> QED
  BY <1>2, <1>3

\* What the clear packets are once the frame at p was read.
LEMMA ClearNext ==
    ASSUME NEW c \in ChunkSizes, NEW S \in Seq(PacketLengths), NEW q \in Places(c, S),
           NEW p \in Places(c, S), p = Behind(c, S, q)
    PROVE  /\ Passed(c, S, p) \in 0 .. Len(S)
           /\ FirstClear(c, S, Passed(c, S, p)) =
                 IF FrameOf(c, S, p).final /\ Starts(c, S, p.k)
                 THEN Append(FirstClear(c, S, Passed(c, S, q)), Payload(p.k, S[p.k]))
                 ELSE FirstClear(c, S, Passed(c, S, q))
<1> DEFINE n == p.k - 1
           a == FirstClear(c, S, n)
           x == Payload(p.k, S[p.k])
<1>1. p.k # 0 /\ Passed(c, S, q) = n /\ n \in 0 .. Len(S) - 1
  BY ONLY AfterIs, c \in ChunkSizes, S \in Seq(PacketLengths), q \in Places(c, S),
          p \in Places(c, S), p = Behind(c, S, q)
<1>2. /\ p.k \in 1 .. Len(S) /\ Len(S) \in Nat
      /\ FramesOf(c, S, p.k) \in Nat /\ p.i \in 1 .. FramesOf(c, S, p.k)
  BY ONLY <1>1, PlaceIs, c \in ChunkSizes, S \in Seq(PacketLengths), p \in Places(c, S)
<1>3. FrameOf(c, S, p).final <=> p.i = FramesOf(c, S, p.k) /\ ~Endless(c, S[p.k])
  BY ONLY <1>1, FinalIs, c \in ChunkSizes, S \in Seq(PacketLengths), p \in Places(c, S)
<1>4. S \in Seq(Nat)
  BY ONLY LengthsAreNumbers, S \in Seq(PacketLengths)
<1>5. FirstClear(c, S, p.k) = IF p.k \in ClearOf(c, S) THEN Append(a, x) ELSE a
  <2>1. n + 1 = p.k
    BY <1>2
  <2> HIDE DEF n
  <2>2. FirstClear(c, S, n + 1) =
          IF n + 1 \in ClearOf(c, S)
          THEN Append(FirstClear(c, S, n), Payload(n + 1, S[n + 1])) ELSE FirstClear(c, S, n)
    BY ONLY <1>1, <1>4, FirstClearMore
  <2> QED
    BY ONLY <2>1, <2>2
<1>6. p.k \in ClearOf(c, S) <=> ~Endless(c, S[p.k]) /\ Starts(c, S, p.k)
  BY ONLY <1>2 DEF ClearOf
<1>7. Passed(c, S, p) = IF p.i = FramesOf(c, S, p.k) THEN p.k ELSE n
  BY DEF Passed
<1>8. Passed(c, S, p) \in 0 .. Len(S)
  BY <1>1, <1>2, <1>7
<1> HIDE DEF a, x, n
<1>9. CASE p.i = FramesOf(c, S, p.k)
  BY ONLY <1>1, <1>3, <1>5, <1>6, <1>7, <1>8, <1>9 DEF a, x
<1>10. CASE p.i # FramesOf(c, S, p.k)
  BY ONLY <1>1, <1>3, <1>7, <1>8, <1>10
<1> QED
  BY <1>9, <1>10

\* What is joined is the packet, or has bytes of two packets.
LEMMA JoinedNext ==
    ASSUME NEW c \in ChunkSizes, NEW S \in Seq(PacketLengths), NEW p \in Places(c, S), p.k # 0,
           NEW gs, Gathers(c, S, p, gs), FrameOf(c, S, p).final, NEW hs \in Sorted(gs)
    PROVE  /\ Joined(hs) \in Seq(Bytes)
           /\ Starts(c, S, p.k) => Joined(hs) = Payload(p.k, S[p.k]) /\ Joined(hs) \in Pure
           /\ ~Starts(c, S, p.k) => Joined(hs) \notin Pure
<1> DEFINE k == p.k
           len == S[p.k]
           F == Prepared(c, k, len)
           n == Count(c, len)
           x == Joined(hs)
<1>1. /\ k \in 1 .. Len(S) /\ Splits(c, k, len) /\ FramesOf(c, S, p.k) = n
      /\ FrameOf(c, S, p) = F[p.i] /\ p.i \in 1 .. n
  BY ONLY PlaceIs, c \in ChunkSizes, S \in Seq(PacketLengths), p \in Places(c, S), p.k # 0
<1>2. p.i = n
  <2>1. p.i = FramesOf(c, S, p.k)
    BY ONLY FinalIs, c \in ChunkSizes, S \in Seq(PacketLengths), p \in Places(c, S), p.k # 0,
            FrameOf(c, S, p).final
  <2> QED
    BY ONLY <1>1, <2>1
<1>3. /\ F \in Seq(FrameSet) /\ Len(F) = n /\ n \in Nat /\ n # 0 /\ Joined(F) = Payload(k, len)
      /\ \A i \in 1 .. n : F[i].curr = i - 1 /\ Bears(F[i], k)
  BY ONLY <1>1 DEF Splits
<1>4. gs \in Seq(FrameSet) /\ gs # <<>> /\ gs[Len(gs)] = F[n]
  BY ONLY <1>1, <1>2, Gathers(c, S, p, gs) DEF Gathers
<1>5. k \in Nat /\ len \in Nat /\ len # 0
  <2>1. len \in PacketLengths /\ k \in Nat
    BY <1>1
  <2> QED
    BY <2>1, CodecAssumption
<1> HIDE DEF F, n, len
<1>6. ASSUME Starts(c, S, p.k) PROVE x = Payload(k, len) /\ x \in Pure /\ x \in Seq(Bytes)
  <2>1. gs = F
    <3>1. gs = SubSeq(F, 1, n)
      BY ONLY <1>2, <1>6, Gathers(c, S, p, gs) DEF Gathers, F, len
    <3> QED
      BY <1>3, <3>1
  <2>2. hs = F
    BY ONLY <1>3, <2>1, SortedSame, hs \in Sorted(gs)
  <2>3. x = Payload(k, len)
    BY ONLY <1>3, <2>2
  <2> HIDE DEF x
  <2>4. x \in Seq(Bytes) /\ Len(x) = len /\ \A j \in 1 .. len : x[j] = <<k, j>>
    BY ONLY <1>5, <2>3, PayloadBytes
  <2>5. DOMAIN x = 1 .. len /\ 1 \in 1 .. len
    BY <1>5, <2>4
  <2>6. \A j \in 1 .. len : x[j][1] = k
    BY ONLY <2>4
  <2>7. x[1][1] = k
    BY ONLY <2>5, <2>6
  <2>8. \A b \in ToSet(x) : b[1] = x[1][1]
    BY ONLY <2>5, <2>6, <2>7 DEF ToSet
  <2> QED
    BY ONLY <2>3, <2>4, <2>8 DEF Pure
<1>7. ASSUME ~Starts(c, S, p.k) PROVE x \notin Pure /\ x \in Seq(Bytes)
  <2>1. PICK m \in DOMAIN gs : \E b \in ToSet(gs[m].payload) : b[1] < p.k
    BY ONLY <1>7, Gathers(c, S, p, gs) DEF Gathers, Earlier
  <2>2. PICK b \in ToSet(gs[m].payload) : b[1] < k
    BY ONLY <2>1
  <2>3. m \in 1 .. Len(gs) /\ Len(gs) \in 1 .. Len(gs)
    BY <1>4
  <2>4. Bears(F[n], k)
    <3>1. n \in 1 .. n
      BY <1>3
    <3> QED
      BY ONLY <1>3, <3>1
  <2>5. PICK d \in ToSet(gs[Len(gs)].payload) : d[1] = k
    BY ONLY <1>4, <2>4 DEF Bears
  <2>6. b \in ToSet(x) /\ x \in Seq(Bytes)
    BY ONLY <1>4, <2>3, JoinedHas, hs \in Sorted(gs), b \in ToSet(gs[m].payload)
  <2>7. d \in ToSet(x)
    BY ONLY <1>4, <2>3, JoinedHas, hs \in Sorted(gs), d \in ToSet(gs[Len(gs)].payload)
  <2> HIDE DEF x
  <2>8. b[1] \in Nat /\ b[1] # d[1]
    <3>1. b \in Bytes
      BY <2>6 DEF ToSet
    <3>2. b[1] \in Nat
      BY <3>1 DEF Bytes
    <3> QED
      BY ONLY <1>5, <2>2, <2>5, <3>2
  <2> QED
    BY ONLY <2>6, <2>7, <2>8 DEF Pure
<1> QED
  BY <1>6, <1>7 DEF len

\* What was returned once the frame at p was read.
LEMMA DecodedNext ==
    ASSUME NEW c \in ChunkSizes, NEW S \in Seq(PacketLengths), NEW q \in Places(c, S),
           NEW p \in Places(c, S), p = Behind(c, S, q), NEW gs, Gathers(c, S, p, gs),
           NEW bs \in Seq(Seq(Bytes)), Only(bs, Pure) = FirstClear(c, S, Passed(c, S, q))
    PROVE  /\ ~FrameOf(c, S, p).final => Only(bs, Pure) = FirstClear(c, S, Passed(c, S, p))
           /\ FrameOf(c, S, p).final =>
                 \A hs \in Sorted(gs) :
                    /\ Append(bs, Joined(hs)) \in Seq(Seq(Bytes))
                    /\ Only(Append(bs, Joined(hs)), Pure) = FirstClear(c, S, Passed(c, S, p))
<1>1. p.k # 0
  BY ONLY AfterIs, c \in ChunkSizes, S \in Seq(PacketLengths), q \in Places(c, S),
          p \in Places(c, S), p = Behind(c, S, q)
<1>2. FirstClear(c, S, Passed(c, S, p)) =
         IF FrameOf(c, S, p).final /\ Starts(c, S, p.k)
         THEN Append(FirstClear(c, S, Passed(c, S, q)), Payload(p.k, S[p.k]))
         ELSE FirstClear(c, S, Passed(c, S, q))
  BY ONLY ClearNext, c \in ChunkSizes, S \in Seq(PacketLengths), q \in Places(c, S),
          p \in Places(c, S), p = Behind(c, S, q)
<1>3. ASSUME FrameOf(c, S, p).final, NEW hs \in Sorted(gs)
      PROVE  /\ Append(bs, Joined(hs)) \in Seq(Seq(Bytes))
             /\ Only(Append(bs, Joined(hs)), Pure) = FirstClear(c, S, Passed(c, S, p))
  <2> DEFINE x == Joined(hs)
  <2>1. /\ x \in Seq(Bytes)
        /\ Starts(c, S, p.k) => x = Payload(p.k, S[p.k]) /\ x \in Pure
        /\ ~Starts(c, S, p.k) => x \notin Pure
    BY ONLY <1>1, <1>3, JoinedNext, c \in ChunkSizes, S \in Seq(PacketLengths),
            p \in Places(c, S), Gathers(c, S, p, gs)
  <2> HIDE DEF x
  <2>2. Only(Append(bs, x), Pure) = IF x \in Pure THEN Append(Only(bs, Pure), x) ELSE Only(bs, Pure)
    BY ONLY <2>1, bs \in Seq(Seq(Bytes)), OnlyOneMore, Zenon DEF OneMore
  <2>3. Append(bs, x) \in Seq(Seq(Bytes))
    BY ONLY <2>1, bs \in Seq(Seq(Bytes))
  <2> QED
    BY ONLY <1>2, <1>3, <2>1, <2>2, <2>3, Only(bs, Pure) = FirstClear(c, S, Passed(c, S, q)) DEF x
<1>4. ~FrameOf(c, S, p).final => Only(bs, Pure) = FirstClear(c, S, Passed(c, S, p))
  BY ONLY <1>2, Only(bs, Pure) = FirstClear(c, S, Passed(c, S, q))
<1> QED
  BY <1>3, <1>4

\* The frame at the head of the wire is read.
LEMMA StreamRead ==
    ASSUME NEW c \in ChunkSizes, NEW S \in Seq(PacketLengths), NEW w, NEW fs, NEW gs, NEW bs, NEW op,
           Stream(c, S, w, fs, gs, bs, op), fs # <<>>
    PROVE  \E v :
              /\ ~Head(fs).final => Stream(c, S, v, Tail(fs), Append(gs, Head(fs)), bs, op)
              /\ Head(fs).final =>
                    \A hs \in Sorted(Append(gs, Head(fs))) :
                       Stream(c, S, v, Tail(fs), <<>>, Append(bs, Joined(hs)), op)
<1> DEFINE l == Len(fs)
           q == w[0]
           p == w[1]
           t == Tail(fs)
           f == FrameOf(c, S, p)
           v == [n \in 0 .. Len(t) |-> w[n + 1]]
           ms == Append(gs, f)
<1>1. /\ fs \in Seq(FrameSet) /\ bs \in Seq(Seq(Bytes)) /\ op \in BOOLEAN
      /\ Travels(c, S, w, fs) /\ (op => w[l] = EndOf(c, S)) /\ Collected(c, S, q, gs)
      /\ Only(bs, Pure) = FirstClear(c, S, Passed(c, S, q))
  BY DEF Stream
<1>2. /\ l \in Nat /\ l # 0 /\ t \in Seq(FrameSet) /\ Len(t) = l - 1 /\ Head(fs) = fs[1]
      /\ \A n \in 1 .. l - 1 : t[n] = fs[n + 1]
  BY <1>1
<1>3. /\ w \in [0 .. l -> Places(c, S)]
      /\ \A n \in 1 .. l : w[n] = Behind(c, S, w[n - 1]) /\ fs[n] = FrameOf(c, S, w[n])
  BY <1>1 DEF Travels
<1> HIDE DEF l, t
<1>4. q \in Places(c, S) /\ p \in Places(c, S) /\ p = Behind(c, S, q) /\ fs[1] = f
  <2>1. 0 \in 0 .. l /\ 1 \in 0 .. l /\ 1 \in 1 .. l /\ 1 - 1 = 0
    BY <1>2
  <2> QED
    BY ONLY <1>3, <2>1
<1>5. /\ Travels(c, S, v, t) /\ v[0] = p /\ v[Len(t)] = w[l]
  <2>1. \A n \in 0 .. l - 1 : n + 1 \in 0 .. l /\ w[n + 1] \in Places(c, S)
    BY ONLY <1>2, <1>3
  <2>2. v \in [0 .. Len(t) -> Places(c, S)]
    BY ONLY <1>2, <2>1
  <2>3. ASSUME NEW n \in 1 .. Len(t) PROVE v[n] = Behind(c, S, v[n - 1]) /\ t[n] = FrameOf(c, S, v[n])
    <3>1. /\ n \in 1 .. l - 1 /\ n \in 0 .. Len(t) /\ n - 1 \in 0 .. Len(t) /\ n + 1 \in 1 .. l
          /\ (n - 1) + 1 = n /\ (n + 1) - 1 = n
      BY <1>2
    <3>2. v[n] = w[n + 1] /\ v[n - 1] = w[n]
      BY ONLY <3>1
    <3>3. w[n + 1] = Behind(c, S, w[n]) /\ fs[n + 1] = FrameOf(c, S, w[n + 1])
      BY ONLY <1>3, <3>1
    <3> QED
      BY ONLY <1>2, <3>1, <3>2, <3>3
  <2>4. 0 \in 0 .. Len(t) /\ Len(t) \in 0 .. Len(t) /\ Len(t) + 1 = l /\ 0 + 1 = 1
    BY ONLY <1>2
  <2>5. v[0] = p /\ v[Len(t)] = w[l]
    BY ONLY <2>4
  <2> HIDE DEF v
  <2> QED
    BY ONLY <2>2, <2>3, <2>5 DEF Travels
<1>6. Gathers(c, S, p, ms)
  BY ONLY <1>1, <1>4, GathersNext, c \in ChunkSizes, S \in Seq(PacketLengths)
<1>7. p.k # 0
  BY ONLY <1>4, AfterIs, c \in ChunkSizes, S \in Seq(PacketLengths)
<1> HIDE DEF v, p, q, ms
<1>8. Collected(c, S, p, IF f.final THEN <<>> ELSE ms)
  BY ONLY <1>4, <1>6, <1>7, CollectedNext, c \in ChunkSizes, S \in Seq(PacketLengths)
<1>9. /\ ~f.final => Only(bs, Pure) = FirstClear(c, S, Passed(c, S, p))
      /\ f.final => \A hs \in Sorted(ms) :
                       /\ Append(bs, Joined(hs)) \in Seq(Seq(Bytes))
                       /\ Only(Append(bs, Joined(hs)), Pure) = FirstClear(c, S, Passed(c, S, p))
  BY ONLY <1>1, <1>4, <1>6, DecodedNext, c \in ChunkSizes, S \in Seq(PacketLengths)
<1>10. Head(fs) = f /\ Append(gs, Head(fs)) = ms
  BY ONLY <1>2, <1>4 DEF ms
<1> HIDE DEF f
<1>11. CASE ~f.final
  <2>1. Stream(c, S, v, t, ms, bs, op)
    BY ONLY <1>1, <1>2, <1>5, <1>8, <1>9, <1>11, Zenon DEF Stream
  <2> QED
    BY ONLY <1>10, <1>11, <2>1, Zenon DEF t
<1>12. CASE f.final
  <2>1. ASSUME NEW hs \in Sorted(ms) PROVE Stream(c, S, v, t, <<>>, Append(bs, Joined(hs)), op)
    <3> DEFINE ds == Append(bs, Joined(hs))
    <3>1. ds \in Seq(Seq(Bytes)) /\ Only(ds, Pure) = FirstClear(c, S, Passed(c, S, p))
      BY ONLY <1>9, <1>12, <2>1, Zenon
    <3> HIDE DEF ds
    <3>2. Collected(c, S, p, <<>>)
      BY ONLY <1>8, <1>12, Zenon
    <3>3. Stream(c, S, v, t, <<>>, ds, op)
      BY ONLY <1>1, <1>2, <1>5, <3>1, <3>2, Zenon DEF Stream
    <3> QED
      BY ONLY <3>3 DEF ds
  <2> QED
    BY ONLY <1>10, <1>12, <2>1, Zenon DEF t
<1> QED
  BY <1>11, <1>12

-----------------------------------------------------------------------------
(* The writer, and the end of the connection. *)

\* What a place means does not change when a packet is written.
SamePlaces(c, S, Z, q) ==
    /\ q \in Places(c, Z) /\ Behind(c, Z, q) = Behind(c, S, q)
    /\ q.k # 0 => FrameOf(c, Z, q) = FrameOf(c, S, q)
    /\ Passed(c, Z, q) = Passed(c, S, q) /\ Passed(c, S, q) \in 0 .. Len(S)
    /\ \A fs : Collected(c, S, q, fs) => Collected(c, Z, q, fs)

\* A packet that is written leaves the places before it as they are.
LEMMA PlacesStay ==
    ASSUME NEW c \in ChunkSizes, NEW S \in Seq(PacketLengths), NEW len \in PacketLengths,
           NEW q \in Places(c, S)
    PROVE  SamePlaces(c, S, Append(S, len), q)
<1> DEFINE Z == Append(S, len)
<1>1. Len(Z) = Len(S) + 1 /\ Len(S) \in Nat /\ \A k \in 1 .. Len(S) : Z[k] = S[k]
  OBVIOUS
<1>2. /\ q \in [k : Nat, i : Nat] /\ q.k \in 0 .. Len(S)
      /\ FramesOf(c, S, q.k) \in Nat /\ q.i \in 1 .. FramesOf(c, S, q.k)
      /\ q.k # 0 => q.k \in 1 .. Len(S)
  BY PlaceIs
<1> HIDE DEF Z
<1>3. FramesOf(c, Z, q.k) = FramesOf(c, S, q.k)
  BY ONLY <1>1, <1>2 DEF FramesOf
<1>4. q \in Places(c, Z)
  <2>1. q.k <= Len(Z) /\ q.i # 0 /\ q.i <= FramesOf(c, Z, q.k)
    BY <1>1, <1>2, <1>3
  <2> QED
    BY ONLY <1>2, <2>1 DEF Places
<1>5. Behind(c, Z, q) = Behind(c, S, q)
  BY ONLY <1>3 DEF Behind
<1>6. q.k # 0 => FrameOf(c, Z, q) = FrameOf(c, S, q)
  BY ONLY <1>1, <1>2 DEF FrameOf
<1>7. Passed(c, Z, q) = Passed(c, S, q) /\ Passed(c, S, q) \in 0 .. Len(S)
  <2>1. Passed(c, Z, q) = Passed(c, S, q)
    BY ONLY <1>3 DEF Passed
  <2>2. Passed(c, S, q) \in 0 .. Len(S)
    <3> DEFINE m == FramesOf(c, S, q.k)
    <3>1. q.k = 0 => q.i = m
      <4>1. q.k = 0 => m = 1
        BY DEF FramesOf
      <4> HIDE DEF m
      <4>2. q.i \in 1 .. m
        BY <1>2 DEF m
      <4> QED
        BY <4>1, <4>2
    <3>2. Passed(c, S, q) = IF q.i = m THEN q.k ELSE q.k - 1
      BY DEF Passed
    <3> HIDE DEF m
    <3> QED
      BY ONLY <1>1, <1>2, <3>1, <3>2
  <2> QED
    BY ONLY <2>1, <2>2
<1>8. Returned(c, Z, q) <=> Returned(c, S, q)
  BY ONLY <1>1, <1>2, <1>3 DEF Returned
<1>9. q.k # 0 => (Starts(c, Z, q.k) <=> Starts(c, S, q.k)) /\ Z[q.k] = S[q.k]
  <2>1. q.k # 0 /\ q.k # 1 => q.k - 1 \in 1 .. Len(S)
    BY ONLY <1>1, <1>2
  <2> QED
    BY ONLY <1>1, <1>2, <2>1 DEF Starts
<1>10. ASSUME NEW fs, Collected(c, S, q, fs) PROVE Collected(c, Z, q, fs)
  <2>1. ~Returned(c, S, q) => q.k # 0
    BY ONLY TRUE DEF Returned
  <2> QED
    BY ONLY <1>8, <1>9, <1>10, <2>1 DEF Collected
<1> QED
  BY ONLY <1>4, <1>5, <1>6, <1>7, <1>10 DEF SamePlaces, Z

\* A packet is written.
LEMMA StreamWrite ==
    ASSUME NEW c \in ChunkSizes, NEW S \in Seq(PacketLengths), NEW w, NEW fs, NEW gs, NEW bs,
           Stream(c, S, w, fs, gs, bs, TRUE), NEW len \in PacketLengths
    PROVE  \E v : Stream(c, Append(S, len), v, fs \o Prepared(c, Len(S) + 1, len), gs, bs, TRUE)
<1> DEFINE Z == Append(S, len)
           K == Len(S) + 1
           F == Prepared(c, K, len)
           l == Len(fs)
           m == Count(c, len)
           t == fs \o F
           v == [n \in 0 .. Len(t) |-> IF n <= l THEN w[n] ELSE [k |-> K, i |-> n - l]]
<1>1. /\ fs \in Seq(FrameSet) /\ bs \in Seq(Seq(Bytes))
      /\ Travels(c, S, w, fs) /\ w[l] = EndOf(c, S) /\ Collected(c, S, w[0], gs)
      /\ Only(bs, Pure) = FirstClear(c, S, Passed(c, S, w[0]))
  BY DEF Stream
<1>2. /\ Len(S) \in Nat /\ K \in Nat /\ K # 0 /\ Len(Z) = K /\ Z[K] = len /\ l \in Nat
      /\ K = Len(S) + 1
  BY <1>1
<1>3. /\ w \in [0 .. l -> Places(c, S)]
      /\ \A n \in 1 .. l : w[n] = Behind(c, S, w[n - 1]) /\ fs[n] = FrameOf(c, S, w[n])
  BY <1>1 DEF Travels
<1>4. Splits(c, K, len)
  BY ONLY <1>2, PreparedIs, c \in ChunkSizes, len \in PacketLengths
<1>5. F \in Seq(FrameSet) /\ Len(F) = m /\ m \in Nat /\ m # 0
  BY ONLY <1>4 DEF Splits
<1> HIDE DEF F, m, l
<1>6. /\ t \in Seq(FrameSet) /\ Len(t) = l + m
      /\ \A n \in 1 .. l : t[n] = fs[n]
      /\ \A n \in 1 .. m : t[l + n] = F[n]
  <2>1. fs \in Seq(FrameSet) /\ F \in Seq(FrameSet) /\ Len(fs) = l /\ Len(F) = m /\ l \in Nat /\ m \in Nat
    BY ONLY <1>1, <1>2, <1>5 DEF l
  <2>2. t \in Seq(FrameSet) /\ Len(t) = l + m
    BY ONLY <2>1
  <2>3. \A n \in 1 .. l : t[n] = fs[n]
    BY ONLY <2>1
  <2>4. \A n \in 1 .. m : t[l + n] = F[n]
    <3> TAKE n \in 1 .. m
    <3>1. l + n \in 1 .. l + m /\ ~(l + n <= l) /\ (l + n) - l = n
      BY ONLY <2>1, n \in 1 .. m
    <3> QED
      BY ONLY <2>1, <3>1, n \in 1 .. m
  <2> QED
    BY ONLY <2>2, <2>3, <2>4
<1>7. \A q \in Places(c, S) : SamePlaces(c, S, Z, q)
  BY ONLY PlacesStay, c \in ChunkSizes, S \in Seq(PacketLengths), len \in PacketLengths
<1> HIDE DEF Z, K, t
<1>8. FramesOf(c, Z, K) = m /\ \A i \in 1 .. m : FrameOf(c, Z, [k |-> K, i |-> i]) = F[i]
  <2>1. FramesOf(c, Z, K) = m
    BY ONLY <1>2 DEF FramesOf, m
  <2>2. ASSUME NEW i \in 1 .. m PROVE FrameOf(c, Z, [k |-> K, i |-> i]) = F[i]
    <3> DEFINE q == [k |-> K, i |-> i]
    <3>1. q.k = K /\ q.i = i
      OBVIOUS
    <3> HIDE DEF q
    <3>2. FrameOf(c, Z, q) = F[i]
      BY ONLY <1>2, <3>1 DEF FrameOf, F
    <3> QED
      BY ONLY <3>2 DEF q
  <2> QED
    BY ONLY <2>1, <2>2
<1>9. \A i \in 1 .. m : [k |-> K, i |-> i] \in Places(c, Z)
  <2> TAKE i \in 1 .. m
  <2> DEFINE q == [k |-> K, i |-> i]
  <2>1. q \in [k : Nat, i : Nat] /\ q.k = K /\ q.i = i
    BY ONLY <1>2, <1>5, i \in 1 .. m
  <2> HIDE DEF q
  <2>2. q.k <= Len(Z) /\ q.i # 0 /\ q.i <= FramesOf(c, Z, q.k)
    BY ONLY <1>2, <1>5, <1>8, <2>1, i \in 1 .. m
  <2>3. q \in Places(c, Z)
    BY ONLY <2>1, <2>2 DEF Places
  <2> QED
    BY ONLY <2>3 DEF q
<1>10. /\ \A n \in 0 .. l : n \in 0 .. Len(t) /\ v[n] = w[n]
       /\ \A i \in 1 .. m : l + i \in 0 .. Len(t) /\ v[l + i] = [k |-> K, i |-> i]
  <2>1. ASSUME NEW n \in 0 .. l PROVE n \in 0 .. Len(t) /\ v[n] = w[n]
    <3>1. n \in 0 .. Len(t) /\ n <= l
      BY ONLY <1>2, <1>5, <1>6, n \in 0 .. l
    <3> QED
      BY ONLY <3>1
  <2>2. ASSUME NEW i \in 1 .. m PROVE l + i \in 0 .. Len(t) /\ v[l + i] = [k |-> K, i |-> i]
    <3>1. l + i \in 0 .. Len(t) /\ ~(l + i <= l) /\ (l + i) - l = i
      BY ONLY <1>2, <1>5, <1>6, i \in 1 .. m
    <3> QED
      BY ONLY <3>1
  <2> QED
    BY ONLY <2>1, <2>2
<1>11. \A n \in 0 .. Len(t) : v[n] \in Places(c, Z)
  <2> TAKE n \in 0 .. Len(t)
  <2>1. CASE n <= l
    <3>1. n \in 0 .. l
      BY ONLY <1>2, <2>1, n \in 0 .. Len(t)
    <3>2. w[n] \in Places(c, S) /\ v[n] = w[n]
      BY ONLY <1>3, <1>10, <3>1
    <3> QED
      BY ONLY <1>7, <3>2 DEF SamePlaces
  <2>2. CASE ~(n <= l)
    <3>1. n - l \in 1 .. m /\ l + (n - l) = n
      BY ONLY <1>2, <1>5, <1>6, <2>2, n \in 0 .. Len(t)
    <3>2. v[l + (n - l)] = [k |-> K, i |-> n - l]
      BY ONLY <1>10, <3>1
    <3> QED
      BY ONLY <1>9, <3>1, <3>2
  <2> QED
    BY ONLY <2>1, <2>2
<1>12. v \in [0 .. Len(t) -> Places(c, Z)]
  BY ONLY <1>11
<1> HIDE DEF v
<1>13. ASSUME NEW n \in 1 .. Len(t)
       PROVE  v[n] = Behind(c, Z, v[n - 1]) /\ t[n] = FrameOf(c, Z, v[n])
  <2>1. CASE n <= l
    <3>1. n \in 1 .. l /\ n \in 0 .. l /\ n - 1 \in 0 .. l
      BY ONLY <1>2, <2>1, n \in 1 .. Len(t)
    <3>2. /\ v[n] = w[n] /\ v[n - 1] = w[n - 1] /\ w[n] \in Places(c, S) /\ w[n - 1] \in Places(c, S)
          /\ t[n] = fs[n] /\ w[n] = Behind(c, S, w[n - 1]) /\ fs[n] = FrameOf(c, S, w[n])
      BY ONLY <1>3, <1>6, <1>10, <3>1
    <3> DEFINE q == w[n - 1]
               p == w[n]
    <3> HIDE DEF q, p
    <3>3. q \in Places(c, S) /\ p \in Places(c, S) /\ p = Behind(c, S, q)
      BY ONLY <3>2 DEF q, p
    <3>4. p.k # 0
      BY ONLY <3>3, AfterIs, c \in ChunkSizes, S \in Seq(PacketLengths)
    <3>5. Behind(c, Z, q) = Behind(c, S, q) /\ FrameOf(c, Z, p) = FrameOf(c, S, p)
      BY ONLY <1>7, <3>3, <3>4 DEF SamePlaces
    <3> QED
      BY ONLY <3>2, <3>5 DEF q, p
  <2>2. CASE n = l + 1
    <3>1. 1 \in 1 .. m /\ l \in 0 .. l /\ n - 1 = l
      BY ONLY <1>2, <1>5, <2>2
    <3>2. v[n] = [k |-> K, i |-> 1] /\ v[n - 1] = EndOf(c, S) /\ t[n] = F[1] /\ w[l] \in Places(c, S)
      BY ONLY <1>1, <1>3, <1>6, <1>10, <2>2, <3>1 DEF l
    <3>3. FrameOf(c, Z, v[n]) = F[1]
      BY ONLY <1>8, <3>1, <3>2
    <3> DEFINE q == EndOf(c, S)
               a == FramesOf(c, S, Len(S))
    <3>4. q \in Places(c, S)
      BY ONLY <1>1, <3>2 DEF l
    <3>5. q.k = Len(S) /\ q.i = a /\ q = [k |-> Len(S), i |-> a]
      BY DEF EndOf
    <3> HIDE DEF q
    <3>6. Behind(c, Z, q) = Behind(c, S, q)
      BY ONLY <1>7, <3>4 DEF SamePlaces
    <3>7. a \in Nat
      BY ONLY <3>4, <3>5, PlaceIs, c \in ChunkSizes, S \in Seq(PacketLengths)
    <3>8. Behind(c, S, q) = [k |-> K, i |-> 1]
      <4>1. ~(q.i < FramesOf(c, S, q.k))
        BY ONLY <3>5, <3>7
      <4> QED
        BY ONLY <1>2, <3>5, <4>1 DEF Behind
    <3> QED
      BY ONLY <3>2, <3>3, <3>6, <3>8 DEF q
  <2>3. CASE ~(n <= l + 1)
    <3> DEFINE i == n - l
               j == i - 1
    <3>1. i \in 1 .. m /\ j \in 1 .. m /\ l + i = n /\ l + j = n - 1 /\ j < m /\ j + 1 = i
      BY ONLY <1>2, <1>5, <1>6, <2>3, n \in 1 .. Len(t)
    <3> HIDE DEF i, j
    <3>2. v[n] = [k |-> K, i |-> i] /\ v[n - 1] = [k |-> K, i |-> j] /\ t[n] = F[i]
      BY ONLY <1>6, <1>10, <3>1
    <3>3. FrameOf(c, Z, v[n]) = F[i]
      BY ONLY <1>8, <3>1, <3>2
    <3> DEFINE q == [k |-> K, i |-> j]
    <3>4. q.k = K /\ q.i = j
      OBVIOUS
    <3> HIDE DEF q
    <3>5. q.i < FramesOf(c, Z, q.k)
      BY ONLY <1>8, <3>1, <3>4
    <3>6. Behind(c, Z, q) = [k |-> K, i |-> i]
      BY ONLY <3>1, <3>4, <3>5 DEF Behind
    <3> QED
      BY ONLY <3>2, <3>3, <3>6 DEF q
  <2> QED
    BY ONLY <1>2, <2>1, <2>2, <2>3, n \in 1 .. Len(t)
<1>14. Travels(c, Z, v, t)
  BY ONLY <1>12, <1>13 DEF Travels
<1>15. v[Len(t)] = EndOf(c, Z)
  <2>1. m \in 1 .. m
    BY ONLY <1>5
  <2>2. v[l + m] = [k |-> K, i |-> m]
    BY ONLY <1>10, <2>1
  <2> QED
    BY ONLY <1>2, <1>6, <1>8, <2>2 DEF EndOf
<1>16. v[0] = w[0] /\ w[0] \in Places(c, S)
  <2>1. 0 \in 0 .. l
    BY ONLY <1>2
  <2> QED
    BY ONLY <1>3, <1>10, <2>1
<1> DEFINE q == w[0]
<1>17. q \in Places(c, S) /\ Collected(c, S, q, gs) /\ Only(bs, Pure) = FirstClear(c, S, Passed(c, S, q))
  BY ONLY <1>1, <1>16
<1> HIDE DEF q
<1>18. Collected(c, Z, q, gs) /\ Passed(c, Z, q) = Passed(c, S, q) /\ Passed(c, S, q) \in 0 .. Len(S)
  BY ONLY <1>7, <1>17 DEF SamePlaces
<1>19. FirstClear(c, Z, Passed(c, Z, q)) = FirstClear(c, S, Passed(c, S, q))
  <2>1. S \in Seq(Nat) /\ len \in Nat
    BY LengthsAreNumbers, CodecAssumption
  <2> DEFINE n == Passed(c, S, q)
  <2> HIDE DEF n
  <2>2. n \in 0 .. Len(S)
    BY ONLY <1>18 DEF n
  <2>3. FirstClear(c, Append(S, len), n) = FirstClear(c, S, n)
    BY ONLY <2>1, <2>2, FirstClearKeeps
  <2> QED
    BY ONLY <1>18, <2>3 DEF n, Z
<1>20. Stream(c, Z, v, t, gs, bs, TRUE)
  <2>1. v[0] = q
    BY ONLY <1>16 DEF q
  <2>2. Only(bs, Pure) = FirstClear(c, Z, Passed(c, Z, q))
    BY ONLY <1>17, <1>19
  <2> QED
    BY ONLY <1>1, <1>6, <1>14, <1>15, <1>18, <2>1, <2>2, Zenon DEF Stream
<1> QED
  BY ONLY <1>20, Zenon DEF Z, t, F, K

\* The connection ends after the n-th frame.
LEMMA StreamCut ==
    ASSUME NEW c, NEW S, NEW w, NEW fs, NEW gs, NEW bs, NEW op,
           Stream(c, S, w, fs, gs, bs, op), NEW n \in 0 .. Len(fs)
    PROVE  \E v : Stream(c, S, v, SubSeq(fs, 1, n), gs, bs, FALSE)
<1> DEFINE t == SubSeq(fs, 1, n)
           l == Len(fs)
           v == [m \in 0 .. Len(t) |-> w[m]]
<1>1. /\ fs \in Seq(FrameSet) /\ bs \in Seq(Seq(Bytes))
      /\ Travels(c, S, w, fs) /\ Collected(c, S, w[0], gs)
      /\ Only(bs, Pure) = FirstClear(c, S, Passed(c, S, w[0]))
  BY DEF Stream
<1>2. l \in Nat /\ n \in Nat /\ n <= l /\ t \in Seq(FrameSet) /\ Len(t) = n /\ \A m \in 1 .. n : t[m] = fs[m]
  BY <1>1
<1>3. /\ w \in [0 .. l -> Places(c, S)]
      /\ \A m \in 1 .. l : w[m] = Behind(c, S, w[m - 1]) /\ fs[m] = FrameOf(c, S, w[m])
  BY <1>1 DEF Travels
<1> HIDE DEF t, l
<1>4. v \in [0 .. Len(t) -> Places(c, S)] /\ \A m \in 0 .. n : v[m] = w[m]
  <2>1. \A m \in 0 .. n : m \in 0 .. l
    BY ONLY <1>2
  <2> QED
    BY ONLY <1>2, <1>3, <2>1
<1> HIDE DEF v
<1>5. \A m \in 1 .. Len(t) : v[m] = Behind(c, S, v[m - 1]) /\ t[m] = FrameOf(c, S, v[m])
  <2> TAKE m \in 1 .. Len(t)
  <2>1. m \in 1 .. n /\ m \in 0 .. n /\ m - 1 \in 0 .. n /\ m \in 1 .. l
    BY ONLY <1>2, m \in 1 .. Len(t)
  <2> QED
    BY ONLY <1>2, <1>3, <1>4, <2>1
<1>6. Travels(c, S, v, t)
  BY ONLY <1>4, <1>5 DEF Travels
<1>7. v[0] = w[0]
  <2>1. 0 \in 0 .. n
    BY ONLY <1>2
  <2> QED
    BY ONLY <1>4, <2>1
<1>8. Stream(c, S, v, t, gs, bs, FALSE)
  BY ONLY <1>1, <1>2, <1>6, <1>7, Zenon DEF Stream
<1> QED
  BY ONLY <1>8, Zenon DEF t

-----------------------------------------------------------------------------
(* The theorem. *)

\* Nothing was written at first.
LEMMA InitStream == CodecInit => CodecInv
<1> SUFFICES ASSUME CodecInit PROVE CodecInv
  OBVIOUS
<1> DEFINE q == [k |-> 0, i |-> 1]
           w == [n \in 0 .. 0 |-> q]
<1>1. /\ chunk \in ChunkSizes /\ sent = <<>> /\ wire = <<>> /\ frags = <<>> /\ decoded = <<>> /\ open = TRUE
  BY DEF CodecInit
<1>2. sent \in Seq(PacketLengths) /\ <<>> \in Seq(FrameSet) /\ <<>> \in Seq(Seq(Bytes)) /\ Len(<<>>) = 0
  BY <1>1
<1>3. q \in [k : Nat, i : Nat] /\ q.k = 0 /\ q.i = 1 /\ FramesOf(chunk, <<>>, 0) = 1
  BY DEF FramesOf
<1>4. q \in Places(chunk, <<>>)
  <2> HIDE DEF q
  <2> QED
    BY <1>2, <1>3 DEF Places
<1>5. EndOf(chunk, <<>>) = q
  BY <1>2, <1>3 DEF EndOf
<1> HIDE DEF q
<1>6. w[0] = q /\ w \in [0 .. 0 -> Places(chunk, <<>>)]
  BY <1>4
<1> HIDE DEF w
<1>7. Travels(chunk, <<>>, w, <<>>)
  <2>1. 1 .. 0 = {}
    OBVIOUS
  <2> QED
    BY ONLY <1>2, <1>6, <2>1 DEF Travels
<1>8. Collected(chunk, <<>>, q, <<>>)
  BY ONLY <1>2, <1>3 DEF Collected, Returned
<1>9. Passed(chunk, <<>>, q) = 0
  BY ONLY <1>3 DEF Passed
<1>10. Only(<<>>, Pure) = <<>>
  BY OnlyNone
<1>11. FirstClear(chunk, <<>>, 0) = <<>>
  <2>1. UpTo(0) = <<>>
    BY DEF UpTo
  <2>2. Only(<<>>, ClearOf(chunk, <<>>)) = <<>>
    BY OnlyNone
  <2>3. PayloadAt(<<>>, <<>>) = <<>>
    BY DEF PayloadAt
  <2> QED
    BY ONLY <2>1, <2>2, <2>3 DEF FirstClear
<1>12. Stream(chunk, <<>>, w, <<>>, <<>>, <<>>, TRUE)
  BY ONLY <1>2, <1>5, <1>6, <1>7, <1>8, <1>9, <1>10, <1>11 DEF Stream
<1> QED
  BY ONLY <1>1, <1>2, <1>12, Zenon DEF CodecInv

\* Every step keeps the invariant.
LEMMA NextStream == CodecInv /\ [CodecNext]_codecVars => CodecInv'
<1> SUFFICES ASSUME CodecInv, [CodecNext]_codecVars PROVE CodecInv'
  OBVIOUS
<1>0. /\ chunk \in ChunkSizes /\ sent \in Seq(PacketLengths)
      /\ \E w : Stream(chunk, sent, w, wire, frags, decoded, open)
  BY DEF CodecInv
<1>1. PICK w : Stream(chunk, sent, w, wire, frags, decoded, open)
  BY <1>0
<1>2. CASE UNCHANGED codecVars
  <2>1. /\ chunk' = chunk /\ sent' = sent /\ wire' = wire /\ frags' = frags
        /\ decoded' = decoded /\ open' = open
    BY <1>2 DEF codecVars
  <2> QED
    BY ONLY <1>0, <2>1, Zenon DEF CodecInv
<1>3. ASSUME NEW len \in PacketLengths, Write(len) PROVE CodecInv'
  <2>1. /\ open /\ sent' = Append(sent, len) /\ wire' = wire \o Prepared(chunk, Len(sent) + 1, len)
        /\ chunk' = chunk /\ frags' = frags /\ decoded' = decoded /\ open' = open
    BY <1>3 DEF Write
  <2>2. open \in BOOLEAN
    BY ONLY <1>1 DEF Stream
  <2>3. open = TRUE
    BY ONLY <2>1, <2>2
  <2>4. Stream(chunk, sent, w, wire, frags, decoded, TRUE)
    BY ONLY <1>1, <2>3
  <2>5. \E v : Stream(chunk, Append(sent, len), v, wire \o Prepared(chunk, Len(sent) + 1, len),
                      frags, decoded, TRUE)
    BY ONLY <1>0, <2>4, StreamWrite, len \in PacketLengths, Zenon
  <2>6. Append(sent, len) \in Seq(PacketLengths)
    BY <1>0
  <2>7. open' = TRUE
    BY ONLY <2>1, <2>3
  <2> QED
    BY ONLY <1>0, <2>1, <2>5, <2>6, <2>7, Zenon DEF CodecInv
<1>4. CASE Cut
  <2>1. /\ open' = FALSE /\ chunk' = chunk /\ sent' = sent /\ frags' = frags /\ decoded' = decoded
        /\ \E n \in 0 .. Len(wire) : wire' = SubSeq(wire, 1, n)
    BY <1>4 DEF Cut
  <2>2. PICK n \in 0 .. Len(wire) : wire' = SubSeq(wire, 1, n)
    BY <2>1
  <2>3. \E v : Stream(chunk, sent, v, SubSeq(wire, 1, n), frags, decoded, FALSE)
    BY ONLY <1>1, StreamCut, n \in 0 .. Len(wire), Zenon
  <2> QED
    BY ONLY <1>0, <2>1, <2>2, <2>3, Zenon DEF CodecInv
<1>5. CASE ReadFrame
  <2> DEFINE fs == Append(frags, Head(wire))
  <2>1. /\ wire # <<>> /\ wire' = Tail(wire) /\ chunk' = chunk /\ sent' = sent /\ open' = open
        /\ Head(wire).final =>
              (\E gs \in Sorted(fs) : decoded' = Append(decoded, Joined(gs))) /\ frags' = <<>>
        /\ ~Head(wire).final => frags' = fs /\ decoded' = decoded
    BY <1>5, Zenon DEF ReadFrame
  <2>2. PICK v : /\ ~Head(wire).final => Stream(chunk, sent, v, Tail(wire), fs, decoded, open)
                 /\ Head(wire).final =>
                       \A hs \in Sorted(fs) :
                          Stream(chunk, sent, v, Tail(wire), <<>>, Append(decoded, Joined(hs)), open)
    BY ONLY <1>0, <1>1, <2>1, StreamRead, Zenon
  <2> HIDE DEF fs
  <2>3. Stream(chunk, sent, v, wire', frags', decoded', open)
    <3>1. CASE Head(wire).final
      <4>1. PICK gs \in Sorted(fs) : decoded' = Append(decoded, Joined(gs))
        BY ONLY <2>1, <3>1, Zenon
      <4>2. Stream(chunk, sent, v, Tail(wire), <<>>, Append(decoded, Joined(gs)), open)
        BY ONLY <2>2, <3>1, gs \in Sorted(fs), Zenon
      <4> QED
        BY ONLY <2>1, <3>1, <4>1, <4>2, Zenon
    <3>2. CASE ~Head(wire).final
      BY ONLY <2>1, <2>2, <3>2, Zenon
    <3> QED
      BY ONLY <3>1, <3>2
  <2> QED
    BY ONLY <1>0, <2>1, <2>3, Zenon DEF CodecInv
<1>6. CASE Finished
  <2>1. UNCHANGED codecVars
    BY <1>6 DEF Finished
  <2> QED
    BY <1>2, <2>1
<1> QED
  BY <1>2, <1>3, <1>4, <1>5, <1>6 DEF CodecNext

\* What the property says follows from where the decoder is.
LEMMA StreamIsSent == CodecInv => DecodedIsSent
<1> SUFFICES ASSUME CodecInv PROVE DecodedIsSent
  OBVIOUS
<1>0. /\ chunk \in ChunkSizes /\ sent \in Seq(PacketLengths)
      /\ \E w : Stream(chunk, sent, w, wire, frags, decoded, open)
  BY DEF CodecInv
<1>1. PICK w : Stream(chunk, sent, w, wire, frags, decoded, open)
  BY <1>0
<1> DEFINE q == w[0]
           n == Passed(chunk, sent, q)
<1>2. /\ decoded \in Seq(Seq(Bytes)) /\ wire \in Seq(FrameSet) /\ Travels(chunk, sent, w, wire)
      /\ (open => w[Len(wire)] = EndOf(chunk, sent))
      /\ Only(decoded, Pure) = FirstClear(chunk, sent, n)
  BY ONLY <1>1 DEF Stream
<1>3. sent \in Seq(Nat) /\ Len(sent) \in Nat /\ DOMAIN sent = 1 .. Len(sent)
  BY <1>0, LengthsAreNumbers
<1>4. q \in Places(chunk, sent)
  <2>1. 0 \in 0 .. Len(wire) /\ w \in [0 .. Len(wire) -> Places(chunk, sent)]
    BY <1>2 DEF Travels
  <2> QED
    BY ONLY <2>1
<1> HIDE DEF q
<1>5. n \in 0 .. Len(sent)
  <2> DEFINE m == FramesOf(chunk, sent, q.k)
  <2>1. q.k \in 0 .. Len(sent) /\ m \in Nat /\ q.i \in 1 .. m /\ (q.k = 0 => m = 1)
    BY ONLY <1>0, <1>4, PlaceIs
  <2>2. n = IF q.i = m THEN q.k ELSE q.k - 1
    BY DEF Passed
  <2> HIDE DEF m, n
  <2> QED
    BY ONLY <1>3, <2>1, <2>2
<1> HIDE DEF n
<1>6. Unmixed = Only(decoded, Pure)
  <2>1. \A k \in DOMAIN decoded : decoded[k] \in OfOne <=> decoded[k] \in Pure
    <3> TAKE k \in DOMAIN decoded
    <3>1. decoded[k] \in Seq(Bytes)
      BY <1>2
    <3>2. decoded[k] \in ToSet(decoded)
      BY DEF ToSet
    <3> QED
      BY ONLY <3>1, <3>2 DEF OfOne, Pure
  <2> QED
    BY ONLY <2>1, OnlyAgree DEF Unmixed
<1>7. ClearPayloads = FirstClear(chunk, sent, Len(sent))
  <2>1. Clear = ClearOf(chunk, sent)
    <3>1. \A k \in 1 .. Len(sent) : k > 1 <=> k # 1
      BY <1>3
    <3>2. \A k \in 1 .. Len(sent) :
             (k > 1 => ~Endless(chunk, sent[k - 1])) <=> Starts(chunk, sent, k)
      BY ONLY <3>1 DEF Starts
    <3> QED
      BY ONLY <1>3, <3>2 DEF Clear, ClearOf
  <2>2. [k \in DOMAIN sent |-> k] = UpTo(Len(sent))
    BY ONLY <1>3 DEF UpTo
  <2> QED
    BY ONLY <2>1, <2>2 DEF ClearPayloads, FirstClear, PayloadAt
<1>8. IsPrefix(Unmixed, ClearPayloads)
  <2>1. IsPrefix(FirstClear(chunk, sent, n), FirstClear(chunk, sent, Len(sent)))
    BY ONLY <1>3, <1>5, FirstClearPrefix
  <2> QED
    BY ONLY <1>2, <1>6, <1>7, <2>1
<1>9. ASSUME wire = <<>>, open PROVE Unmixed = ClearPayloads
  <2>1. q = EndOf(chunk, sent)
    <3>1. Len(wire) = 0
      BY <1>9
    <3> QED
      BY ONLY <1>2, <1>9, <3>1 DEF q
  <2>2. q.k = Len(sent) /\ q.i = FramesOf(chunk, sent, Len(sent))
    BY ONLY <2>1 DEF EndOf
  <2>3. n = Len(sent)
    BY ONLY <2>2 DEF n, Passed
  <2> QED
    BY ONLY <1>2, <1>6, <1>7, <2>3
<1> QED
  BY ONLY <1>8, <1>9 DEF DecodedIsSent

\* What DecodePacket returns is what the replay command wrote, byte for byte and in
\* order, wherever the connection ends: for every set of lengths and of chunk sizes.
THEOREM DecodesRight == CodecSpec => []DecodedIsSent
<1>1. CodecInit => CodecInv
  BY InitStream
<1>2. CodecInv /\ [CodecNext]_codecVars => CodecInv'
  BY NextStream
<1>3. CodecInv => DecodedIsSent
  BY StreamIsSent
<1> QED
  BY <1>1, <1>2, <1>3, PTL DEF CodecSpec

=============================================================================
