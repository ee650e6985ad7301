---------------------------- MODULE ListenProofs ----------------------------
(***************************************************************************)
(* Proofs about the listen command: about its pipeline (Listen), for any   *)
(* number of connections and frames and any sizes of the queues, and about *)
(* its file store (FileStore), for any packets, any faults and any number  *)
(* of calls of Store.                                                      *)
(***************************************************************************)
EXTENDS Listen, FileStore, FiniteSetTheorems, TLAPS

-----------------------------------------------------------------------------
(* Facts about sequences. *)

\* The rest of a queue.
LEMMA TailType ==
    ASSUME NEW S, NEW s \in Seq(S), s # <<>>
    PROVE  /\ Head(s) \in S
           /\ Tail(s) \in Seq(S)
           /\ Len(Tail(s)) = Len(s) - 1
  OBVIOUS

\* A queue with one more element.
LEMMA AppendType ==
    ASSUME NEW S, NEW s \in Seq(S), NEW x \in S
    PROVE  /\ Append(s, x) \in Seq(S)
           /\ Len(Append(s, x)) = Len(s) + 1
  OBVIOUS

\* An element of a queue.
LEMMA ElemType ==
    ASSUME NEW S, NEW s \in Seq(S), NEW i \in DOMAIN s
    PROVE  s[i] \in S
  OBVIOUS

\* What is in a queue whose head was received.
LEMMA ElemsTail ==
    ASSUME NEW S, NEW s \in Seq(S), s # <<>>
    PROVE  /\ Head(s) \in Elems(s)
           /\ Elems(Tail(s)) \subseteq Elems(s)
  BY DEF Elems

\* What is in a queue after a send.
LEMMA ElemsAppend ==
    ASSUME NEW S, NEW s \in Seq(S), NEW x
    PROVE  Elems(Append(s, x)) = Elems(s) \cup {x}
  BY DEF Elems

-----------------------------------------------------------------------------
(* Type correctness. *)

\* Types at first.
LEMMA TypeInit == Init => TypeOK
<1>1. /\ <<>> \in Seq(Frame) /\ <<>> \in Seq(1 .. MaxFrames)
      /\ Len(<<>>) = 0
  OBVIOUS
<1>2. 0 \in 0 .. MaxFrames /\ 0 <= Size /\ 0 <= Buffer /\ 0 <= PoolCap
  BY ListenAssumption
<1> QED
  BY <1>1, <1>2 DEF Init, TypeOK

\* Every step keeps the types and the capacities of the queues.
LEMMA TypeStep == TypeOK /\ [Next]_vars => TypeOK'
<1> SUFFICES ASSUME TypeOK, [Next]_vars PROVE TypeOK'
  OBVIOUS
<1> USE ListenAssumption
<1> USE DEF inVars, convVars, mainVars, outVars
<1>1. ASSUME NEW c \in Conns, Accept(c) PROVE TypeOK'
  BY <1>1 DEF TypeOK, Accept
<1>2. ASSUME NEW c \in Conns, ReadPacket(c) PROVE TypeOK'
  <2>1. <<c, pos[c] + 1>> \in Frame /\ pos[c] + 1 \in 0 .. MaxFrames
    BY <1>2 DEF TypeOK, ReadPacket, Frame
  <2>2. \/ dec' = [dec EXCEPT ![c] = {<<c, pos[c] + 1>>}] /\ rejected' = rejected
        \/ rejected' = rejected \cup {<<c, pos[c] + 1>>} /\ dec' = dec
    BY <1>2, Zenon DEF ReadPacket
  <2>3. dec' \in [Conns -> SUBSET Frame] /\ rejected' \subseteq Frame
    BY <2>1, <2>2 DEF TypeOK
  <2> QED
    BY <1>2, <2>1, <2>3 DEF TypeOK, ReadPacket
<1>3. ASSUME NEW c \in Conns, ReadFailure(c) PROVE TypeOK'
  <2>1. <<c, pos[c] + 1>> \in Frame /\ pos[c] + 1 \in 0 .. MaxFrames
    BY <1>3 DEF TypeOK, ReadFailure, Frame
  <2> QED
    BY <1>3, <2>1 DEF TypeOK, ReadFailure
<1>4. ASSUME NEW c \in Conns, ReadEnd(c) PROVE TypeOK'
  BY <1>4 DEF TypeOK, ReadEnd
<1>5. ASSUME NEW c \in Conns, HandlerRecv(c) PROVE TypeOK'
  BY <1>5 DEF TypeOK, HandlerRecv
<1>6. ASSUME NEW c \in Conns, HandlerSend(c) PROVE TypeOK'
  <2>1. PICK x \in hand[c] : q' = Append(q, x)
    BY <1>6 DEF HandlerSend
  <2>2. q' \in Seq(Frame) /\ Len(q') <= Size
    BY <1>6, <2>1, AppendType DEF TypeOK, HandlerSend
  <2> QED
    BY <1>6, <2>2 DEF TypeOK, HandlerSend
<1>7. ASSUME NEW c \in Conns, HandlerPanic(c) PROVE TypeOK'
  BY <1>7 DEF TypeOK, HandlerPanic
<1>8. ASSUME NEW c \in Conns, HandlerClose(c) PROVE TypeOK'
  BY <1>8 DEF TypeOK, HandlerClose
<1>9. CASE AcceptFail
  BY <1>9 DEF TypeOK, AcceptFail
<1>10. CASE ConvertRecv
  BY <1>10, TailType DEF TypeOK, ConvertRecv
<1>11. CASE ConvertError
  BY <1>11, TailType DEF TypeOK, ConvertError
<1>12. CASE ConvertSend
  <2>1. PICK x \in conv : iq' = Append(iq, x)
    BY <1>12 DEF ConvertSend
  <2>2. iq' \in Seq(Frame) /\ Len(iq') <= Buffer
    BY <1>12, <2>1, AppendType DEF TypeOK, ConvertSend
  <2> QED
    BY <1>12, <2>2 DEF TypeOK, ConvertSend
<1>13. CASE ConvertHandOff
  BY <1>13 DEF TypeOK, ConvertHandOff
<1>14. CASE ConvertSkip
  BY <1>14 DEF TypeOK, ConvertSkip
<1>15. CASE ConvertReturn
  BY <1>15 DEF TypeOK, ConvertReturn
<1>16. CASE MainRecv
  BY <1>16, TailType DEF TypeOK, MainRecv
<1>17. CASE MainStore
  <2>1. PICK x \in item : tried' = [tried EXCEPT ![x[1]] = Append(@, x[2])]
    BY <1>17 DEF MainStore
  <2>2. x[1] \in Conns /\ x[2] \in 1 .. MaxFrames
    BY DEF TypeOK, Frame
  <2>3. Append(tried[x[1]], x[2]) \in Seq(1 .. MaxFrames)
    BY <2>2, AppendType DEF TypeOK
  <2>4. tried' \in [Conns -> Seq(1 .. MaxFrames)]
    BY <2>1, <2>2, <2>3 DEF TypeOK
  <2> QED
    BY <1>17, <2>4 DEF TypeOK, MainStore
<1>18. CASE MainNotify
  <2>1. \/ pq' = pq
        \/ Len(pq) < PoolCap /\ \E x \in item : pq' = Append(pq, x)
    BY <1>18 DEF MainNotify
  <2>2. pq' \in Seq(Frame) /\ Len(pq') <= PoolCap
    <3>1. CASE pq' = pq
      BY <3>1 DEF TypeOK
    <3>2. ASSUME Len(pq) < PoolCap, NEW x \in item, pq' = Append(pq, x)
          PROVE  pq' \in Seq(Frame) /\ Len(pq') <= PoolCap
      <4>1. x \in Frame /\ pq \in Seq(Frame)
        BY DEF TypeOK
      <4> QED
        BY <3>2, <4>1, AppendType
    <3> QED
      BY <2>1, <3>1, <3>2
  <2> QED
    BY <1>18, <2>2 DEF TypeOK, MainNotify
<1>19. CASE MainQueue
  <2>1. /\ \/ mq' = mq
           \/ Len(mq) < Buffer /\ \E x \in item : mq' = Append(mq, x)
        /\ mod' \in {mod, "busy"}
    BY <1>19 DEF MainQueue
  <2>2. mq' \in Seq(Frame) /\ Len(mq') <= Buffer
    <3>1. CASE mq' = mq
      BY <3>1 DEF TypeOK
    <3>2. ASSUME Len(mq) < Buffer, NEW x \in item, mq' = Append(mq, x)
          PROVE  mq' \in Seq(Frame) /\ Len(mq') <= Buffer
      <4>1. x \in Frame /\ mq \in Seq(Frame)
        BY DEF TypeOK
      <4> QED
        BY <3>2, <4>1, AppendType
    <3> QED
      BY <2>1, <3>1, <3>2
  <2> QED
    BY <1>19, <2>1, <2>2 DEF TypeOK, MainQueue
<1>20. CASE MainReturn
  BY <1>20 DEF TypeOK, MainReturn
<1>21. CASE PoolRecv
  BY <1>21, TailType DEF TypeOK, PoolRecv
<1>22. CASE ModuleRecv
  BY <1>22, TailType DEF TypeOK, ModuleRecv
<1>23. CASE ModuleDone
  BY <1>23 DEF TypeOK, ModuleDone
<1>24. CASE UNCHANGED vars
  BY <1>24 DEF TypeOK, vars
<1> QED
  BY <1>1, <1>2, <1>3, <1>4, <1>5, <1>6, <1>7, <1>8, <1>9, <1>10, <1>11,
     <1>12, <1>13, <1>14, <1>15, <1>16, <1>17, <1>18, <1>19, <1>20, <1>21,
     <1>22, <1>23, <1>24
     DEF Next, HandlerStep, ConvertStep, MainStep, Stopped

\* The variables keep their types and the queues their capacities, for every
\* number of connections and frames and every size of the queues.
THEOREM TypeCorrect == Spec => []TypeOK
  BY TypeInit, TypeStep, PTL DEF Spec

-----------------------------------------------------------------------------
(* The inductive invariant.  StoredInOrder alone is not inductive: that the  *)
(* next packet to be stored comes after the stored ones depends on how the   *)
(* packets upstream are ordered.  The invariant says that every stage of the *)
(* pipeline is behind the stages downstream of it.                           *)

\* Of two packets of one connection the one in A was sent first.
Precedes(A, B) == \A x \in A, y \in B : x[1] = y[1] => x[2] < y[2]

Ascending(s) ==
    \A i, j \in DOMAIN s : i < j /\ s[i][1] = s[j][1] => s[i][2] < s[j][2]

InMain == IF pc = "store" THEN item ELSE {}

\* The packets that have passed a stage or are in it.
FromMain == Tried \cup InMain
FromIq   == FromMain \cup Elems(iq)
FromConv == FromIq \cup conv
FromQ    == FromConv \cup Elems(q)

\* A goroutine holds at most one packet, and a decoder or handler one of its
\* own connection.
Single ==
    /\ \A x, y \in conv : x = y
    /\ \A x, y \in item : x = y
    /\ pc = "recv" <=> item = {}
    /\ \A c \in Conns : \A x, y \in dec[c] : x = y /\ x[1] = c
    /\ \A c \in Conns : \A x, y \in hand[c] : x = y /\ x[1] = c

Staged ==
    /\ Precedes(Tried, InMain)
    /\ Precedes(FromMain, Elems(iq))
    /\ Precedes(FromIq, conv)
    /\ Precedes(FromConv, Elems(q))
    /\ Ascending(iq)
    /\ Ascending(q)
    /\ \A c \in Conns : Precedes(FromQ, hand[c])
    /\ \A c \in Conns : Precedes(FromQ \cup hand[c], dec[c])
    /\ \A x \in FromQ : x[2] <= pos[x[1]]
    /\ \A c \in Conns : \A x \in dec[c] \cup hand[c] : x[2] <= pos[c]

OrderInv == TypeOK /\ Single /\ Staged /\ StoredInOrder

\* How the channels are closed one after the other.
CloseInv ==
    /\ iqClosed => ~accepting /\ q = <<>> /\ conv = {}
    /\ proc = "exited" => iqClosed /\ iq = <<>> /\ item = {}

AnnounceInv ==
    /\ AnnouncedAfterStore
    /\ pc \in {"notify", "queue"} => item \subseteq Tried

-----------------------------------------------------------------------------
(* Order. *)

\* A queue stays ascending when a later packet is sent to it.
LEMMA AscendingAppend ==
    ASSUME NEW s \in Seq(Frame), NEW x \in Frame,
           Ascending(s), Precedes(Elems(s), {x})
    PROVE  Ascending(Append(s, x))
<1>1. /\ DOMAIN Append(s, x) = 1 .. Len(s) + 1
      /\ DOMAIN s = 1 .. Len(s)
      /\ Len(s) \in Nat
      /\ \A i \in DOMAIN s : Append(s, x)[i] = s[i] /\ s[i] \in Elems(s)
      /\ Append(s, x)[Len(s) + 1] = x
  BY DEF Elems
<1> SUFFICES ASSUME NEW i \in 1 .. Len(s) + 1, NEW j \in 1 .. Len(s) + 1, i < j,
                    Append(s, x)[i][1] = Append(s, x)[j][1]
             PROVE  Append(s, x)[i][2] < Append(s, x)[j][2]
  BY <1>1 DEF Ascending
<1>2. i \in DOMAIN s
  BY <1>1
<1>3. CASE j \in DOMAIN s
  BY <1>1, <1>2, <1>3 DEF Ascending
<1>4. CASE j = Len(s) + 1
  BY <1>1, <1>2, <1>4 DEF Precedes
<1> QED
  BY <1>1, <1>3, <1>4

\* A queue stays ascending when its head is received.
LEMMA AscendingTail ==
    ASSUME NEW s \in Seq(Frame), s # <<>>, Ascending(s)
    PROVE  /\ Ascending(Tail(s))
           /\ Precedes({Head(s)}, Elems(Tail(s)))
           /\ Elems(s) = {Head(s)} \cup Elems(Tail(s))
<1>1. Len(s) \in Nat \ {0} /\ Len(Tail(s)) = Len(s) - 1 /\ Head(s) = s[1]
      /\ \A i \in DOMAIN Tail(s) : i + 1 \in DOMAIN s /\ Tail(s)[i] = s[i + 1]
  OBVIOUS
<1>2. Ascending(Tail(s))
  BY <1>1 DEF Ascending
<1>3. Precedes({Head(s)}, Elems(Tail(s)))
  BY <1>1 DEF Ascending, Precedes, Elems
<1>4. Elems(s) = {Head(s)} \cup Elems(Tail(s))
  <2>1. \A i \in DOMAIN s : i # 1 => i - 1 \in DOMAIN Tail(s)
    BY <1>1
  <2> QED
    BY <1>1, <2>1 DEF Elems
<1> QED
  BY <1>2, <1>3, <1>4

\* A step that moves no packet between decoder and storage.
LEMMA OrderIdle ==
    ASSUME OrderInv, TypeOK', \A c \in Conns : pos[c] <= pos'[c],
           UNCHANGED <<dec, hand, q, conv, iq, pc, item, tried>>
    PROVE  OrderInv'
<1>1. StoredInOrder' /\ Single'
  BY DEF OrderInv, StoredInOrder, Single
<1>2. /\ Tried' = Tried /\ InMain' = InMain /\ FromMain' = FromMain
      /\ FromIq' = FromIq /\ FromConv' = FromConv /\ FromQ' = FromQ
  BY DEF Tried, InMain, FromMain, FromIq, FromConv, FromQ
<1>3. FromQ \subseteq Frame
  BY DEF OrderInv, TypeOK, FromQ, FromConv, FromIq, FromMain, InMain, Tried, Elems
<1>4. \A x \in FromQ : x[2] <= pos'[x[1]]
  BY <1>3 DEF OrderInv, Staged, TypeOK, Frame
<1>5. \A c \in Conns : \A x \in dec[c] \cup hand[c] : x[2] <= pos'[c]
  BY DEF OrderInv, Staged, TypeOK, Frame
<1> QED
  BY <1>1, <1>2, <1>4, <1>5 DEF OrderInv, Staged, Ascending, Elems

\* What the stages are made of.
LEMMA StageTypes ==
    ASSUME TypeOK
    PROVE  /\ Tried \subseteq Frame /\ InMain \subseteq Frame
           /\ Elems(iq) \subseteq Frame /\ conv \subseteq Frame
           /\ Elems(q) \subseteq Frame
           /\ \A c \in Conns : dec[c] \subseteq Frame /\ hand[c] \subseteq Frame
  BY DEF TypeOK, InMain, Tried, Elems

\* The store step adds the packet in the loop to the stored ones.
LEMMA TriedStore ==
    ASSUME OrderInv, NEW x \in item,
           tried' = [tried EXCEPT ![x[1]] = Append(@, x[2])]
    PROVE  Tried' = Tried \cup {x}
<1>1. x \in Frame /\ x[1] \in Conns /\ x[2] \in 1 .. MaxFrames
      /\ x = <<x[1], x[2]>>
  BY DEF OrderInv, TypeOK, Frame
<1>2. tried \in [Conns -> Seq(1 .. MaxFrames)]
  BY DEF OrderInv, TypeOK
<1>3. Elems(tried'[x[1]]) = Elems(tried[x[1]]) \cup {x[2]}
  BY <1>1, <1>2, ElemsAppend
<1>4. \A c \in Conns : c # x[1] => tried'[c] = tried[c]
  BY <1>1, <1>2
<1>5. \A y \in Frame : y[1] \in Conns /\ y = <<y[1], y[2]>>
  BY DEF Frame
<1> QED
  BY <1>1, <1>3, <1>4, <1>5 DEF Tried

\* Every step keeps the order of the stages.
LEMMA OrderStep == OrderInv /\ [Next]_vars => OrderInv'
<1> SUFFICES ASSUME OrderInv, [Next]_vars PROVE OrderInv'
  OBVIOUS
<1>0. TypeOK /\ TypeOK'
  BY TypeStep DEF OrderInv
<1> USE DEF inVars, convVars, mainVars, outVars
<1>a. /\ Tried \subseteq Frame /\ InMain \subseteq Frame
      /\ Elems(iq) \subseteq Frame /\ conv \subseteq Frame
      /\ Elems(q) \subseteq Frame
      /\ \A c \in Conns : dec[c] \subseteq Frame /\ hand[c] \subseteq Frame
  BY <1>0, StageTypes
<1>b. \A x \in Frame : x[1] \in Conns /\ x[2] \in 1 .. MaxFrames
  BY DEF Frame
<1>c. \A c \in Conns : pos[c] \in Nat
  BY <1>0, ListenAssumption DEF TypeOK
<1>1. ASSUME NEW c \in Conns, Accept(c) PROVE OrderInv'
  BY <1>0, <1>1, <1>c, OrderIdle DEF Accept
<1>2. ASSUME NEW c \in Conns, ReadPacket(c) PROVE OrderInv'
  <2> DEFINE new == <<c, pos[c] + 1>>
  <2>1. pos' = [pos EXCEPT ![c] = pos[c] + 1] /\ pos \in [Conns -> 0 .. MaxFrames]
    BY <1>0, <1>2 DEF ReadPacket, TypeOK
  <2>2. \A d \in Conns : pos[d] <= pos'[d]
    BY <1>c, <2>1
  <2>3. UNCHANGED <<hand, q, conv, iq, pc, item, tried>>
    BY <1>2 DEF ReadPacket
  <2>4. dec' = dec \/ (dec[c] = {} /\ dec' = [dec EXCEPT ![c] = {new}])
    BY <1>2, Zenon DEF ReadPacket, Reading
  <2>5. CASE dec' = dec
    BY <1>0, <2>2, <2>3, <2>5, OrderIdle
  <2>6. CASE dec[c] = {} /\ dec' = [dec EXCEPT ![c] = {new}]
    <3>1. /\ Tried' = Tried /\ InMain' = InMain /\ FromMain' = FromMain
          /\ FromIq' = FromIq /\ FromConv' = FromConv /\ FromQ' = FromQ
          /\ Elems(q)' = Elems(q) /\ Elems(iq)' = Elems(iq)
      BY <2>3 DEF Tried, InMain, FromMain, FromIq, FromConv, FromQ
    <3>2. dec'[c] = {new} /\ \A d \in Conns : d # c => dec'[d] = dec[d]
      BY <1>0, <2>6 DEF TypeOK
    <3>3. StoredInOrder'
      BY <2>3 DEF OrderInv, StoredInOrder
    <3>4. Single'
      BY <2>3, <3>2 DEF OrderInv, Single
    <3>5. FromQ \subseteq Frame
      BY <1>a DEF FromQ, FromConv, FromIq, FromMain
    <3>6. \A x \in FromQ : x[2] <= pos[x[1]]
      BY DEF OrderInv, Staged
    <3>7. \A d \in Conns : \A x \in dec[d] \cup hand[d] : x[2] <= pos[d] /\ x[1] = d
      BY DEF OrderInv, Staged, Single
    <3>8. Precedes(FromQ \cup hand[c], {new})
      BY <1>a, <1>b, <1>c, <3>5, <3>6, <3>7 DEF Precedes
    <3>9. \A d \in Conns : Precedes(FromQ \cup hand[d], dec'[d])
      BY <3>2, <3>8 DEF OrderInv, Staged
    <3>10. \A x \in FromQ : x[2] <= pos'[x[1]]
      BY <1>b, <1>c, <2>1, <2>2, <3>5, <3>6
    <3>11. \A d \in Conns : \A x \in dec'[d] \cup hand[d] : x[2] <= pos'[d]
      BY <1>a, <1>b, <1>c, <2>1, <2>2, <3>2, <3>7
    <3>12. Staged'
      BY <2>3, <3>1, <3>9, <3>10, <3>11 DEF OrderInv, Staged, Ascending
    <3> QED
      BY <1>0, <3>3, <3>4, <3>12 DEF OrderInv
  <2> QED
    BY <2>4, <2>5, <2>6
<1>3. ASSUME NEW c \in Conns, ReadFailure(c) PROVE OrderInv'
  <2>1. \A d \in Conns : pos[d] <= pos'[d]
    BY <1>0, <1>3, <1>c DEF ReadFailure, TypeOK
  <2> QED
    BY <1>0, <1>3, <2>1, OrderIdle DEF ReadFailure
<1>4. ASSUME NEW c \in Conns, ReadEnd(c) PROVE OrderInv'
  BY <1>0, <1>4, <1>c, OrderIdle DEF ReadEnd
<1>5. ASSUME NEW c \in Conns, HandlerRecv(c) PROVE OrderInv'
  <2>1. UNCHANGED <<q, conv, iq, pc, item, tried, pos>>
    BY <1>5 DEF HandlerRecv
  <2>2. /\ Tried' = Tried /\ InMain' = InMain /\ FromMain' = FromMain
        /\ FromIq' = FromIq /\ FromConv' = FromConv /\ FromQ' = FromQ
        /\ Elems(q)' = Elems(q) /\ Elems(iq)' = Elems(iq)
    BY <2>1 DEF Tried, InMain, FromMain, FromIq, FromConv, FromQ
  <2>3. /\ hand'[c] = dec[c] /\ dec'[c] = {}
        /\ \A d \in Conns : d # c => dec'[d] = dec[d] /\ hand'[d] = hand[d]
    BY <1>0, <1>5 DEF TypeOK, HandlerRecv
  <2>4. StoredInOrder'
    BY <2>1 DEF OrderInv, StoredInOrder
  <2>5. Single'
    BY <2>1, <2>3 DEF OrderInv, Single
  <2>6. \A d \in Conns : /\ Precedes(FromQ, hand'[d])
                         /\ Precedes(FromQ \cup hand'[d], dec'[d])
    BY <2>3 DEF OrderInv, Staged, Precedes
  <2>7. \A d \in Conns : \A x \in dec'[d] \cup hand'[d] : x[2] <= pos[d]
    BY <2>3 DEF OrderInv, Staged
  <2>8. Staged'
    BY <2>1, <2>2, <2>6, <2>7 DEF OrderInv, Staged, Ascending
  <2> QED
    BY <1>0, <2>4, <2>5, <2>8 DEF OrderInv
<1>6. ASSUME NEW c \in Conns, HandlerSend(c) PROVE OrderInv'
  <2>1. UNCHANGED <<dec, conv, iq, pc, item, tried, pos>>
    BY <1>6 DEF HandlerSend
  <2>2. PICK x \in hand[c] : q' = Append(q, x)
    BY <1>6 DEF HandlerSend
  <2>3. hand[c] = {x} /\ x \in Frame
    BY <1>a DEF OrderInv, Single
  <2>4. hand'[c] = {} /\ \A d \in Conns : d # c => hand'[d] = hand[d]
    BY <1>0, <1>6 DEF TypeOK, HandlerSend
  <2>5. Elems(q)' = Elems(q) \cup {x}
    BY <1>0, <2>2, ElemsAppend DEF TypeOK
  <2>6. /\ Tried' = Tried /\ InMain' = InMain /\ FromMain' = FromMain
        /\ FromIq' = FromIq /\ FromConv' = FromConv
        /\ Elems(iq)' = Elems(iq)
    BY <2>1 DEF Tried, InMain, FromMain, FromIq, FromConv
  <2>7. FromQ' = FromQ \cup {x}
    BY <2>5, <2>6 DEF FromQ
  <2>8. StoredInOrder'
    BY <2>1 DEF OrderInv, StoredInOrder
  <2>9. Single'
    BY <2>1, <2>4 DEF OrderInv, Single
  <2>10. Precedes(FromQ, {x})
    BY <2>3 DEF OrderInv, Staged
  <2>11. Ascending(q)'
    BY <1>0, <2>2, <2>3, <2>10, AscendingAppend
       DEF OrderInv, Staged, TypeOK, Precedes, FromQ
  <2>12. Precedes(FromConv, Elems(q)')
    BY <2>5, <2>10 DEF OrderInv, Staged, Precedes, FromQ
  <2>13. \A d \in Conns : /\ Precedes(FromQ \cup {x}, hand'[d])
                          /\ Precedes(FromQ \cup {x} \cup hand'[d], dec[d])
    <3> TAKE d \in Conns
    <3>1. CASE d = c
      BY <2>3, <2>4, <3>1 DEF OrderInv, Staged, Precedes
    <3>2. CASE d # c
      <4>1. \A y \in hand[d] \cup dec[d] : y[1] = d
        BY DEF OrderInv, Single
      <4>2. x[1] = c
        BY DEF OrderInv, Single
      <4> QED
        BY <2>4, <3>2, <4>1, <4>2 DEF OrderInv, Staged, Precedes
    <3> QED
      BY <3>1, <3>2
  <2>14. \A y \in FromQ \cup {x} : y[2] <= pos[y[1]]
    BY <2>3 DEF OrderInv, Staged, Single
  <2>15. \A d \in Conns : \A y \in dec[d] \cup hand'[d] : y[2] <= pos[d]
    BY <2>4 DEF OrderInv, Staged
  <2>16. Ascending(iq)'
    BY <2>1 DEF OrderInv, Staged, Ascending
  <2>17. Staged'
    BY <2>1, <2>6, <2>7, <2>11, <2>12, <2>13, <2>14, <2>15, <2>16
       DEF OrderInv, Staged
  <2> QED
    BY <1>0, <2>8, <2>9, <2>17 DEF OrderInv
<1>7. ASSUME NEW c \in Conns, HandlerPanic(c) PROVE OrderInv'
  BY <1>0, <1>7, <1>c, OrderIdle DEF HandlerPanic
<1>8. ASSUME NEW c \in Conns, HandlerClose(c) PROVE OrderInv'
  BY <1>0, <1>8, <1>c, OrderIdle DEF HandlerClose
<1>9. CASE AcceptFail
  BY <1>0, <1>9, <1>c, OrderIdle DEF AcceptFail
<1>q. ASSUME q # <<>>, q' = Tail(q)
      PROVE  /\ Elems(q) = {Head(q)} \cup Elems(q)'
             /\ Precedes({Head(q)}, Elems(q)')
             /\ Ascending(q)'
             /\ Head(q) \in Frame
  BY <1>0, <1>q, AscendingTail, TailType DEF OrderInv, Staged, TypeOK
<1>10. CASE ConvertRecv
  <2>1. UNCHANGED <<dec, hand, iq, pc, item, tried, pos>>
    BY <1>10 DEF ConvertRecv
  <2>2. conv = {} /\ conv' = {Head(q)} /\ q # <<>> /\ q' = Tail(q)
    BY <1>10 DEF ConvertRecv
  <2>3. /\ Tried' = Tried /\ InMain' = InMain /\ FromMain' = FromMain
        /\ FromIq' = FromIq /\ Elems(iq)' = Elems(iq)
    BY <2>1 DEF Tried, InMain, FromMain, FromIq
  <2>4. FromConv' = FromIq \cup {Head(q)} /\ FromConv = FromIq
    BY <2>2, <2>3 DEF FromConv
  <2>5. FromQ' = FromQ
    BY <1>q, <2>2, <2>4 DEF FromQ
  <2>6. StoredInOrder' /\ Single'
    BY <2>1, <2>2 DEF OrderInv, StoredInOrder, Single
  <2>7. Precedes(FromIq, {Head(q)}) /\ Precedes(FromIq \cup {Head(q)}, Elems(q)')
    BY <1>q, <2>2, <2>4 DEF OrderInv, Staged, Precedes
  <2>8. Ascending(iq)'
    BY <2>1 DEF OrderInv, Staged, Ascending
  <2>9. Staged'
    BY <1>q, <2>1, <2>2, <2>3, <2>4, <2>5, <2>7, <2>8 DEF OrderInv, Staged
  <2> QED
    BY <1>0, <2>6, <2>9 DEF OrderInv
<1>11. CASE ConvertError
  <2>1. UNCHANGED <<dec, hand, conv, iq, pc, item, tried, pos>>
    BY <1>11 DEF ConvertError
  <2>2. q # <<>> /\ q' = Tail(q)
    BY <1>11 DEF ConvertError
  <2>3. /\ Tried' = Tried /\ InMain' = InMain /\ FromMain' = FromMain
        /\ FromIq' = FromIq /\ Elems(iq)' = Elems(iq) /\ FromConv' = FromConv
    BY <2>1 DEF Tried, InMain, FromMain, FromIq, FromConv
  <2>4. FromQ' \subseteq FromQ /\ Elems(q)' \subseteq Elems(q)
    BY <1>q, <2>2, <2>3 DEF FromQ
  <2>5. StoredInOrder' /\ Single'
    BY <2>1 DEF OrderInv, StoredInOrder, Single
  <2>6. Ascending(iq)'
    BY <2>1 DEF OrderInv, Staged, Ascending
  <2>7. /\ Precedes(FromConv, Elems(q)')
        /\ \A c \in Conns : /\ Precedes(FromQ', hand[c])
                            /\ Precedes(FromQ' \cup hand[c], dec[c])
        /\ \A x \in FromQ' : x[2] <= pos[x[1]]
    BY <2>4 DEF OrderInv, Staged, Precedes
  <2>8. Staged'
    BY <1>q, <2>1, <2>2, <2>3, <2>6, <2>7 DEF OrderInv, Staged
  <2> QED
    BY <1>0, <2>5, <2>8 DEF OrderInv
<1>12. CASE ConvertSend
  <2>1. UNCHANGED <<dec, hand, q, pc, item, tried, pos>>
    BY <1>12 DEF ConvertSend
  <2>2. PICK x \in conv : iq' = Append(iq, x)
    BY <1>12 DEF ConvertSend
  <2>3. conv = {x} /\ conv' = {} /\ x \in Frame
    BY <1>a, <1>12 DEF OrderInv, Single, ConvertSend
  <2>4. Elems(iq)' = Elems(iq) \cup {x}
    BY <1>0, <2>2, ElemsAppend DEF TypeOK
  <2>5. /\ Tried' = Tried /\ InMain' = InMain /\ FromMain' = FromMain
        /\ Elems(q)' = Elems(q)
    BY <2>1 DEF Tried, InMain, FromMain
  <2>6. FromIq' = FromIq \cup {x} /\ FromConv' = FromConv /\ FromQ' = FromQ
    BY <2>3, <2>4, <2>5 DEF FromIq, FromConv, FromQ
  <2>7. StoredInOrder' /\ Single'
    BY <2>1, <2>3 DEF OrderInv, StoredInOrder, Single
  <2>8. Precedes(FromIq, {x})
    BY <2>3 DEF OrderInv, Staged
  <2>9. Ascending(iq)' /\ Ascending(q)'
    <3>1. Precedes(Elems(iq), {x})
      BY <2>8 DEF Precedes, FromIq
    <3> QED
      BY <1>0, <2>1, <2>2, <2>3, <3>1, AscendingAppend
         DEF OrderInv, Staged, TypeOK, Ascending
  <2>10. Precedes(FromMain, Elems(iq)') /\ Precedes(FromIq', conv')
    BY <2>3, <2>4, <2>8 DEF OrderInv, Staged, Precedes, FromIq
  <2>11. Staged'
    BY <2>1, <2>5, <2>6, <2>9, <2>10 DEF OrderInv, Staged
  <2> QED
    BY <1>0, <2>7, <2>11 DEF OrderInv
<1>13. CASE ConvertHandOff
  <2>1. UNCHANGED <<dec, hand, q, iq, tried, pos>>
    BY <1>13 DEF ConvertHandOff
  <2>2. /\ pc = "recv" /\ pc' = "store" /\ item' = conv /\ conv' = {}
        /\ Buffer = 0 /\ conv # {}
    BY <1>13 DEF ConvertHandOff
  <2>3. iq = <<>> /\ Elems(iq) = {}
    BY <1>0, <2>2 DEF TypeOK, Elems
  <2>4. /\ Tried' = Tried /\ InMain' = conv /\ InMain = {}
        /\ Elems(q)' = Elems(q) /\ Elems(iq)' = {}
    BY <2>1, <2>2, <2>3 DEF Tried, InMain
  <2>5. /\ FromMain' = FromConv /\ FromIq' = FromConv /\ FromConv' = FromConv
        /\ FromQ' = FromQ /\ FromIq = Tried
    BY <2>2, <2>3, <2>4 DEF FromMain, FromIq, FromConv, FromQ
  <2>6. StoredInOrder' /\ Single'
    BY <2>1, <2>2 DEF OrderInv, StoredInOrder, Single
  <2>7. Ascending(iq)' /\ Ascending(q)'
    BY <2>1 DEF OrderInv, Staged, Ascending
  <2>8. Precedes(Tried, conv)
    BY <2>5 DEF OrderInv, Staged
  <2>9. Precedes(FromMain', Elems(iq)') /\ Precedes(FromIq', conv')
    BY <2>2, <2>4 DEF Precedes
  <2>10. Staged'
    BY <2>1, <2>4, <2>5, <2>7, <2>8, <2>9 DEF OrderInv, Staged
  <2> QED
    BY <1>0, <2>6, <2>10 DEF OrderInv
<1>14. CASE ConvertSkip
  <2>1. UNCHANGED <<dec, hand, q, iq, pc, item, tried, pos>> /\ conv' = {}
    BY <1>14 DEF ConvertSkip
  <2>2. /\ Tried' = Tried /\ InMain' = InMain /\ FromMain' = FromMain
        /\ FromIq' = FromIq /\ Elems(iq)' = Elems(iq) /\ Elems(q)' = Elems(q)
    BY <2>1 DEF Tried, InMain, FromMain, FromIq
  <2>3. FromConv' \subseteq FromConv /\ FromQ' \subseteq FromQ
    BY <2>1, <2>2 DEF FromConv, FromQ
  <2>4. StoredInOrder' /\ Single'
    BY <2>1 DEF OrderInv, StoredInOrder, Single
  <2>5. Ascending(iq)' /\ Ascending(q)'
    BY <2>1 DEF OrderInv, Staged, Ascending
  <2>6. /\ Precedes(FromIq, conv') /\ Precedes(FromConv', Elems(q))
        /\ \A c \in Conns : /\ Precedes(FromQ', hand[c])
                            /\ Precedes(FromQ' \cup hand[c], dec[c])
        /\ \A x \in FromQ' : x[2] <= pos[x[1]]
    BY <2>1, <2>3 DEF OrderInv, Staged, Precedes
  <2>7. Staged'
    BY <2>1, <2>2, <2>5, <2>6 DEF OrderInv, Staged
  <2> QED
    BY <1>0, <2>4, <2>7 DEF OrderInv
<1>15. CASE ConvertReturn
  BY <1>0, <1>15, <1>c, OrderIdle DEF ConvertReturn
<1>16. CASE MainRecv
  <2>1. UNCHANGED <<dec, hand, q, conv, tried, pos>>
    BY <1>16 DEF MainRecv
  <2>2. /\ pc = "recv" /\ pc' = "store" /\ item' = {Head(iq)}
        /\ iq # <<>> /\ iq' = Tail(iq)
    BY <1>16 DEF MainRecv
  <2>3. /\ Elems(iq) = {Head(iq)} \cup Elems(iq)'
        /\ Precedes({Head(iq)}, Elems(iq)')
        /\ Ascending(iq)'
    BY <1>0, <2>2, AscendingTail DEF OrderInv, Staged, TypeOK
  <2>4. /\ Tried' = Tried /\ InMain' = {Head(iq)} /\ InMain = {}
        /\ Elems(q)' = Elems(q)
    BY <2>1, <2>2 DEF Tried, InMain
  <2>5. /\ FromMain' = Tried \cup {Head(iq)} /\ FromMain = Tried
        /\ FromIq' = FromIq
    BY <2>3, <2>4 DEF FromMain, FromIq
  <2>6. FromConv' = FromConv /\ FromQ' = FromQ
    BY <2>1, <2>4, <2>5 DEF FromConv, FromQ
  <2>7. StoredInOrder' /\ Single'
    BY <2>1, <2>2 DEF OrderInv, StoredInOrder, Single
  <2>8. Precedes(Tried, {Head(iq)}) /\ Precedes(Tried \cup {Head(iq)}, Elems(iq)')
    BY <2>3, <2>5 DEF OrderInv, Staged, Precedes
  <2>9. Ascending(q)'
    BY <2>1 DEF OrderInv, Staged, Ascending
  <2>10. Staged'
    BY <2>1, <2>3, <2>4, <2>5, <2>6, <2>8, <2>9 DEF OrderInv, Staged
  <2> QED
    BY <1>0, <2>7, <2>10 DEF OrderInv
<1>17. CASE MainStore
  <2>1. UNCHANGED <<dec, hand, q, conv, iq, item, pos>>
    BY <1>17 DEF MainStore
  <2>2. PICK x \in item : tried' = [tried EXCEPT ![x[1]] = Append(@, x[2])]
    BY <1>17 DEF MainStore
  <2>3. pc = "store" /\ pc' = "notify" /\ item = {x} /\ x \in Frame
    BY <1>0, <1>17 DEF MainStore, OrderInv, Single, TypeOK
  <2>4. Tried' = Tried \cup {x} /\ InMain = {x} /\ InMain' = {}
    BY <2>2, <2>3, TriedStore DEF InMain
  <2>5. /\ FromMain' = FromMain /\ FromIq' = FromIq /\ FromConv' = FromConv
        /\ FromQ' = FromQ /\ Elems(iq)' = Elems(iq) /\ Elems(q)' = Elems(q)
    BY <2>1, <2>4 DEF FromMain, FromIq, FromConv, FromQ
  <2>6. Ascending(iq)' /\ Ascending(q)'
    BY <2>1 DEF OrderInv, Staged, Ascending
  <2>7. Precedes(Tried', InMain')
    BY <2>4 DEF Precedes
  <2>8. Staged'
    BY <2>1, <2>5, <2>6, <2>7 DEF OrderInv, Staged
  <2>9. Single'
    BY <2>1, <2>3 DEF OrderInv, Single
  <2>10. StoredInOrder'
    <3>1. x[1] \in Conns /\ x[2] \in 1 .. MaxFrames /\ x = <<x[1], x[2]>>
      BY <2>3 DEF Frame
    <3>2. tried \in [Conns -> Seq(1 .. MaxFrames)]
      BY <1>0 DEF TypeOK
    <3>3. \A i \in DOMAIN tried[x[1]] : tried[x[1]][i] < x[2]
      <4> SUFFICES ASSUME NEW i \in DOMAIN tried[x[1]]
                   PROVE  tried[x[1]][i] < x[2]
        OBVIOUS
      <4>1. <<x[1], tried[x[1]][i]>> \in Tried
        <5> DEFINE y == <<x[1], tried[x[1]][i]>>
        <5>1. tried[x[1]] \in Seq(1 .. MaxFrames)
          BY <3>1, <3>2
        <5>2. tried[x[1]][i] \in 1 .. MaxFrames
          BY <5>1, ElemType
        <5>3. tried[x[1]][i] \in Elems(tried[x[1]])
          BY DEF Elems
        <5>4. y \in Frame /\ y[1] = x[1] /\ y[2] = tried[x[1]][i]
          BY <3>1, <5>2 DEF Frame
        <5> HIDE DEF y
        <5>5. y \in Tried
          BY <5>3, <5>4 DEF Tried
        <5> QED
          BY <5>5 DEF y
      <4> QED
        BY <2>4, <4>1 DEF OrderInv, Staged, Precedes
    <3>4. /\ tried'[x[1]] = Append(tried[x[1]], x[2])
          /\ \A c \in Conns : c # x[1] => tried'[c] = tried[c]
      BY <2>2, <3>1, <3>2
    <3>5. \A i, j \in DOMAIN tried'[x[1]] :
             i < j => tried'[x[1]][i] < tried'[x[1]][j]
      <4> DEFINE s == tried[x[1]]
      <4>1. \A i, j \in DOMAIN s : i < j => s[i] < s[j]
        BY <3>1 DEF OrderInv, StoredInOrder
      <4>2. s \in Seq(1 .. MaxFrames)
        BY <3>1, <3>2
      <4>3. \A i \in DOMAIN s : s[i] < x[2]
        BY <3>3
      <4> HIDE DEF s
      <4>4. /\ DOMAIN Append(s, x[2]) = 1 .. Len(s) + 1
            /\ DOMAIN s = 1 .. Len(s)
            /\ Len(s) \in Nat
            /\ \A i \in DOMAIN s : Append(s, x[2])[i] = s[i]
            /\ Append(s, x[2])[Len(s) + 1] = x[2]
        BY <3>1, <4>2
      <4>5. \A i, j \in DOMAIN Append(s, x[2]) :
               i < j => Append(s, x[2])[i] < Append(s, x[2])[j]
        BY <4>1, <4>3, <4>4
      <4> QED
        BY <3>4, <4>5 DEF s
    <3> QED
      BY <3>4, <3>5 DEF OrderInv, StoredInOrder
  <2> QED
    BY <1>0, <2>8, <2>9, <2>10 DEF OrderInv
<1>d. ASSUME UNCHANGED <<dec, hand, q, conv, iq, tried, pos>>,
             pc \in {"notify", "queue"}, Single',
             \/ pc' = "queue"
             \/ pc' = "recv"
      PROVE  OrderInv'
  <2>1. /\ Tried' = Tried /\ InMain' = InMain /\ FromMain' = FromMain
        /\ FromIq' = FromIq /\ FromConv' = FromConv /\ FromQ' = FromQ
        /\ Elems(q)' = Elems(q) /\ Elems(iq)' = Elems(iq)
    BY <1>d DEF Tried, InMain, FromMain, FromIq, FromConv, FromQ
  <2>2. StoredInOrder'
    BY <1>d DEF OrderInv, StoredInOrder
  <2>3. Ascending(iq)' /\ Ascending(q)'
    BY <1>d DEF OrderInv, Staged, Ascending
  <2>4. Staged'
    BY <1>d, <2>1, <2>3 DEF OrderInv, Staged
  <2> QED
    BY <1>0, <1>d, <2>2, <2>4 DEF OrderInv
<1>18. CASE MainNotify
  <2>1. /\ UNCHANGED <<dec, hand, q, conv, iq, tried, pos, item>>
        /\ pc = "notify" /\ pc' = "queue"
    BY <1>18 DEF MainNotify
  <2>2. Single'
    BY <2>1 DEF OrderInv, Single
  <2> QED
    BY <1>d, <2>1, <2>2
<1>19. CASE MainQueue
  <2>1. /\ UNCHANGED <<dec, hand, q, conv, iq, tried, pos>>
        /\ pc = "queue" /\ pc' = "recv" /\ item' = {}
    BY <1>19 DEF MainQueue
  <2>2. Single'
    BY <2>1 DEF OrderInv, Single
  <2> QED
    BY <1>d, <2>1, <2>2
<1>20. CASE MainReturn
  BY <1>0, <1>20, <1>c, OrderIdle DEF MainReturn
<1>21. CASE PoolRecv
  BY <1>0, <1>21, <1>c, OrderIdle DEF PoolRecv
<1>22. CASE ModuleRecv
  BY <1>0, <1>22, <1>c, OrderIdle DEF ModuleRecv
<1>23. CASE ModuleDone
  BY <1>0, <1>23, <1>c, OrderIdle DEF ModuleDone
<1>24. CASE UNCHANGED vars
  BY <1>0, <1>24, <1>c, OrderIdle DEF vars
<1> QED
  BY <1>1, <1>2, <1>3, <1>4, <1>5, <1>6, <1>7, <1>8, <1>9, <1>10, <1>11,
     <1>12, <1>13, <1>14, <1>15, <1>16, <1>17, <1>18, <1>19, <1>20, <1>21,
     <1>22, <1>23, <1>24
     DEF Next, HandlerStep, ConvertStep, MainStep, Stopped

\* At first every stage is empty.
LEMMA OrderInit == Init => OrderInv
<1> SUFFICES ASSUME Init PROVE OrderInv
  OBVIOUS
<1>1. TypeOK
  BY TypeInit
<1>2. /\ Tried = {} /\ InMain = {} /\ Elems(iq) = {} /\ conv = {}
      /\ Elems(q) = {}
  <2>1. q = <<>> /\ iq = <<>> /\ conv = {} /\ pc = "recv"
    BY DEF Init
  <2>2. \A c \in Conns : tried[c] = <<>>
    BY DEF Init
  <2>3. Elems(<<>>) = {}
    BY DEF Elems
  <2>4. \A x \in Frame : x[1] \in Conns
    BY DEF Frame
  <2> QED
    BY <2>1, <2>2, <2>3, <2>4 DEF Tried, InMain
<1>3. FromMain = {} /\ FromIq = {} /\ FromConv = {} /\ FromQ = {}
  BY <1>2 DEF FromMain, FromIq, FromConv, FromQ
<1>4. Single /\ StoredInOrder
  BY DEF Init, Single, StoredInOrder
<1>5. Staged
  BY <1>2, <1>3 DEF Init, Staged, Precedes, Ascending
<1> QED
  BY <1>1, <1>4, <1>5 DEF OrderInv

\* The packets of every connection reach fs.Store in the order in which they
\* were sent and at most once, for every number of connections and every size
\* of the queues between the five goroutines they pass through.
THEOREM OrderCorrect == Spec => []StoredInOrder
<1>1. OrderInv => StoredInOrder
  BY DEF OrderInv
<1> QED
  BY <1>1, OrderInit, OrderStep, PTL DEF Spec

-----------------------------------------------------------------------------
(* Termination. *)

\* Every step keeps the order in which the channels are closed.
LEMMA CloseStep == OrderInv /\ CloseInv /\ [Next]_vars => CloseInv'
<1> SUFFICES ASSUME OrderInv, CloseInv, [Next]_vars PROVE CloseInv'
  OBVIOUS
<1> USE DEF CloseInv, inVars, convVars, mainVars, outVars
<1>1. ASSUME NEW c \in Conns,
             Accept(c) \/ ReadPacket(c) \/ ReadFailure(c) \/ ReadEnd(c)
      PROVE  CloseInv'
  BY <1>1 DEF Accept, ReadPacket, ReadFailure, ReadEnd
<1>2. ASSUME NEW c \in Conns, HandlerStep(c) PROVE CloseInv'
  BY <1>2 DEF HandlerStep, HandlerRecv, HandlerSend, HandlerPanic, HandlerClose
<1>3. CASE AcceptFail
  BY <1>3 DEF AcceptFail
<1>4. CASE ConvertStep
  BY <1>4 DEF ConvertStep, ConvertRecv, ConvertError, ConvertSend,
              ConvertHandOff, ConvertSkip, ConvertReturn
<1>5. CASE MainRecv \/ MainStore \/ MainNotify \/ MainQueue
  BY <1>5 DEF MainRecv, MainStore, MainNotify, MainQueue
<1>6. CASE MainReturn
  <2>1. item = {}
    BY <1>6 DEF MainReturn, OrderInv, Single
  <2> QED
    BY <1>6, <2>1 DEF MainReturn
<1>7. CASE PoolRecv \/ ModuleRecv \/ ModuleDone
  BY <1>7 DEF PoolRecv, ModuleRecv, ModuleDone
<1>8. CASE UNCHANGED vars
  BY <1>8 DEF vars
<1> QED
  BY <1>1, <1>2, <1>3, <1>4, <1>5, <1>6, <1>7, <1>8 DEF Next, MainStep, Stopped

\* When runListen returns, everything that had entered the queues was given to
\* fs.Store or counted as dropped, for every size of the queues.
THEOREM ExitCorrect == Spec => []ExitDrained
<1>1. Init => CloseInv
  BY DEF Init, CloseInv
<1>2. CloseInv => ExitDrained
  BY DEF CloseInv, ExitDrained
<1> QED
  BY <1>1, <1>2, OrderInit, OrderStep, CloseStep, PTL DEF Spec

-----------------------------------------------------------------------------
(* Announcements. *)

\* What was given to fs.Store stays so.
LEMMA TriedGrows ==
    ASSUME OrderInv, [Next]_vars
    PROVE  Tried \subseteq Tried'
<1> USE DEF inVars, convVars, mainVars, outVars
<1>1. CASE MainStore
  <2>1. PICK x \in item : tried' = [tried EXCEPT ![x[1]] = Append(@, x[2])]
    BY <1>1 DEF MainStore
  <2> QED
    BY <2>1, TriedStore
<1>2. CASE tried' = tried
  BY <1>2 DEF Tried
<1>3. MainStore \/ tried' = tried
  BY DEF Next, HandlerStep, ConvertStep, MainStep, Stopped, vars, Accept,
         AcceptFail, ReadPacket, ReadFailure, ReadEnd, HandlerRecv,
         HandlerSend, HandlerPanic, HandlerClose, ConvertRecv, ConvertError,
         ConvertSend, ConvertHandOff, ConvertSkip, ConvertReturn, MainRecv,
         MainNotify, MainQueue, MainReturn, PoolRecv, ModuleRecv, ModuleDone
<1> QED
  BY <1>1, <1>2, <1>3

\* Every step keeps announced packets among the stored ones.
LEMMA AnnounceStep == OrderInv /\ AnnounceInv /\ [Next]_vars => AnnounceInv'
<1> SUFFICES ASSUME OrderInv, AnnounceInv, [Next]_vars PROVE AnnounceInv'
  OBVIOUS
<1> USE DEF inVars, convVars, mainVars, outVars
<1>1. Tried \subseteq Tried'
  BY TriedGrows
<1>2. TypeOK
  BY DEF OrderInv
<1>3. ASSUME UNCHANGED <<pq, mq, pc, item>> PROVE AnnounceInv'
  BY <1>1, <1>3 DEF AnnounceInv, AnnouncedAfterStore
<1>4. ASSUME UNCHANGED <<pq, mq>>, pc' = "store" PROVE AnnounceInv'
  BY <1>1, <1>4 DEF AnnounceInv, AnnouncedAfterStore
<1>5. CASE ConvertHandOff \/ MainRecv
  BY <1>4, <1>5 DEF ConvertHandOff, MainRecv
<1>6. CASE MainStore
  <2>1. PICK x \in item : tried' = [tried EXCEPT ![x[1]] = Append(@, x[2])]
    BY <1>6 DEF MainStore
  <2>2. item = {x}
    BY DEF OrderInv, Single
  <2>3. item' \subseteq Tried'
    BY <1>6, <2>1, <2>2, TriedStore DEF MainStore
  <2> QED
    BY <1>1, <1>6, <2>3 DEF MainStore, AnnounceInv, AnnouncedAfterStore
<1>7. CASE MainNotify
  <2>1. item \subseteq Tried
    BY <1>7 DEF MainNotify, AnnounceInv
  <2>2. pq' = pq \/ \E x \in item : pq' = Append(pq, x)
    BY <1>7 DEF MainNotify
  <2>3. pq \in Seq(Frame)
    BY <1>2 DEF TypeOK
  <2>4. Elems(pq)' \subseteq Elems(pq) \cup item
    <3>1. CASE pq' = pq
      BY <3>1
    <3>2. ASSUME NEW x \in item, pq' = Append(pq, x)
          PROVE  Elems(pq)' \subseteq Elems(pq) \cup item
      <4>1. Elems(pq)' = Elems(pq) \cup {x}
        BY <2>3, <3>2, ElemsAppend
      <4> QED
        BY <4>1
    <3> QED
      BY <2>2, <3>1, <3>2
  <2> QED
    BY <1>1, <1>7, <2>1, <2>4 DEF MainNotify, AnnounceInv, AnnouncedAfterStore
<1>8. CASE MainQueue
  <2>1. item \subseteq Tried
    BY <1>8 DEF MainQueue, AnnounceInv
  <2>2. mq' = mq \/ \E x \in item : mq' = Append(mq, x)
    BY <1>8 DEF MainQueue
  <2>3. mq \in Seq(Frame)
    BY <1>2 DEF TypeOK
  <2>4. Elems(mq)' \subseteq Elems(mq) \cup item
    <3>1. CASE mq' = mq
      BY <3>1
    <3>2. ASSUME NEW x \in item, mq' = Append(mq, x)
          PROVE  Elems(mq)' \subseteq Elems(mq) \cup item
      <4>1. Elems(mq)' = Elems(mq) \cup {x}
        BY <2>3, <3>2, ElemsAppend
      <4> QED
        BY <4>1
    <3> QED
      BY <2>2, <3>1, <3>2
  <2> QED
    BY <1>1, <1>8, <2>1, <2>4 DEF MainQueue, AnnounceInv, AnnouncedAfterStore
<1>9. CASE PoolRecv
  <2>1. Elems(pq)' \subseteq Elems(pq)
    BY <1>2, <1>9, ElemsTail DEF PoolRecv, TypeOK
  <2> QED
    BY <1>1, <1>9, <2>1 DEF PoolRecv, AnnounceInv, AnnouncedAfterStore
<1>10. CASE ModuleRecv
  <2>1. Elems(mq)' \subseteq Elems(mq)
    BY <1>2, <1>10, ElemsTail DEF ModuleRecv, TypeOK
  <2> QED
    BY <1>1, <1>10, <2>1 DEF ModuleRecv, AnnounceInv, AnnouncedAfterStore
<1>11. CASE ConvertRecv \/ ConvertError \/ ConvertSend \/ ConvertSkip
            \/ ConvertReturn \/ MainReturn \/ ModuleDone \/ AcceptFail
  BY <1>3, <1>11
     DEF ConvertRecv, ConvertError, ConvertSend, ConvertSkip, ConvertReturn,
         MainReturn, ModuleDone, AcceptFail
<1>12. ASSUME NEW c \in Conns,
              \/ Accept(c) \/ ReadPacket(c) \/ ReadFailure(c) \/ ReadEnd(c)
              \/ HandlerStep(c)
       PROVE  AnnounceInv'
  BY <1>3, <1>12
     DEF Accept, ReadPacket, ReadFailure, ReadEnd, HandlerStep, HandlerRecv,
         HandlerSend, HandlerPanic, HandlerClose
<1>13. CASE UNCHANGED vars
  BY <1>3, <1>13 DEF vars
<1> QED
  BY <1>5, <1>6, <1>7, <1>8, <1>9, <1>10, <1>11, <1>12, <1>13
     DEF Next, ConvertStep, MainStep, Stopped

\* Whatever waits for the notifiers or the modules has been through fs.Store.
THEOREM AnnounceCorrect == Spec => []AnnouncedAfterStore
<1>1. Init => AnnounceInv
  BY DEF Init, AnnounceInv, AnnouncedAfterStore, Elems
<1>2. AnnounceInv => AnnouncedAfterStore
  BY DEF AnnounceInv
<1> QED
  BY <1>1, <1>2, OrderInit, OrderStep, AnnounceStep, PTL DEF Spec

-----------------------------------------------------------------------------
(* Refinement. *)

lastTried == [c \in Conns |-> LastTried(c)]

\* The last packet that was stored of a connection, if there is one.
LEMMA LastStored ==
    ASSUME TypeOK
    PROVE  \A c \in Conns :
              \/ tried[c] = <<>> /\ LastTried(c) = 0
              \/ <<c, LastTried(c)>> \in Tried
<1> TAKE c \in Conns
<1>1. tried[c] \in Seq(1 .. MaxFrames)
  BY DEF TypeOK
<1>2. CASE tried[c] = <<>>
  BY <1>2 DEF LastTried
<1>3. CASE tried[c] # <<>>
  <2> DEFINE n == Len(tried[c])
             y == <<c, tried[c][n]>>
  <2>1. n \in DOMAIN tried[c]
    BY <1>1, <1>3
  <2>2. tried[c][n] \in 1 .. MaxFrames
    BY <1>1, <2>1, ElemType
  <2>3. tried[c][n] \in Elems(tried[c])
    BY <2>1 DEF Elems
  <2>4. y \in Frame /\ y[1] = c /\ y[2] = tried[c][n]
    BY <2>2 DEF Frame
  <2>5. LastTried(c) = tried[c][n]
    BY <1>3 DEF LastTried
  <2> HIDE DEF y
  <2>6. y \in Tried
    BY <2>3, <2>4 DEF Tried
  <2> QED
    BY <2>5, <2>6 DEF y
<1> QED
  BY <1>2, <1>3

\* Storing a packet moves the last packet of its connection forward.
LEMMA StoreDelivers ==
    ASSUME OrderInv, OrderInv', MainStore
    PROVE  Fifo!FifoNext
<1>0. UNCHANGED pos /\ pc = "store"
  BY DEF MainStore, inVars
<1>1. PICK x \in item : tried' = [tried EXCEPT ![x[1]] = Append(@, x[2])]
  BY DEF MainStore
<1>2. x \in Frame /\ x[1] \in Conns /\ x[2] \in 1 .. MaxFrames
  BY DEF OrderInv, TypeOK, Frame
<1>3. x \in InMain /\ x \in FromQ
  BY <1>0 DEF InMain, FromQ, FromConv, FromIq, FromMain
<1>4. x[2] <= pos[x[1]] /\ pos[x[1]] \in Nat
  BY <1>2, <1>3, ListenAssumption DEF OrderInv, Staged, TypeOK
<1>5. LastTried(x[1]) < x[2]
  <2>1. CASE LastTried(x[1]) = 0
    BY <1>2, <2>1
  <2>2. CASE <<x[1], LastTried(x[1])>> \in Tried
    BY <1>3, <2>2 DEF OrderInv, Staged, Precedes
  <2> QED
    BY <1>2, <2>1, <2>2, LastStored DEF OrderInv
<1>6. /\ tried \in [Conns -> Seq(1 .. MaxFrames)]
      /\ tried'[x[1]] = Append(tried[x[1]], x[2])
      /\ \A c \in Conns : c # x[1] => tried'[c] = tried[c]
  BY <1>1, <1>2 DEF OrderInv, TypeOK
<1>7. LastTried(x[1])' = x[2]
  <2> DEFINE s == tried[x[1]]
  <2>1. s \in Seq(1 .. MaxFrames)
    BY <1>2, <1>6
  <2> HIDE DEF s
  <2>2. /\ Append(s, x[2]) # <<>>
        /\ Append(s, x[2])[Len(Append(s, x[2]))] = x[2]
    BY <1>2, <2>1
  <2> QED
    BY <1>6, <2>2 DEF s, LastTried
<1>8. \A c \in Conns : c # x[1] => LastTried(c)' = LastTried(c)
  BY <1>6 DEF LastTried
<1>9. lastTried' = [lastTried EXCEPT ![x[1]] = x[2]]
  BY <1>2, <1>7, <1>8 DEF lastTried
<1>10. lastTried[x[1]] < x[2]
  BY <1>2, <1>5 DEF lastTried
<1>11. x[2] \in 1 .. pos[x[1]]
  BY <1>2, <1>4
<1>12. Fifo!Deliver(x[1], x[2])
  BY <1>0, <1>4, <1>9, <1>10 DEF Fifo!Deliver, lastTried
<1> QED
  BY <1>2, <1>11, <1>12 DEF Fifo!FifoNext

\* Every step of the pipeline is a step of the lossy queue or leaves it as it is.
LEMMA FifoStep ==
    ASSUME OrderInv, OrderInv', [Next]_vars
    PROVE  [Fifo!FifoNext]_(Fifo!fifoVars)
<1> USE DEF inVars, convVars, mainVars, outVars
<1>1. ASSUME UNCHANGED <<pos, tried>> PROVE [Fifo!FifoNext]_(Fifo!fifoVars)
  BY <1>1 DEF Fifo!fifoVars, LastTried
<1>2. ASSUME NEW c \in Conns, pos' = [pos EXCEPT ![c] = @ + 1], tried' = tried
      PROVE  Fifo!FifoNext
  <2>1. Fifo!Receive(c)
    BY <1>2 DEF Fifo!Receive, LastTried
  <2> QED
    BY <2>1 DEF Fifo!FifoNext
<1>3. \/ MainStore
      \/ \E c \in Conns : pos' = [pos EXCEPT ![c] = @ + 1] /\ tried' = tried
      \/ UNCHANGED <<pos, tried>>
  BY DEF Next, HandlerStep, ConvertStep, MainStep, Stopped, vars, Accept,
         AcceptFail, ReadPacket, ReadFailure, ReadEnd, HandlerRecv,
         HandlerSend, HandlerPanic, HandlerClose, ConvertRecv, ConvertError,
         ConvertSend, ConvertHandOff, ConvertSkip, ConvertReturn, MainRecv,
         MainNotify, MainQueue, MainReturn, PoolRecv, ModuleRecv, ModuleDone
<1> QED
  BY <1>1, <1>2, <1>3, StoreDelivers

\* The pipeline implements the lossy queue: a frame is received, and later it
\* is stored at most once and in the order of its connection.
THEOREM FifoCorrect == Spec => ImplementsFifo
<1>1. Init => Fifo!FifoInit
  BY DEF Init, Fifo!FifoInit, LastTried
<1> QED
  BY <1>1, OrderInit, OrderStep, FifoStep, PTL
     DEF Spec, ImplementsFifo, Fifo!FifoSpec

-----------------------------------------------------------------------------
(* Every frame is in one place.  Places are sets of frames by name; counting *)
(* the places of a frame is left to the end.                                 *)

PlaceNames == {"rejected", "decoder", "handler", "q", "convert", "errors", "skipped",
               "iq", "main", "stored"}

\* With the frames of c read up to n[c], each of these is in one of the places P
\* and no other frame is.
Unique(P, n) ==
    \A x \in Frame :
        /\ \A a, b \in PlaceNames : x \in P[a] /\ x \in P[b] => a = b
        /\ (\E a \in PlaceNames : x \in P[a]) <=> x[2] <= n[x[1]]

\* The frame x goes from place a to place b, or comes into b from outside.
Moves(P, Q, a, b, x) ==
    /\ x \in P[a] /\ Q[a] = P[a] \ {x} /\ Q[b] = P[b] \cup {x}
    /\ \A d \in PlaceNames : d # a /\ d # b => Q[d] = P[d]

Arrives(P, Q, b, x) ==
    /\ Q[b] = P[b] \cup {x}
    /\ \A d \in PlaceNames : d # b => Q[d] = P[d]

\* A frame that moves is still in one place.
LEMMA MoveUnique ==
    ASSUME NEW P, NEW Q, NEW n, NEW a \in PlaceNames, NEW b \in PlaceNames, a # b,
           NEW x \in Frame, Unique(P, n), Moves(P, Q, a, b, x)
    PROVE  Unique(Q, n)
<1>1. ASSUME NEW y \in Frame, y # x, NEW d \in PlaceNames PROVE y \in Q[d] <=> y \in P[d]
  BY <1>1 DEF Moves
<1>2. ASSUME NEW d \in PlaceNames PROVE x \in Q[d] <=> d = b
  <2>1. x \in P[d] => d = a
    BY DEF Unique, Moves
  <2> QED
    BY <2>1 DEF Moves
<1>3. x[2] <= n[x[1]]
  BY DEF Unique, Moves
<1> SUFFICES ASSUME NEW y \in Frame
             PROVE  /\ \A d, e \in PlaceNames : y \in Q[d] /\ y \in Q[e] => d = e
                    /\ (\E d \in PlaceNames : y \in Q[d]) <=> y[2] <= n[y[1]]
  BY DEF Unique
<1>4. CASE y = x
  BY <1>2, <1>3, <1>4
<1>5. CASE y # x
  BY <1>1, <1>5 DEF Unique
<1> QED
  BY <1>4, <1>5

\* The next frame of a connection was in no place, and is in one.
LEMMA ArriveUnique ==
    ASSUME NEW P, NEW Q, NEW n \in [Conns -> Nat], NEW m, NEW b \in PlaceNames,
           NEW c \in Conns, <<c, n[c] + 1>> \in Frame, m = [n EXCEPT ![c] = n[c] + 1],
           Unique(P, n), Arrives(P, Q, b, <<c, n[c] + 1>>)
    PROVE  Unique(Q, m)
<1> DEFINE x == <<c, n[c] + 1>>
<1>1. x \in Frame /\ x[1] = c /\ x[2] = n[c] + 1 /\ Arrives(P, Q, b, x)
  OBVIOUS
<1>2. \A y \in Frame : y[1] \in Conns /\ y[2] \in Nat /\ y = <<y[1], y[2]>>
  BY DEF Frame
<1>3. m[c] = n[c] + 1 /\ n[c] \in Nat /\ \A d \in Conns : d # c => m[d] = n[d]
  OBVIOUS
<1>4. \A y \in Frame : y # x => (y[2] <= m[y[1]] <=> y[2] <= n[y[1]])
  <2> TAKE y \in Frame
  <2>1. CASE y[1] = c
    <3>1. y # x => y[2] # n[c] + 1
      BY <1>2, <2>1
    <3> HIDE DEF x
    <3> QED
      BY <1>2, <1>3, <2>1, <3>1
  <2>2. CASE y[1] # c
    BY <1>2, <1>3, <2>2
  <2> QED
    BY <2>1, <2>2
<1>5. ~(x[2] <= n[x[1]]) /\ x[2] <= m[x[1]]
  BY <1>1, <1>3
<1> HIDE DEF x
<1>6. ASSUME NEW y \in Frame, y # x, NEW d \in PlaceNames PROVE y \in Q[d] <=> y \in P[d]
  BY <1>1, <1>6 DEF Arrives
<1>7. ASSUME NEW d \in PlaceNames PROVE x \in Q[d] <=> d = b
  <2>1. x \notin P[d]
    BY <1>1, <1>5 DEF Unique
  <2> QED
    BY <1>1, <2>1 DEF Arrives
<1> SUFFICES ASSUME NEW y \in Frame
             PROVE  /\ \A d, e \in PlaceNames : y \in Q[d] /\ y \in Q[e] => d = e
                    /\ (\E d \in PlaceNames : y \in Q[d]) <=> y[2] <= m[y[1]]
  BY DEF Unique
<1>8. CASE y = x
  BY <1>5, <1>7, <1>8
<1>9. CASE y # x
  BY <1>4, <1>6, <1>9 DEF Unique
<1> QED
  BY <1>8, <1>9

\* The packets of all decoders or of all handlers.
AllOf(f) == UNION {f[c] : c \in Conns}

\* The goroutine of one connection gives its packet away, or gets one.
LEMMA AllGive ==
    ASSUME NEW f \in [Conns -> SUBSET Frame], NEW c \in Conns, NEW x, f[c] = {x},
           \A d \in Conns : \A y \in f[d] : y[1] = d
    PROVE  x \in AllOf(f) /\ AllOf([f EXCEPT ![c] = {}]) = AllOf(f) \ {x}
<1> DEFINE g == [f EXCEPT ![c] = {}]
<1>1. g[c] = {} /\ \A d \in Conns : d # c => g[d] = f[d]
  OBVIOUS
<1>2. \A d \in Conns : x \in f[d] => d = c
  OBVIOUS
<1> HIDE DEF g
<1>3. AllOf(g) = AllOf(f) \ {x}
  BY <1>1, <1>2 DEF AllOf
<1> QED
  BY <1>3 DEF g, AllOf

\* A connection that holds nothing takes up a frame: the union gains that frame.
LEMMA AllGet ==
    ASSUME NEW f \in [Conns -> SUBSET Frame], NEW c \in Conns, NEW x, f[c] = {}
    PROVE  AllOf([f EXCEPT ![c] = {x}]) = AllOf(f) \cup {x}
<1> DEFINE g == [f EXCEPT ![c] = {x}]
<1>1. g[c] = {x} /\ \A d \in Conns : d # c => g[d] = f[d]
  OBVIOUS
<1> HIDE DEF g
<1>2. AllOf(g) = AllOf(f) \cup {x}
  BY <1>1 DEF AllOf
<1> QED
  BY <1>2 DEF g

\* The head of an ascending queue is not in the rest of it.
LEMMA HeadLeaves ==
    ASSUME NEW s \in Seq(Frame), s # <<>>, Ascending(s)
    PROVE  /\ Head(s) \in Elems(s) /\ Head(s) \in Frame
           /\ Elems(Tail(s)) = Elems(s) \ {Head(s)}
<1>1. /\ Precedes({Head(s)}, Elems(Tail(s)))
      /\ Elems(s) = {Head(s)} \cup Elems(Tail(s))
      /\ Head(s) \in Frame
  BY AscendingTail, TailType
<1>2. Head(s)[2] \in Nat
  BY <1>1 DEF Frame
<1>3. ~(Head(s)[2] < Head(s)[2])
  BY <1>2
<1>4. Head(s) \notin Elems(Tail(s))
  BY <1>1, <1>3 DEF Precedes
<1> QED
  BY <1>1, <1>4

\* The places, by their names.
PlaceValues ==
    /\ Places["rejected"] = rejected /\ Places["decoder"] = AllOf(dec)
    /\ Places["handler"] = AllOf(hand) /\ Places["q"] = Elems(q)
    /\ Places["convert"] = conv /\ Places["errors"] = errors
    /\ Places["skipped"] = skipped /\ Places["iq"] = Elems(iq)
    /\ Places["main"] = InMain /\ Places["stored"] = Tried

\* The places Accounted counts are the named ones, with those values.
LEMMA PlacesAre == PlaceValues /\ DOMAIN Places = PlaceNames
BY DEF Places, PlaceNames, PlaceValues, AllOf, InMain

\* At first no frame was read and every place is empty.
LEMMA UniqueInit == Init => Unique(Places, pos)
<1> SUFFICES ASSUME Init PROVE Unique(Places, pos)
  OBVIOUS
<1>1. AllOf(dec) = {} /\ AllOf(hand) = {}
  BY DEF Init, AllOf
<1>2. Elems(q) = {} /\ Elems(iq) = {} /\ InMain = {}
  BY DEF Init, Elems, InMain
<1>3. Tried = {}
  BY DEF Init, Tried, Elems, Frame
<1>4. \A a \in PlaceNames : Places[a] = {}
  BY <1>1, <1>2, <1>3, PlacesAre DEF PlaceValues, PlaceNames, Init
<1>5. \A x \in Frame : ~(x[2] <= pos[x[1]])
  BY DEF Init, Frame
<1> QED
  BY <1>4, <1>5 DEF Unique

\* Every step moves one frame at most, from one place to one other.
LEMMA UniqueStep == OrderInv /\ Unique(Places, pos) /\ [Next]_vars => Unique(Places, pos)'
<1> SUFFICES ASSUME OrderInv, Unique(Places, pos), [Next]_vars PROVE Unique(Places', pos')
  OBVIOUS
<1> USE DEF inVars, convVars, mainVars, outVars
<1>v. PlaceValues /\ PlaceValues'
  BY PlacesAre, PTL
<1>t. /\ pos \in [Conns -> Nat] /\ \A c \in Conns : pos[c] \in 0 .. MaxFrames
      /\ dec \in [Conns -> SUBSET Frame] /\ hand \in [Conns -> SUBSET Frame]
      /\ q \in Seq(Frame) /\ iq \in Seq(Frame) /\ Ascending(q) /\ Ascending(iq)
      /\ conv \subseteq Frame /\ item \subseteq Frame /\ MaxFrames \in Nat
  BY ListenAssumption DEF OrderInv, TypeOK, Staged
<1>s. /\ \A x, y \in conv : x = y
      /\ \A x, y \in item : x = y
      /\ \A c \in Conns : \A x, y \in dec[c] : x = y
      /\ \A c \in Conns : \A x, y \in hand[c] : x = y
      /\ \A c \in Conns : \A x \in dec[c] : x[1] = c
      /\ \A c \in Conns : \A x \in hand[c] : x[1] = c
      /\ pc = "recv" => item = {}
  BY DEF OrderInv, Single
<1>m. ASSUME NEW a \in PlaceNames, NEW b \in PlaceNames, a # b, NEW x \in Frame, pos' = pos,
             Moves(Places, Places', a, b, x)
      PROVE  Unique(Places', pos')
  BY <1>m, MoveUnique
<1>i. ASSUME UNCHANGED <<pos, rejected, dec, hand, q, conv, errors, skipped, iq, tried>>,
             InMain' = InMain
      PROVE  Unique(Places', pos')
  <2>1. \A a \in PlaceNames : Places'[a] = Places[a]
    BY <1>v, <1>i DEF PlaceValues, PlaceNames, Tried
  <2> QED
    BY <1>i, <2>1 DEF Unique
<1>r. ASSUME NEW c \in Conns, pos[c] < MaxFrames, pos' = [pos EXCEPT ![c] = @ + 1],
             NEW b \in PlaceNames, Arrives(Places, Places', b, <<c, pos[c] + 1>>)
      PROVE  Unique(Places', pos')
  <2>1. <<c, pos[c] + 1>> \in Frame
    BY <1>t, <1>r DEF Frame
  <2> QED
    BY <1>t, <1>r, <2>1, ArriveUnique
<1>j. ASSUME NEW c \in Conns, pos[c] < MaxFrames, pos' = [pos EXCEPT ![c] = @ + 1],
             rejected' = rejected \cup {<<c, pos[c] + 1>>},
             UNCHANGED <<dec, hand, q, conv, errors, skipped, iq, pc, item, tried>>
      PROVE  Unique(Places', pos')
  <2>1. Arrives(Places, Places', "rejected", <<c, pos[c] + 1>>)
    BY <1>v, <1>j DEF Arrives, PlaceValues, PlaceNames, InMain, Tried
  <2>2. "rejected" \in PlaceNames
    BY DEF PlaceNames
  <2> QED
    BY <1>j, <1>r, <2>1, <2>2
<1>1. ASSUME NEW c \in Conns, ReadPacket(c) PROVE Unique(Places', pos')
  <2> DEFINE x == <<c, pos[c] + 1>>
  <2>1. /\ pos[c] < MaxFrames /\ pos' = [pos EXCEPT ![c] = @ + 1] /\ dec[c] = {}
        /\ UNCHANGED <<hand, q, conv, errors, skipped, iq, pc, item, tried>>
    BY <1>1 DEF ReadPacket, Reading
  <2>2. \/ dec' = [dec EXCEPT ![c] = {x}] /\ rejected' = rejected
        \/ dec' = dec /\ rejected' = rejected \cup {x}
    BY <1>1 DEF ReadPacket
  <2>3. CASE dec' = dec /\ rejected' = rejected \cup {x}
    BY <1>j, <2>1, <2>3
  <2>4. CASE dec' = [dec EXCEPT ![c] = {x}] /\ rejected' = rejected
    <3>1. AllOf(dec') = AllOf(dec) \cup {x}
      BY <1>t, <2>1, <2>4, AllGet
    <3> HIDE DEF x
    <3>2. Arrives(Places, Places', "decoder", x)
      BY <1>v, <2>1, <2>4, <3>1 DEF Arrives, PlaceValues, PlaceNames, InMain, Tried
    <3>3. "decoder" \in PlaceNames
      BY DEF PlaceNames
    <3> QED
      BY <1>r, <2>1, <3>2, <3>3 DEF x
  <2> QED
    BY <2>2, <2>3, <2>4
<1>2. ASSUME NEW c \in Conns, ReadFailure(c) PROVE Unique(Places', pos')
  BY <1>2, <1>j DEF ReadFailure
<1>3. ASSUME NEW c \in Conns, HandlerRecv(c) PROVE Unique(Places', pos')
  <2>1. PICK x \in dec[c] : TRUE
    BY <1>3 DEF HandlerRecv
  <2>2. dec[c] = {x} /\ x \in Frame
    BY <1>s, <1>t, <2>1
  <2>3. /\ hand[c] = {} /\ hand' = [hand EXCEPT ![c] = {x}] /\ dec' = [dec EXCEPT ![c] = {}]
        /\ UNCHANGED <<pos, rejected, q, conv, errors, skipped, iq, pc, item, tried>>
    BY <1>3, <2>2 DEF HandlerRecv
  <2>4. x \in AllOf(dec) /\ AllOf(dec') = AllOf(dec) \ {x} /\ AllOf(hand') = AllOf(hand) \cup {x}
    BY <1>s, <1>t, <2>2, <2>3, AllGive, AllGet
  <2>5. Moves(Places, Places', "decoder", "handler", x)
    BY <1>v, <2>3, <2>4 DEF Moves, PlaceValues, PlaceNames, InMain, Tried
  <2>6. "decoder" \in PlaceNames /\ "handler" \in PlaceNames /\ "decoder" # "handler"
    BY DEF PlaceNames
  <2> QED
    BY <1>m, <2>2, <2>3, <2>5, <2>6
<1>4. ASSUME NEW c \in Conns, HandlerSend(c) PROVE Unique(Places', pos')
  <2>1. PICK x \in hand[c] : q' = Append(q, x)
    BY <1>4 DEF HandlerSend
  <2>2. hand[c] = {x} /\ x \in Frame
    BY <1>s, <1>t, <2>1
  <2>3. /\ hand' = [hand EXCEPT ![c] = {}]
        /\ UNCHANGED <<pos, rejected, dec, conv, errors, skipped, iq, pc, item, tried>>
    BY <1>4 DEF HandlerSend
  <2>4. x \in AllOf(hand) /\ AllOf(hand') = AllOf(hand) \ {x} /\ Elems(q') = Elems(q) \cup {x}
    BY <1>s, <1>t, <2>1, <2>2, <2>3, AllGive, ElemsAppend
  <2>5. Moves(Places, Places', "handler", "q", x)
    BY <1>v, <2>3, <2>4 DEF Moves, PlaceValues, PlaceNames, InMain, Tried
  <2>6. "handler" \in PlaceNames /\ "q" \in PlaceNames /\ "handler" # "q"
    BY DEF PlaceNames
  <2> QED
    BY <1>m, <2>2, <2>3, <2>5, <2>6
<1>5. CASE ConvertRecv
  <2>1. /\ conv = {} /\ q # <<>> /\ conv' = {Head(q)} /\ q' = Tail(q)
        /\ UNCHANGED <<pos, rejected, dec, hand, errors, skipped, iq, pc, item, tried>>
    BY <1>5 DEF ConvertRecv
  <2>2. Head(q) \in Elems(q) /\ Head(q) \in Frame /\ Elems(q') = Elems(q) \ {Head(q)}
    BY <1>t, <2>1, HeadLeaves
  <2>3. Moves(Places, Places', "q", "convert", Head(q))
    BY <1>v, <2>1, <2>2 DEF Moves, PlaceValues, PlaceNames, InMain, Tried
  <2>4. "q" \in PlaceNames /\ "convert" \in PlaceNames /\ "q" # "convert"
    BY DEF PlaceNames
  <2> QED
    BY <1>m, <2>1, <2>2, <2>3, <2>4
<1>6. CASE ConvertError
  <2>1. /\ q # <<>> /\ errors' = errors \cup {Head(q)} /\ q' = Tail(q)
        /\ UNCHANGED <<pos, rejected, dec, hand, conv, skipped, iq, pc, item, tried>>
    BY <1>6 DEF ConvertError
  <2>2. Head(q) \in Elems(q) /\ Head(q) \in Frame /\ Elems(q') = Elems(q) \ {Head(q)}
    BY <1>t, <2>1, HeadLeaves
  <2>3. Moves(Places, Places', "q", "errors", Head(q))
    BY <1>v, <2>1, <2>2 DEF Moves, PlaceValues, PlaceNames, InMain, Tried
  <2>4. "q" \in PlaceNames /\ "errors" \in PlaceNames /\ "q" # "errors"
    BY DEF PlaceNames
  <2> QED
    BY <1>m, <2>1, <2>2, <2>3, <2>4
<1>7. CASE ConvertSend
  <2>1. PICK x \in conv : iq' = Append(iq, x)
    BY <1>7 DEF ConvertSend
  <2>2. /\ conv = {x} /\ x \in Frame /\ conv' = {} /\ Elems(iq') = Elems(iq) \cup {x}
        /\ UNCHANGED <<pos, rejected, dec, hand, q, errors, skipped, pc, item, tried>>
    BY <1>s, <1>t, <1>7, <2>1, ElemsAppend DEF ConvertSend
  <2>3. Moves(Places, Places', "convert", "iq", x)
    BY <1>v, <2>2 DEF Moves, PlaceValues, PlaceNames, InMain, Tried
  <2>4. "convert" \in PlaceNames /\ "iq" \in PlaceNames /\ "convert" # "iq"
    BY DEF PlaceNames
  <2> QED
    BY <1>m, <2>2, <2>3, <2>4
<1>8. CASE ConvertHandOff
  <2>1. PICK x \in conv : TRUE
    BY <1>8 DEF ConvertHandOff
  <2>2. /\ conv = {x} /\ x \in Frame /\ conv' = {} /\ InMain = {} /\ InMain' = {x}
        /\ UNCHANGED <<pos, rejected, dec, hand, q, errors, skipped, iq, tried>>
    BY <1>s, <1>t, <1>8, <2>1 DEF ConvertHandOff, InMain
  <2>3. Moves(Places, Places', "convert", "main", x)
    BY <1>v, <2>2 DEF Moves, PlaceValues, PlaceNames, Tried
  <2>4. "convert" \in PlaceNames /\ "main" \in PlaceNames /\ "convert" # "main"
    BY DEF PlaceNames
  <2> QED
    BY <1>m, <2>2, <2>3, <2>4
<1>9. CASE ConvertSkip
  <2>1. PICK x \in conv : TRUE
    BY <1>9 DEF ConvertSkip
  <2>2. /\ conv = {x} /\ x \in Frame /\ conv' = {} /\ skipped' = skipped \cup {x}
        /\ UNCHANGED <<pos, rejected, dec, hand, q, errors, iq, pc, item, tried>>
    BY <1>s, <1>t, <1>9, <2>1 DEF ConvertSkip
  <2>3. Moves(Places, Places', "convert", "skipped", x)
    BY <1>v, <2>2 DEF Moves, PlaceValues, PlaceNames, InMain, Tried
  <2>4. "convert" \in PlaceNames /\ "skipped" \in PlaceNames /\ "convert" # "skipped"
    BY DEF PlaceNames
  <2> QED
    BY <1>m, <2>2, <2>3, <2>4
<1>10. CASE MainRecv
  <2>1. /\ iq # <<>> /\ iq' = Tail(iq) /\ InMain = {} /\ InMain' = {Head(iq)}
        /\ UNCHANGED <<pos, rejected, dec, hand, q, conv, errors, skipped, tried>>
    BY <1>10 DEF MainRecv, InMain
  <2>2. Head(iq) \in Elems(iq) /\ Head(iq) \in Frame /\ Elems(iq') = Elems(iq) \ {Head(iq)}
    BY <1>t, <2>1, HeadLeaves
  <2>3. Moves(Places, Places', "iq", "main", Head(iq))
    BY <1>v, <2>1, <2>2 DEF Moves, PlaceValues, PlaceNames, Tried
  <2>4. "iq" \in PlaceNames /\ "main" \in PlaceNames /\ "iq" # "main"
    BY DEF PlaceNames
  <2> QED
    BY <1>m, <2>1, <2>2, <2>3, <2>4
<1>11. CASE MainStore
  <2>1. PICK x \in item : tried' = [tried EXCEPT ![x[1]] = Append(@, x[2])]
    BY <1>11 DEF MainStore
  <2>2. /\ x \in Frame /\ InMain = {x} /\ InMain' = {}
        /\ UNCHANGED <<pos, rejected, dec, hand, q, conv, errors, skipped, iq>>
    BY <1>s, <1>t, <1>11, <2>1 DEF MainStore, InMain
  <2>3. Tried' = Tried \cup {x}
    BY <2>1, TriedStore
  <2>4. Moves(Places, Places', "main", "stored", x)
    BY <1>v, <2>2, <2>3 DEF Moves, PlaceValues, PlaceNames
  <2>5. "main" \in PlaceNames /\ "stored" \in PlaceNames /\ "main" # "stored"
    BY DEF PlaceNames
  <2> QED
    BY <1>m, <2>2, <2>4, <2>5
<1>12. ASSUME NEW c \in Conns, Accept(c) \/ ReadEnd(c) \/ HandlerPanic(c) \/ HandlerClose(c)
       PROVE  Unique(Places', pos')
  BY <1>i, <1>12 DEF Accept, ReadEnd, HandlerPanic, HandlerClose, InMain
<1>13. CASE AcceptFail \/ ConvertReturn \/ MainReturn \/ PoolRecv \/ ModuleRecv \/ ModuleDone
  BY <1>i, <1>13 DEF AcceptFail, ConvertReturn, MainReturn, PoolRecv, ModuleRecv,
     ModuleDone, InMain
<1>14. CASE MainNotify \/ MainQueue
  BY <1>i, <1>14 DEF MainNotify, MainQueue, InMain
<1>15. CASE UNCHANGED vars
  BY <1>i, <1>15 DEF vars, InMain
<1> QED
  BY <1>1, <1>2, <1>3, <1>4, <1>5, <1>6, <1>7, <1>8, <1>9, <1>10, <1>11, <1>12, <1>13, <1>14,
     <1>15 DEF Next, HandlerStep, ConvertStep, MainStep, Stopped

\* Every frame that the decoders consumed is in exactly one place, in flight or
\* counted under one outcome, also after the process stopped: none is lost
\* silently and none is there twice.
THEOREM FramesAccounted == Spec => []Accounted
<1>1. Unique(Places, pos) => Accounted
  <2> SUFFICES ASSUME Unique(Places, pos), NEW x \in Frame
               PROVE  Cardinality({p \in DOMAIN Places : x \in Places[p]}) =
                         IF x[2] <= pos[x[1]] THEN 1 ELSE 0
    BY DEF Accounted
  <2> DEFINE S == {p \in DOMAIN Places : x \in Places[p]}
  <2>1. S = {p \in PlaceNames : x \in Places[p]}
    BY PlacesAre
  <2>2. CASE x[2] <= pos[x[1]]
    <3>1. PICK a \in PlaceNames : x \in Places[a]
      BY <2>2 DEF Unique
    <3>2. S = {a}
      BY <2>1, <3>1 DEF Unique
    <3> HIDE DEF S
    <3>3. Cardinality(S) = 1
      BY <3>2, FS_Singleton
    <3> QED
      BY <2>2, <3>3 DEF S
  <2>3. CASE ~(x[2] <= pos[x[1]])
    <3>1. S = {}
      BY <2>1, <2>3 DEF Unique
    <3> HIDE DEF S
    <3>2. Cardinality(S) = 0
      BY <3>1, FS_EmptySet
    <3> QED
      BY <2>3, <3>2 DEF S
  <2> QED
    BY <2>2, <2>3
<1> QED
  BY <1>1, OrderInit, OrderStep, UniqueInit, UniqueStep, PTL DEF Spec

-----------------------------------------------------------------------------
(* The four files of a packet name. *)

Good(x)   == <<x, <<>>>>
Bad(x)    == <<x, <<"bad">>>>
Xml(x)    == <<x, <<"xml">>>>
BadXml(x) == <<x, <<"bad", "xml">>>>

\* The four names of a packet are different.
LEMMA FilesDiffer ==
    ASSUME NEW x, NEW y
    PROVE  /\ Good(x) # Bad(y) /\ Good(x) # Xml(y) /\ Good(x) # BadXml(y)
           /\ Bad(x) # Xml(y) /\ Bad(x) # BadXml(y) /\ Xml(x) # BadXml(y)
           /\ Good(x) = Good(y) => x = y
           /\ Bad(x) = Bad(y) => x = y
           /\ Xml(x) = Xml(y) => x = y
           /\ BadXml(x) = BadXml(y) => x = y
<1>1. /\ <<>> # <<"bad">> /\ <<>> # <<"xml">> /\ <<>> # <<"bad", "xml">>
      /\ <<"bad">> # <<"xml">> /\ <<"bad">> # <<"bad", "xml">>
      /\ <<"xml">> # <<"bad", "xml">>
  OBVIOUS
<1> QED
  BY <1>1 DEF Good, Bad, Xml, BadXml

\* Names of files.
LEMMA FilesType ==
    ASSUME NEW x \in Names
    PROVE  /\ Good(x) \in File /\ Bad(x) \in File /\ Xml(x) \in File /\ BadXml(x) \in File
           /\ Good(x)[1] = x /\ Bad(x)[1] = x /\ Xml(x)[1] = x /\ BadXml(x)[1] = x
  BY DEF Good, Bad, Xml, BadXml, File, Suffixes

\* Two sequences of one length with the same elements are equal.
LEMMA SeqExt ==
    ASSUME NEW S, NEW s \in Seq(S), NEW t \in Seq(S), Len(s) = Len(t),
           \A i \in 1 .. Len(s) : s[i] = t[i]
    PROVE  s = t
  OBVIOUS

\* The second suffix that is appended.
LEMMA AppendTwo ==
    ASSUME NEW S, NEW a \in S, NEW b \in S
    PROVE  Append(<<a>>, b) = <<a, b>>
<1> DEFINE s == Append(<<a>>, b)
           t == <<a, b>>
<1>1. s \in Seq(S) /\ Len(s) = 2 /\ s[1] = a /\ s[2] = b
  OBVIOUS
<1>2. t \in Seq(S) /\ Len(t) = 2 /\ t[1] = a /\ t[2] = b
  OBVIOUS
<1> HIDE DEF s, t
<1>3. \A i \in 1 .. Len(s) : s[i] = t[i]
  BY <1>1, <1>2
<1>4. s = t
  BY <1>1, <1>2, <1>3, SeqExt
<1> QED
  BY <1>4 DEF s, t

\* Suffixes of the names that Store computes; no file has the last three.
LEMMA SuffixAppend ==
    /\ Append(<<>>, "bad") = <<"bad">>
    /\ Append(<<>>, "xml") = <<"xml">>
    /\ Append(<<"bad">>, "xml") = <<"bad", "xml">>
    /\ Append(<<"bad">>, "bad") \notin Suffixes
    /\ Append(<<"xml">>, "bad") \notin Suffixes
    /\ Append(<<"bad", "xml">>, "bad") \notin Suffixes
<1> DEFINE S == {"bad", "xml"}
<1>1. Append(<<>>, "bad") = <<"bad">> /\ Append(<<>>, "xml") = <<"xml">>
  OBVIOUS
<1>2. "bad" \in S /\ "xml" \in S
  OBVIOUS
<1> HIDE DEF S
<1>3. /\ Append(<<"bad">>, "xml") = <<"bad", "xml">>
      /\ Append(<<"bad">>, "bad") = <<"bad", "bad">>
      /\ Append(<<"xml">>, "bad") = <<"xml", "bad">>
  BY <1>2, AppendTwo
<1>4. <<"bad", "bad">> \notin Suffixes /\ <<"xml", "bad">> \notin Suffixes
  BY DEF Suffixes
<1>5. Append(<<"bad", "xml">>, "bad") \notin Suffixes
  <2>1. Len(Append(<<"bad", "xml">>, "bad")) = 3
    OBVIOUS
  <2>2. \A s \in Suffixes : Len(s) # 3
    <3>1. Len(<<>>) = 0 /\ Len(<<"bad">>) = 1 /\ Len(<<"xml">>) = 1
      OBVIOUS
    <3>2. Len(<<"bad", "xml">>) = 2
      OBVIOUS
    <3>3. ASSUME NEW s \in Suffixes PROVE Len(s) # 3
      <4>1. s = <<>> \/ s = <<"bad">> \/ s = <<"xml">> \/ s = <<"bad", "xml">>
        BY Zenon DEF Suffixes
      <4>2. Len(s) = 0 \/ Len(s) = 1 \/ Len(s) = 2
        BY <3>1, <3>2, <4>1, Zenon
      <4> QED
        BY <4>2
    <3> QED
      BY <3>3
  <2> QED
    BY <2>1, <2>2
<1> QED
  BY <1>1, <1>3, <1>4, <1>5

\* Current and Badname for a packet and a stage.
CurrentOf(p, s) == IF s = "raw" THEN Filename(p) ELSE With(Filename(p), "xml")
BadnameOf(p, s) == With(CurrentOf(p, s), "bad")

\* The names that a step uses are those of its packet and stage.
LEMMA CurrentIs == Current = CurrentOf(pkt, stage) /\ Badname = BadnameOf(pkt, stage)
  BY DEF Current, Badname, CurrentOf, BadnameOf

\* What the names computed by Store are: the name to be replaced is the raw data
\* of the invalid copy, or no name under which anything is stored.
LEMMA NamesUsed ==
    ASSUME NEW p \in Packet, NEW s \in {"raw", "meta"}
    PROVE  /\ p.name \in Names
           /\ p.bad => Filename(p) = Bad(p.name)
           /\ ~p.bad => Filename(p) = Good(p.name)
           /\ s = "raw" => CurrentOf(p, s) = Filename(p)
           /\ s = "meta" /\ p.bad => CurrentOf(p, s) = BadXml(p.name)
           /\ s = "meta" /\ ~p.bad => CurrentOf(p, s) = Xml(p.name)
           /\ CurrentOf(p, s) \in File /\ CurrentOf(p, s)[1] = p.name
           /\ BadnameOf(p, s)[1] = p.name
           /\ s = "raw" /\ ~p.bad => BadnameOf(p, s) = Bad(p.name)
           /\ s = "meta" \/ p.bad => BadnameOf(p, s) \notin File
           /\ BadnameOf(p, s) # CurrentOf(p, s)
<1>1. p.name \in Names
  BY DEF Packet
<1>2. /\ p.bad => Filename(p) = Bad(p.name)
      /\ ~p.bad => Filename(p) = Good(p.name)
  BY DEF Filename, Good, Bad
<1>3. /\ With(Good(p.name), "bad") = Bad(p.name)
      /\ With(Good(p.name), "xml") = Xml(p.name)
      /\ With(Bad(p.name), "xml") = BadXml(p.name)
  BY SuffixAppend DEF With, Good, Bad, Xml, BadXml
<1>4. /\ With(Bad(p.name), "bad") \notin File
      /\ With(Xml(p.name), "bad") \notin File
      /\ With(BadXml(p.name), "bad") \notin File
  BY SuffixAppend DEF With, Bad, Xml, BadXml, File
<1>5. /\ s = "raw" => CurrentOf(p, s) = Filename(p)
      /\ s = "meta" /\ p.bad => CurrentOf(p, s) = BadXml(p.name)
      /\ s = "meta" /\ ~p.bad => CurrentOf(p, s) = Xml(p.name)
  BY <1>2, <1>3 DEF CurrentOf
<1>6. \/ CurrentOf(p, s) = Good(p.name) /\ s = "raw" /\ ~p.bad
      \/ CurrentOf(p, s) = Bad(p.name) /\ p.bad
      \/ CurrentOf(p, s) = Xml(p.name) /\ s = "meta"
      \/ CurrentOf(p, s) = BadXml(p.name) /\ s = "meta"
  BY <1>2, <1>5
<1>7. CurrentOf(p, s) \in File /\ CurrentOf(p, s)[1] = p.name
  BY <1>1, <1>6, FilesType
<1>8. BadnameOf(p, s)[1] = p.name
  BY <1>7 DEF BadnameOf, With
<1>9. /\ s = "raw" /\ ~p.bad => BadnameOf(p, s) = Bad(p.name)
      /\ s = "meta" \/ p.bad => BadnameOf(p, s) \notin File
  BY <1>3, <1>4, <1>6 DEF BadnameOf
<1>10. BadnameOf(p, s) # CurrentOf(p, s)
  BY <1>2, <1>5, <1>7, <1>9, FilesDiffer
<1> QED
  BY <1>1, <1>2, <1>5, <1>7, <1>8, <1>9, <1>10

-----------------------------------------------------------------------------
(* The inductive invariants. *)

Typed ==
    /\ call \in {"idle", "remove", "create", "fill", "unlink", "unbad", "link"}
    /\ pkt \in Packet
    /\ stage \in {"raw", "meta"}
    /\ data \subseteq File /\ torn \subseteq File /\ share \subseteq File
    /\ acked \subseteq Packet
    /\ faults \in Nat

Here == data \cup torn

\* What Store has written so far: the file is there from Create on, and the raw
\* data of an image while its metadata is written.
Written ==
    /\ call = "fill" => Current \in torn
    /\ call \in {"unlink", "unbad", "link"} => Current \in Here
    /\ stage = "meta" /\ call # "idle" => Filename(pkt) \in Here

\* Types at first.
LEMMA TypedInit == StoreInit => Typed /\ Written
  BY DEF StoreInit, Typed, Written

\* Every step keeps the types.
LEMMA TypedStep == Typed /\ [StoreNext]_storeVars => Typed'
<1> SUFFICES ASSUME Typed, [StoreNext]_storeVars PROVE Typed'
  OBVIOUS
<1>0. Current \in File
  BY CurrentIs, NamesUsed DEF Typed
<1>1. ASSUME NEW p \in Packet, Store(p) PROVE Typed'
  BY <1>1 DEF Typed, Store
<1>2. CASE StoreRefused
  BY <1>2 DEF Typed, StoreRefused, Fault
<1>3. CASE MetadataRefused
  BY <1>3 DEF Typed, MetadataRefused, Fault
<1>4. CASE Remove
  BY <1>4 DEF Typed, Remove
<1>5. CASE Create
  BY <1>0, <1>5 DEF Typed, Create
<1>6. CASE Fill
  <2>1. /\ data' \subseteq File /\ torn' \subseteq File /\ UNCHANGED <<pkt, share, faults>>
    BY <1>0, <1>6 DEF Typed, Fill
  <2>2. /\ call' \in {"unlink", "remove", "idle"} /\ stage' \in {stage, "meta"}
        /\ acked' \in {acked, acked \cup {pkt}}
    BY <1>6 DEF Fill, AfterFile
  <2> QED
    BY <2>1, <2>2 DEF Typed
<1>7. CASE WriteFails
  BY <1>7 DEF Typed, WriteFails, Fault
<1>8. CASE Unlink
  BY <1>8 DEF Typed, Unlink
<1>9. CASE UnlinkBad
  BY <1>9 DEF Typed, UnlinkBad
<1>10. CASE Link
  <2>1. /\ share' \subseteq File /\ UNCHANGED <<pkt, data, torn, faults>>
    BY <1>0, <1>10 DEF Typed, Link
  <2>2. /\ call' \in {"remove", "idle"} /\ stage' \in {stage, "meta"}
        /\ acked' \in {acked, acked \cup {pkt}}
    BY <1>10 DEF Link, AfterFile
  <2> QED
    BY <2>1, <2>2 DEF Typed
<1>11. CASE LinkFails
  BY <1>11 DEF Typed, LinkFails, Fault
<1>12. CASE Crash
  BY <1>12 DEF Typed, Crash, Fault
<1>13. CASE UNCHANGED storeVars
  BY <1>13 DEF Typed, storeVars
<1>14. ASSUME NEW p \in Packet, StatFails(p) PROVE Typed'
  BY <1>14 DEF Typed, StatFails, Fault
<1>15. CASE RemoveFails
  BY <1>15 DEF Typed, RemoveFails, Fault
<1>16. CASE UnlinkFails
  BY <1>16 DEF Typed, UnlinkFails, Fault
<1> QED
  BY <1>1, <1>2, <1>3, <1>4, <1>5, <1>6, <1>7, <1>8, <1>9, <1>10, <1>11, <1>12, <1>13,
     <1>14, <1>15, <1>16
     DEF StoreNext, Finished

\* Every step keeps what is known of the file that is being written.
LEMMA WrittenStep == Typed /\ Written /\ [StoreNext]_storeVars => Written'
<1> SUFFICES ASSUME Typed, Written, [StoreNext]_storeVars PROVE Written'
  OBVIOUS
<1>0. /\ pkt \in Packet /\ stage \in {"raw", "meta"}
      /\ data \subseteq File /\ torn \subseteq File
  BY DEF Typed
<1>c. /\ Current = CurrentOf(pkt, stage) /\ Badname = BadnameOf(pkt, stage)
      /\ Current' = CurrentOf(pkt', stage')
  BY CurrentIs DEF Current, CurrentOf
<1>1. ASSUME NEW p \in Packet, Store(p) PROVE Written'
  BY <1>1 DEF Written, Store
<1>2. CASE StoreRefused
  BY <1>2 DEF Written, StoreRefused
<1>3. CASE MetadataRefused \/ WriteFails \/ LinkFails \/ Crash
  <2>1. call' = "idle"
    BY <1>3 DEF MetadataRefused, WriteFails, LinkFails, Crash
  <2> QED
    BY <2>1 DEF Written
<1>4. CASE Remove
  <2>1. call' = "create" /\ call = "remove" /\ stage' = stage /\ pkt' = pkt
    BY <1>4 DEF Remove
  <2>2. ASSUME stage = "meta" PROVE Here' = Here
    <3>1. Badname \notin File
      BY <1>0, <1>c, <2>2, NamesUsed
    <3> QED
      BY <1>0, <1>4, <3>1 DEF Remove, Here
  <2>3. stage = "meta" => Filename(pkt) \in Here'
    BY <2>1, <2>2 DEF Written
  <2> QED
    BY <2>1, <2>3 DEF Written
<1>5. CASE Create
  <2>1. /\ call' = "fill" /\ call = "create" /\ stage' = stage /\ pkt' = pkt
        /\ Current \in torn' /\ Here' = Here \cup {Current}
    BY <1>5 DEF Create, Here
  <2>2. Current' = Current
    BY <1>c, <2>1
  <2> QED
    BY <2>1, <2>2 DEF Written
<1>6. CASE Fill
  <2>1. /\ call = "fill" /\ pkt' = pkt /\ Here' = Here \cup {Current} /\ Current \in Here'
    BY <1>6 DEF Fill, Here
  <2>2. \/ call' = "unlink" /\ stage' = stage
        \/ call' = "remove" /\ stage = "raw"
        \/ call' = "idle"
    BY <1>6 DEF Fill, AfterFile
  <2>3. CASE call' = "unlink" /\ stage' = stage
    <3>1. Current' = Current
      BY <1>c, <2>1, <2>3
    <3> QED
      BY <2>1, <2>3, <3>1 DEF Written
  <2>4. CASE call' = "remove" /\ stage = "raw"
    <3>1. Filename(pkt) = Current
      BY <1>0, <1>c, <2>4, NamesUsed
    <3> QED
      BY <2>1, <2>4, <3>1 DEF Written
  <2>5. CASE call' = "idle"
    BY <2>5 DEF Written
  <2> QED
    BY <2>2, <2>3, <2>4, <2>5
<1>7. CASE Unlink \/ UnlinkBad \/ UnlinkFails
  <2>1. /\ call \in {"unlink", "unbad"} /\ call' \in {"unbad", "link"}
        /\ UNCHANGED <<pkt, stage, data, torn>>
    BY <1>7 DEF Unlink, UnlinkBad, UnlinkFails
  <2>2. Current' = Current /\ Here' = Here
    BY <1>c, <2>1 DEF Here
  <2> QED
    BY <2>1, <2>2 DEF Written
<1>8. CASE Link
  <2>1. call = "link" /\ UNCHANGED <<pkt, data, torn>>
    BY <1>8 DEF Link
  <2>2. (call' = "remove" /\ stage = "raw") \/ call' = "idle"
    BY <1>8 DEF Link, AfterFile
  <2>3. stage = "raw" => Filename(pkt) = Current
    BY <1>0, <1>c, NamesUsed
  <2>4. Here' = Here
    BY <2>1 DEF Here
  <2> QED
    BY <2>1, <2>2, <2>3, <2>4 DEF Written
<1>9. CASE UNCHANGED storeVars
  <2>1. Current' = Current /\ Here' = Here
    BY <1>c, <1>9 DEF Here, storeVars
  <2> QED
    BY <1>9, <2>1 DEF Written, storeVars
<1>10. ASSUME NEW p \in Packet, StatFails(p) PROVE Written'
  BY <1>10 DEF Written, StatFails
<1>11. CASE RemoveFails
  <2>1. call' = "create" /\ call = "remove" /\ UNCHANGED <<stage, pkt>> /\ Here' = Here
    BY <1>11 DEF RemoveFails, Here
  <2> QED
    BY <2>1 DEF Written
<1> QED
  BY <1>1, <1>2, <1>3, <1>4, <1>5, <1>6, <1>7, <1>8, <1>9, <1>10, <1>11
     DEF StoreNext, Finished

-----------------------------------------------------------------------------
(* How a step changes the files that are there. *)

\* What a step can add to the data directory, and what it can take away.
LEMMA HereStep ==
    ASSUME Typed, Written, [StoreNext]_storeVars
    PROVE  \/ Here' = Here
           \/ Remove /\ RemoveBad /\ stage = "raw" /\ ~pkt.bad
                /\ Here' = Here \ {Bad(pkt.name)}
           \/ Create /\ Here' = Here \cup {Current}
<1>0. /\ pkt \in Packet /\ stage \in {"raw", "meta"}
      /\ data \subseteq File /\ torn \subseteq File
  BY DEF Typed
<1>1. CASE Remove
  <2>1. \/ UNCHANGED <<data, torn>>
        \/ RemoveBad /\ data' = data \ {Badname} /\ torn' = torn \ {Badname}
    BY <1>1 DEF Remove
  <2>2. /\ stage = "raw" /\ ~pkt.bad => Badname = Bad(pkt.name)
        /\ stage = "meta" \/ pkt.bad => Badname \notin File
    BY <1>0, CurrentIs, NamesUsed
  <2>3. CASE UNCHANGED <<data, torn>>
    BY <2>3 DEF Here
  <2>4. CASE RemoveBad /\ data' = data \ {Badname} /\ torn' = torn \ {Badname}
    <3>1. Here' = Here \ {Badname}
      BY <2>4 DEF Here
    <3>2. CASE stage = "raw" /\ ~pkt.bad
      BY <1>1, <2>2, <2>4, <3>1, <3>2
    <3>3. CASE stage = "meta" \/ pkt.bad
      <4>1. Badname \notin Here
        BY <1>0, <2>2, <3>3 DEF Here
      <4> QED
        BY <3>1, <4>1
    <3> QED
      BY <1>0, <3>2, <3>3
  <2> QED
    BY <2>1, <2>3, <2>4
<1>2. CASE Create
  BY <1>2 DEF Create, Here
<1>3. CASE Fill
  BY <1>3 DEF Fill, Here, Written
<1>4. CASE \/ \E p \in Packet : Store(p) \/ StatFails(p)
           \/ StoreRefused \/ MetadataRefused \/ RemoveFails \/ WriteFails \/ Unlink
           \/ UnlinkBad \/ UnlinkFails \/ Link \/ LinkFails \/ Crash \/ UNCHANGED storeVars
  <2>1. UNCHANGED <<data, torn>>
    BY <1>4 DEF Store, StatFails, StoreRefused, MetadataRefused, RemoveFails, WriteFails,
       Unlink, UnlinkBad, UnlinkFails, Link, LinkFails, Crash, storeVars
  <2> QED
    BY <2>1 DEF Here
<1> QED
  BY <1>1, <1>2, <1>3, <1>4 DEF StoreNext, Finished

\* No step removes a valid raw file.
LEMMA GoodKept ==
    ASSUME Typed, Written, [StoreNext]_storeVars, NEW x
    PROVE  Good(x) \in Here => Good(x) \in Here'
  BY HereStep, FilesDiffer

-----------------------------------------------------------------------------
(* A valid packet and its invalid copy. *)

\* While Store writes the raw data of a packet, the other copy is not there: a
\* valid one was looked for before, an invalid one is removed before, unless
\* that failed.
Excluded ==
    RemoveBad =>
        /\ \A x \in Names \ spared : ~(Good(x) \in Here /\ Bad(x) \in Here)
        /\ call = "create" /\ stage = "raw" /\ ~pkt.bad
              => Bad(pkt.name) \notin Here \/ pkt.name \in spared
        /\ call \in {"remove", "create"} /\ stage = "raw" /\ pkt.bad
              => Good(pkt.name) \notin Here \/ pkt.name \in spared

\* A removal that succeeds takes back what was excepted for its name, and for no
\* other one.
LEMMA SparedRemove ==
    ASSUME Typed, RemoveBad, Remove
    PROVE  \/ stage = "raw" /\ ~pkt.bad /\ spared' = spared \ {pkt.name}
           \/ (stage = "meta" \/ pkt.bad) /\ \A x \in Names : x \in spared' <=> x \in spared
<1>0. pkt \in Packet /\ stage \in {"raw", "meta"}
  BY DEF Typed
<1>1. CASE stage = "raw" /\ ~pkt.bad
  <2>1. Badname = Bad(pkt.name) /\ pkt.name \in Names
    BY <1>0, <1>1, CurrentIs, NamesUsed
  <2>2. \A x \in Names : Badname = <<x, <<"bad">>>> <=> x = pkt.name
    BY <2>1, FilesDiffer DEF Bad
  <2>3. {x \in Names : Badname = <<x, <<"bad">>>>} = {pkt.name}
    BY <2>1, <2>2
  <2>4. spared' = spared \ {x \in Names : Badname = <<x, <<"bad">>>>}
    BY <1>1 DEF Remove
  <2> QED
    BY <1>1, <2>3, <2>4
<1>2. CASE stage = "meta" \/ pkt.bad
  <2>1. Badname \notin File
    BY <1>0, <1>2, CurrentIs, NamesUsed
  <2>2. \A x \in Names : Badname # <<x, <<"bad">>>>
    BY <2>1, FilesType DEF Bad
  <2>3. \/ spared' = spared
        \/ spared' = spared \ {x \in Names : Badname = <<x, <<"bad">>>>}
    BY DEF Remove
  <2> QED
    BY <1>2, <2>2, <2>3
<1> QED
  BY <1>0, <1>1, <1>2

\* Every step keeps valid and invalid copies apart.
LEMMA ExcludedStep == Typed /\ Written /\ Excluded /\ [StoreNext]_storeVars => Excluded'
<1> DEFINE Apart ==
              /\ \A x \in Names \ spared' : ~(Good(x) \in Here' /\ Bad(x) \in Here')
              /\ call' = "create" /\ stage' = "raw" /\ ~pkt'.bad
                    => Bad(pkt'.name) \notin Here' \/ pkt'.name \in spared'
              /\ call' \in {"remove", "create"} /\ stage' = "raw" /\ pkt'.bad
                    => Good(pkt'.name) \notin Here' \/ pkt'.name \in spared'
<1> SUFFICES ASSUME Typed, Written, Excluded, [StoreNext]_storeVars, RemoveBad
             PROVE  Apart
  BY DEF Excluded
<1>0. /\ pkt \in Packet /\ stage \in {"raw", "meta"} /\ pkt.name \in Names
  BY DEF Typed, Packet
<1>i. /\ \A x \in Names \ spared : ~(Good(x) \in Here /\ Bad(x) \in Here)
      /\ call = "create" /\ stage = "raw" /\ ~pkt.bad
            => Bad(pkt.name) \notin Here \/ pkt.name \in spared
      /\ call \in {"remove", "create"} /\ stage = "raw" /\ pkt.bad
            => Good(pkt.name) \notin Here \/ pkt.name \in spared
  BY DEF Excluded
<1>1. CASE Create
  <2>1. call' = "fill" /\ call = "create" /\ Here' = Here \cup {Current} /\ spared' = spared
    BY <1>1 DEF Create, Here
  <2>2. \/ stage = "raw" /\ ~pkt.bad /\ Current = Good(pkt.name)
        \/ stage = "raw" /\ pkt.bad /\ Current = Bad(pkt.name)
        \/ Current = Xml(pkt.name)
        \/ Current = BadXml(pkt.name)
    BY <1>0, CurrentIs, NamesUsed
  <2>3. ASSUME NEW x \in Names \ spared, Good(x) \in Here', Bad(x) \in Here' PROVE FALSE
    <3>1. CASE stage = "raw" /\ ~pkt.bad /\ Current = Good(pkt.name)
      BY <1>i, <2>1, <2>3, <3>1, FilesDiffer
    <3>2. CASE stage = "raw" /\ pkt.bad /\ Current = Bad(pkt.name)
      BY <1>i, <2>1, <2>3, <3>2, FilesDiffer
    <3>3. CASE Current = Xml(pkt.name) \/ Current = BadXml(pkt.name)
      BY <1>i, <2>1, <2>3, <3>3, FilesDiffer
    <3> QED
      BY <2>2, <3>1, <3>2, <3>3
  <2> QED
    BY <2>1, <2>3
<1>2. CASE Remove
  <2>1. /\ call = "remove" /\ call' = "create" /\ stage' = stage /\ pkt' = pkt
        /\ Here' = Here \/ Here' = Here \ {Bad(pkt.name)}
    BY <1>2, HereStep DEF Remove, Create
  <2>2. ASSUME stage = "raw", ~pkt.bad PROVE Bad(pkt.name) \notin Here'
    <3>1. Badname = Bad(pkt.name)
      BY <1>0, <2>2, CurrentIs, NamesUsed
    <3> QED
      BY <1>2, <2>2, <3>1 DEF Remove, Here
  <2>3. \A x \in Names \ spared' : ~(Good(x) \in Here' /\ Bad(x) \in Here')
    BY <1>0, <1>2, <1>i, <2>1, <2>2, SparedRemove
  <2>4. pkt.bad => (pkt.name \in spared' <=> pkt.name \in spared)
    BY <1>0, <1>2, SparedRemove
  <2> QED
    BY <1>i, <2>1, <2>2, <2>3, <2>4
<1>3. ASSUME NEW p \in Packet, Store(p)
      PROVE  call' = call \/ ~pkt'.bad \/ Good(pkt'.name) \notin Here'
  <2>1. UNCHANGED <<data, torn>>
    BY <1>3 DEF Store
  <2>2. CASE Superseded(p)
    BY <1>3, <2>2 DEF Store
  <2>3. CASE ~Superseded(p)
    <3>1. pkt' = p
      BY <1>3, <2>3 DEF Store
    <3> QED
      BY <2>1, <2>3, <3>1 DEF Superseded, Here, Good
  <2> QED
    BY <2>2, <2>3
<1>4. ASSUME NEW p \in Packet, Store(p) PROVE Apart
  <2>1. /\ UNCHANGED <<data, torn, spared>> /\ call = "idle" /\ call' \in {"idle", "remove"}
    BY <1>4 DEF Store
  <2>2. Here' = Here
    BY <2>1 DEF Here
  <2>3. call' = "remove" => ~pkt'.bad \/ Good(pkt'.name) \notin Here'
    BY <1>3, <1>4, <2>1
  <2> QED
    BY <1>i, <2>1, <2>2, <2>3
<1>5. CASE \/ StoreRefused \/ MetadataRefused \/ Fill \/ WriteFails
           \/ Unlink \/ UnlinkBad \/ UnlinkFails \/ Link \/ LinkFails \/ Crash
           \/ UNCHANGED storeVars
  <2>1. \/ call' \in {"idle", "unlink", "unbad", "link"}
        \/ call' = "remove" /\ stage' = "meta"
        \/ UNCHANGED storeVars
    BY <1>5 DEF StoreRefused, MetadataRefused, Fill, WriteFails, Unlink, UnlinkBad,
       UnlinkFails, Link, LinkFails, Crash, AfterFile
  <2>2. Here' = Here /\ spared' = spared
    BY <1>5 DEF StoreRefused, MetadataRefused, Fill, WriteFails, Unlink, UnlinkBad,
       UnlinkFails, Link, LinkFails, Crash, AfterFile, Here, Written, storeVars
  <2> QED
    BY <1>i, <2>1, <2>2 DEF storeVars
<1>6. ASSUME NEW p \in Packet, StatFails(p) PROVE Apart
  <2>1. /\ UNCHANGED <<data, torn>> /\ call' = "remove" /\ pkt' = p
        /\ spared' = spared \cup {p.name}
    BY <1>6 DEF StatFails
  <2>2. Here' = Here
    BY <2>1 DEF Here
  <2> QED
    BY <1>i, <2>1, <2>2
<1>7. CASE RemoveFails
  <2>1. /\ UNCHANGED <<data, torn, pkt>> /\ call' = "create"
        /\ spared' = spared \cup {pkt.name}
    BY <1>7 DEF RemoveFails
  <2>2. Here' = Here
    BY <2>1 DEF Here
  <2> QED
    BY <1>i, <2>1, <2>2
<1> QED
  BY <1>1, <1>2, <1>4, <1>5, <1>6, <1>7 DEF StoreNext, Finished

\* In whatever order the valid and the invalid copy of a packet arrive, and
\* wherever Store fails or the process dies, the two are both there only if the
\* stat or the removal of which Store ignores the error failed.
THEOREM CopiesExclude == StoreSpec => []GoodExcludesBad
<1>1. StoreInit => Typed /\ Written /\ Excluded
  <2>1. StoreInit => Here = {}
    BY DEF StoreInit, Here
  <2>2. StoreInit => Excluded
    BY <2>1 DEF StoreInit, Excluded
  <2> QED
    BY <2>2, TypedInit
<1>2. Typed /\ Written /\ Excluded /\ [StoreNext]_storeVars => Typed' /\ Written' /\ Excluded'
  BY TypedStep, WrittenStep, ExcludedStep
<1>3. Excluded => GoodExcludesBad
  BY DEF Excluded, GoodExcludesBad, Good, Bad, Here
<1> QED
  BY <1>1, <1>2, <1>3, PTL DEF StoreSpec

-----------------------------------------------------------------------------
(* What was acknowledged stays. *)

Kept == \A p \in acked : ~p.bad => Good(p.name) \in Here

\* Each fault leaves at most one file incomplete.
Damaged ==
    /\ IsFiniteSet(torn)
    /\ Cardinality(torn) <= faults + (IF call = "fill" THEN 1 ELSE 0)

\* Every step keeps the files of acknowledged packets.
LEMMA KeptStep == Typed /\ Written /\ Kept /\ [StoreNext]_storeVars => Kept'
<1> SUFFICES ASSUME Typed, Written, Kept, [StoreNext]_storeVars,
                    NEW p \in acked', ~p.bad
             PROVE  Good(p.name) \in Here'
  BY DEF Kept
<1>1. CASE p \in acked
  BY <1>1, GoodKept DEF Kept
<1>2. CASE p \notin acked
  <2>0. pkt \in Packet /\ stage \in {"raw", "meta"}
    BY DEF Typed
  <2>1. p = pkt /\ (Fill \/ Link)
    <3>1. CASE Fill \/ Link
      BY <1>2, <3>1 DEF Fill, Link, AfterFile
    <3>2. CASE ~(Fill \/ Link)
      <4>1. acked' = acked
        BY <3>2 DEF StoreNext, Store, StatFails, StoreRefused, MetadataRefused, Remove,
           RemoveFails, Create, WriteFails, Unlink, UnlinkBad, UnlinkFails, LinkFails,
           Crash, Finished, storeVars
      <4> QED
        BY <1>2, <4>1
    <3> QED
      BY <3>1, <3>2
  <2>2. Filename(pkt) = Good(pkt.name)
    BY <2>0, <2>1, NamesUsed
  <2>3. Current \in Here /\ Here' = Here
    BY <2>1, HereStep DEF Fill, Link, Written, Here, Remove, Create
  <2>4. stage = "raw" => Current = Filename(pkt)
    BY <2>0, CurrentIs, NamesUsed
  <2>5. stage = "meta" => Filename(pkt) \in Here
    BY <2>1 DEF Written, Fill, Link
  <2> QED
    BY <2>0, <2>1, <2>2, <2>3, <2>4, <2>5
<1> QED
  BY <1>1, <1>2

\* Every step that leaves a file torn is a fault, and one fault tears one file.
LEMMA DamagedStep == Typed /\ Written /\ Damaged /\ [StoreNext]_storeVars => Damaged'
<1> SUFFICES ASSUME Typed, Written, Damaged, [StoreNext]_storeVars PROVE Damaged'
  OBVIOUS
<1>0. /\ IsFiniteSet(torn) /\ Cardinality(torn) \in Nat /\ faults \in Nat
      /\ Cardinality(torn) <= faults + (IF call = "fill" THEN 1 ELSE 0)
  BY FS_CardinalityType DEF Typed, Damaged
<1>1. CASE Remove
  <2>1. torn' \in SUBSET torn /\ call = "remove" /\ call' = "create" /\ faults' = faults
    BY <1>1 DEF Remove
  <2>2. IsFiniteSet(torn') /\ Cardinality(torn') <= Cardinality(torn)
    BY <1>0, <2>1, FS_Subset
  <2>3. Cardinality(torn') \in Nat
    BY <2>2, FS_CardinalityType
  <2> QED
    BY <1>0, <2>1, <2>2, <2>3 DEF Damaged
<1>2. CASE Create
  <2>1. torn' = torn \cup {Current} /\ call = "create" /\ call' = "fill" /\ faults' = faults
    BY <1>2 DEF Create
  <2>2. IsFiniteSet(torn') /\ Cardinality(torn') <= Cardinality(torn) + 1
    BY <1>0, <2>1, FS_AddElement
  <2>3. Cardinality(torn') \in Nat
    BY <2>2, FS_CardinalityType
  <2> QED
    BY <1>0, <2>1, <2>2, <2>3 DEF Damaged
<1>3. CASE Fill
  <2>1. /\ torn' = torn \ {Current} /\ Current \in torn
        /\ call = "fill" /\ call' # "fill" /\ faults' = faults
    BY <1>3 DEF Fill, AfterFile, Written
  <2>2. IsFiniteSet(torn') /\ Cardinality(torn') = Cardinality(torn) - 1
    BY <1>0, <2>1, FS_RemoveElement
  <2> QED
    BY <1>0, <2>1, <2>2 DEF Damaged
<1>4. CASE MetadataRefused \/ WriteFails \/ LinkFails \/ Crash
  <2>1. torn' = torn /\ call' = "idle" /\ faults' = faults + 1
    BY <1>4 DEF MetadataRefused, WriteFails, LinkFails, Crash, Fault
  <2> QED
    BY <1>0, <2>1 DEF Damaged
<1>5. CASE StoreRefused
  <2>1. torn' = torn /\ call' = call /\ faults' = faults + 1
    BY <1>5 DEF StoreRefused, Fault
  <2> QED
    BY <1>0, <2>1 DEF Damaged
<1>6. CASE (\E p \in Packet : Store(p)) \/ Unlink \/ UnlinkBad \/ Link \/ UNCHANGED storeVars
  <2>1. torn' = torn /\ faults' = faults /\ (call' = call \/ (call # "fill" /\ call' # "fill"))
    BY <1>6 DEF Store, Unlink, UnlinkBad, Link, AfterFile, storeVars
  <2> QED
    BY <1>0, <2>1 DEF Damaged
<1>7. CASE (\E p \in Packet : StatFails(p)) \/ RemoveFails \/ UnlinkFails
  <2>1. torn' = torn /\ call # "fill" /\ call' # "fill" /\ faults' = faults + 1
    BY <1>7 DEF StatFails, RemoveFails, UnlinkFails, Fault
  <2> QED
    BY <1>0, <2>1 DEF Damaged
<1> QED
  BY <1>1, <1>2, <1>3, <1>4, <1>5, <1>6, <1>7 DEF StoreNext, Finished

\* At first nothing is acknowledged and nothing torn.
LEMMA AckedInit == StoreInit => Kept /\ Damaged
<1>1. StoreInit => Cardinality(torn) = 0 /\ IsFiniteSet(torn)
  BY FS_EmptySet DEF StoreInit
<1> QED
  BY <1>1 DEF StoreInit, Kept, Damaged

\* The file of a valid packet whose Store returned nil stays, and a fault leaves
\* at most the one file being written incomplete.
THEOREM AcknowledgedKept == StoreSpec => []AckedStays
<1>1. StoreInit => Typed /\ Written /\ Kept /\ Damaged
  BY TypedInit, AckedInit
<1>2. Typed /\ Written /\ Kept /\ Damaged /\ [StoreNext]_storeVars
        => Typed' /\ Written' /\ Kept' /\ Damaged'
  BY TypedStep, WrittenStep, KeptStep, DamagedStep
<1>3. Typed /\ Kept /\ Damaged => AckedStays
  <2>1. ASSUME Typed, Kept, NEW p \in acked, ~p.bad
        PROVE  Filename(p) \in data \cup torn
    <3>1. p \in Packet
      BY <2>1 DEF Typed
    <3>2. Filename(p) = Good(p.name)
      BY <2>1, <3>1, NamesUsed
    <3> QED
      BY <2>1, <3>2 DEF Kept, Here
  <2> QED
    BY <2>1 DEF Damaged, AckedStays
<1> QED
  BY <1>1, <1>2, <1>3, PTL DEF StoreSpec

-----------------------------------------------------------------------------
(* Metadata and raw data. *)

\* The raw data of an invalid image with metadata is there, or the valid copy
\* is, or is just about to be created.
Described ==
    \A x \in Names :
        /\ Xml(x) \in Here => Good(x) \in Here
        /\ BadXml(x) \in Here /\ faults = 0 =>
              \/ Bad(x) \in Here
              \/ Good(x) \in Here
              \/ call = "create" /\ stage = "raw" /\ ~pkt.bad /\ pkt.name = x

\* Every step keeps metadata with the raw data it describes.
LEMMA DescribedStep == Typed /\ Written /\ Described /\ [StoreNext]_storeVars => Described'
<1> SUFFICES ASSUME Typed, Written, Described, [StoreNext]_storeVars, NEW x \in Names
             PROVE  /\ Xml(x) \in Here' => Good(x) \in Here'
                    /\ BadXml(x) \in Here' /\ faults' = 0 =>
                          \/ Bad(x) \in Here'
                          \/ Good(x) \in Here'
                          \/ call' = "create" /\ stage' = "raw" /\ ~pkt'.bad /\ pkt'.name = x
  BY DEF Described
<1>0. pkt \in Packet /\ stage \in {"raw", "meta"} /\ faults \in Nat
  BY DEF Typed
<1>i. /\ Xml(x) \in Here => Good(x) \in Here
      /\ BadXml(x) \in Here /\ faults = 0 =>
            \/ Bad(x) \in Here
            \/ Good(x) \in Here
            \/ call = "create" /\ stage = "raw" /\ ~pkt.bad /\ pkt.name = x
  BY DEF Described
<1>g. Good(x) \in Here => Good(x) \in Here'
  BY GoodKept
<1>f. faults' = 0 => faults = 0
  <2>1. faults' = faults \/ faults' = faults + 1
    BY DEF StoreNext, Store, StatFails, StoreRefused, MetadataRefused, Remove, RemoveFails,
       Create, Fill, WriteFails, Unlink, UnlinkBad, UnlinkFails, Link, LinkFails, Crash,
       Finished, Fault, storeVars
  <2> QED
    BY <1>0, <2>1
<1>1. CASE Create
  <2>1. call = "create" /\ Here' = Here \cup {Current}
    BY <1>1 DEF Create, Here
  <2>2. \/ stage = "raw" /\ ~pkt.bad /\ Current = Good(pkt.name)
        \/ stage = "raw" /\ pkt.bad /\ Current = Bad(pkt.name)
        \/ stage = "meta" /\ ~pkt.bad /\ Current = Xml(pkt.name)
             /\ Good(pkt.name) \in Here
        \/ stage = "meta" /\ pkt.bad /\ Current = BadXml(pkt.name)
             /\ Bad(pkt.name) \in Here
    <3>1. stage = "meta" => Filename(pkt) \in Here
      BY <2>1 DEF Written
    <3> QED
      BY <1>0, <3>1, CurrentIs, NamesUsed
  <2>3. Xml(x) \in Here' => Good(x) \in Here'
    BY <1>i, <1>g, <2>1, <2>2, FilesDiffer
  <2>4. BadXml(x) \in Here' /\ faults' = 0 => Bad(x) \in Here' \/ Good(x) \in Here'
    <3>1. CASE BadXml(x) \in Here
      BY <1>i, <1>f, <2>1, <2>2, <3>1
    <3>2. CASE Current = BadXml(x)
      BY <2>1, <2>2, <3>2, FilesDiffer
    <3> QED
      BY <2>1, <3>1, <3>2
  <2> QED
    BY <2>3, <2>4
<1>2. CASE Remove
  <2>1. /\ call = "remove" /\ call' = "create" /\ stage' = stage /\ pkt' = pkt
        /\ \/ Here' = Here
           \/ stage = "raw" /\ ~pkt.bad /\ Here' = Here \ {Bad(pkt.name)}
    BY <1>2, HereStep DEF Remove, Create
  <2>2. CASE Here' = Here
    BY <1>i, <1>f, <2>1, <2>2
  <2>3. CASE stage = "raw" /\ ~pkt.bad /\ Here' = Here \ {Bad(pkt.name)}
    BY <1>i, <1>g, <1>f, <2>1, <2>3, FilesDiffer
  <2> QED
    BY <2>1, <2>2, <2>3
<1>3. CASE ~Create /\ ~Remove
  <2>1. Here' = Here
    BY <1>3, HereStep
  <2>2. call = "create" => (call' = call /\ UNCHANGED <<stage, pkt>>) \/ faults' # 0
    BY <1>0, <1>3 DEF StoreNext, Store, StatFails, StoreRefused, MetadataRefused, RemoveFails,
       Fill, WriteFails, Unlink, UnlinkBad, UnlinkFails, Link, LinkFails, Crash, Finished,
       Fault, storeVars
  <2> QED
    BY <1>i, <1>f, <2>1, <2>2
<1> QED
  BY <1>1, <1>2, <1>3

\* The metadata of a valid image always has its raw data next to it; that of an
\* invalid one has the valid or the invalid raw data, while nothing fails.
THEOREM MetadataDescribes == StoreSpec => []MetadataHasRaw
<1>1. StoreInit => Typed /\ Written /\ Described
  <2>1. StoreInit => Here = {}
    BY DEF StoreInit, Here
  <2>2. StoreInit => Described
    BY <2>1 DEF Described
  <2> QED
    BY <2>2, TypedInit
<1>2. Typed /\ Written /\ Described /\ [StoreNext]_storeVars => Typed' /\ Written' /\ Described'
  BY TypedStep, WrittenStep, DescribedStep
<1>3. Described => MetadataHasRaw
  BY DEF Described, MetadataHasRaw, Good, Bad, Xml, BadXml, Here
<1> QED
  BY <1>1, <1>2, <1>3, PTL DEF StoreSpec

-----------------------------------------------------------------------------
(* The share. *)

\* The playback files of a set, and the links to keep when the current file
\* replaces the invalid copy.
Playing(S) == {f \in S : f[1] \notin Realtime}
Cleaned(S) == IF RemoveBad THEN Playing(S) \ {Badname} ELSE Playing(S)

\* How the share differs from the data directory at each step of Store.
Mirrored ==
    HasShare /\ (RemoveBad <=> ShareRemoveBad) /\ faults = 0 =>
        /\ call \in {"idle", "remove"} => Playing(data) = Playing(share)
        /\ call = "create" => Playing(data) = Cleaned(share)
        /\ call = "fill" => Playing(data) = Cleaned(share) \ {Current}
        /\ call \in {"unlink", "unbad"} => Playing(data) = Cleaned(share) \cup Playing({Current})
        /\ call = "link" => Playing(data) = Playing(share) \cup Playing({Current})

\* Every step without a fault keeps the share in line with the data directory.
LEMMA MirroredStep == Typed /\ Mirrored /\ [StoreNext]_storeVars => Mirrored'
<1> SUFFICES ASSUME Typed, Mirrored, [StoreNext]_storeVars,
                    HasShare, RemoveBad <=> ShareRemoveBad, faults' = 0
             PROVE  /\ call' \in {"idle", "remove"} => Playing(data') = Playing(share')
                    /\ call' = "create" => Playing(data') = Cleaned(share)'
                    /\ call' = "fill" => Playing(data') = Cleaned(share)' \ {Current'}
                    /\ call' \in {"unlink", "unbad"}
                          => Playing(data') = Cleaned(share)' \cup Playing({Current'})
                    /\ call' = "link" => Playing(data') = Playing(share') \cup Playing({Current'})
  BY DEF Mirrored, Playing
<1>0. /\ pkt \in Packet /\ stage \in {"raw", "meta"} /\ faults \in Nat
  BY DEF Typed
<1>c. /\ Current[1] = pkt.name /\ Badname[1] = pkt.name /\ Badname # Current
  BY <1>0, CurrentIs, NamesUsed
<1>n. ASSUME UNCHANGED <<pkt, stage>>
      PROVE  Current' = Current /\ Badname' = Badname
  BY <1>n DEF Current, Badname
<1>f. /\ faults = 0 /\ ~StoreRefused /\ ~MetadataRefused /\ ~WriteFails /\ ~LinkFails
      /\ ~Crash /\ ~RemoveFails /\ ~UnlinkFails /\ \A p \in Packet : ~StatFails(p)
  <2>1. faults' = faults \/ faults' = faults + 1
    BY DEF StoreNext, Store, StatFails, StoreRefused, MetadataRefused, Remove, RemoveFails,
       Create, Fill, WriteFails, Unlink, UnlinkBad, UnlinkFails, Link, LinkFails, Crash,
       Finished, Fault, storeVars
  <2>2. StoreRefused \/ MetadataRefused \/ WriteFails \/ LinkFails \/ Crash
          \/ RemoveFails \/ UnlinkFails \/ (\E p \in Packet : StatFails(p))
          => faults' = faults + 1
    BY DEF StoreRefused, MetadataRefused, WriteFails, LinkFails, Crash, RemoveFails,
       UnlinkFails, StatFails, Fault
  <2> QED
    BY <1>0, <2>1, <2>2
<1>i. /\ call \in {"idle", "remove"} => Playing(data) = Playing(share)
      /\ call = "create" => Playing(data) = Cleaned(share)
      /\ call = "fill" => Playing(data) = Cleaned(share) \ {Current}
      /\ call \in {"unlink", "unbad"} => Playing(data) = Cleaned(share) \cup Playing({Current})
      /\ call = "link" => Playing(data) = Playing(share) \cup Playing({Current})
  BY <1>f DEF Mirrored
<1>p. ~Playback => \A S : Badname \notin Playing(S)
  BY <1>c DEF Playback, Playing
<1>1. ASSUME NEW p \in Packet, Store(p) PROVE Playing(data') = Playing(share') /\ call' \in {"idle", "remove"}
  BY <1>1, <1>i DEF Store
<1>2. CASE Remove
  <2>1. call = "remove" /\ call' = "create" /\ UNCHANGED <<pkt, stage, share>>
    BY <1>2 DEF Remove
  <2>2. Cleaned(share)' = Cleaned(share)
    BY <1>n, <2>1 DEF Cleaned, Playing
  <2>3. Playing(data') = Cleaned(share)
    <3>1. CASE RemoveBad /\ (stage = "raw" \/ Playback)
      <4>1. data' = data \ {Badname}
        BY <1>2, <3>1 DEF Remove
      <4>2. Playing(data') = Playing(data) \ {Badname}
        BY <4>1 DEF Playing
      <4> QED
        BY <1>i, <2>1, <3>1, <4>2 DEF Cleaned
    <3>2. CASE ~(RemoveBad /\ (stage = "raw" \/ Playback))
      <4>1. data' = data
        BY <1>2, <3>2 DEF Remove
      <4> QED
        BY <1>i, <1>p, <2>1, <3>2, <4>1 DEF Cleaned
    <3> QED
      BY <3>1, <3>2
  <2> QED
    BY <2>1, <2>2, <2>3
<1>3. CASE Create
  <2>1. /\ call = "create" /\ call' = "fill" /\ UNCHANGED <<pkt, stage, share>>
        /\ data' = data \ {Current}
    BY <1>3 DEF Create
  <2>2. Cleaned(share)' = Cleaned(share) /\ Current' = Current
    BY <1>n, <2>1 DEF Cleaned, Playing
  <2>3. Playing(data') = Playing(data) \ {Current}
    BY <2>1 DEF Playing
  <2> QED
    BY <1>i, <2>1, <2>2, <2>3
<1>4. CASE Fill
  <2>1. /\ call = "fill" /\ call' = "unlink" /\ UNCHANGED <<pkt, stage, share>>
        /\ data' = data \cup {Current}
    BY <1>4 DEF Fill
  <2>2. Cleaned(share)' = Cleaned(share) /\ Current' = Current
    BY <1>n, <2>1 DEF Cleaned, Playing
  <2>3. Playing(data') = Playing(data) \cup Playing({Current})
    BY <2>1 DEF Playing
  <2>4. \A f \in Cleaned(share) : f[1] \notin Realtime
    BY DEF Cleaned, Playing
  <2>5. (Cleaned(share) \ {Current}) \cup Playing({Current})
          = Cleaned(share) \cup Playing({Current})
    BY <2>4 DEF Playing
  <2> QED
    BY <1>i, <2>1, <2>2, <2>3, <2>5
<1>5. CASE Unlink
  <2>1. /\ call = "unlink" /\ call' = "unbad" /\ UNCHANGED <<pkt, stage, data>>
        /\ share' = share \ {Current}
    BY <1>5 DEF Unlink
  <2>2. Current' = Current /\ Badname' = Badname
    BY <1>n, <2>1
  <2>3. Cleaned(share)' = Cleaned(share) \ {Current}
    BY <2>1, <2>2 DEF Cleaned, Playing
  <2>4. \A f \in Cleaned(share) : f[1] \notin Realtime
    BY DEF Cleaned, Playing
  <2>5. (Cleaned(share) \ {Current}) \cup Playing({Current})
          = Cleaned(share) \cup Playing({Current})
    BY <2>4 DEF Playing
  <2> QED
    BY <1>i, <2>1, <2>2, <2>3, <2>5
<1>6. CASE UnlinkBad
  <2>1. /\ call = "unbad" /\ call' = "link" /\ UNCHANGED <<pkt, stage, data>>
        /\ share' = IF RemoveBad /\ Playback THEN share \ {Badname} ELSE share
    BY <1>6 DEF UnlinkBad
  <2>2. Current' = Current
    BY <1>n, <2>1
  <2>3. Playing(share') = Cleaned(share)
    <3>1. CASE RemoveBad /\ Playback
      BY <2>1, <3>1 DEF Cleaned, Playing
    <3>2. CASE ~(RemoveBad /\ Playback)
      BY <1>p, <2>1, <3>2 DEF Cleaned
    <3> QED
      BY <3>1, <3>2
  <2> QED
    BY <1>i, <2>1, <2>2, <2>3
<1>7. CASE Link
  <2>1. /\ call = "link" /\ call' \in {"remove", "idle"} /\ data' = data
        /\ share' = share \cup {Current}
    BY <1>7, Zenon DEF Link, AfterFile
  <2>2. Playing(share') = Playing(share) \cup Playing({Current})
    BY <2>1 DEF Playing
  <2> QED
    BY <1>i, <2>1, <2>2
<1>8. CASE UNCHANGED storeVars
  <2>1. UNCHANGED <<call, pkt, stage, data, share>>
    BY <1>8 DEF storeVars
  <2>2. Cleaned(share)' = Cleaned(share) /\ Current' = Current
    BY <1>n, <2>1 DEF Cleaned, Playing
  <2> QED
    BY <1>i, <2>1, <2>2
<1>9. CASE \E p \in Packet : Store(p)
  BY <1>1, <1>9
<1> QED
  BY <1>f, <1>2, <1>3, <1>4, <1>5, <1>6, <1>7, <1>8, <1>9 DEF StoreNext, Finished

\* As long as nothing fails, a share with the same keep-bad shows between two
\* calls of Store the playback files of the data directory and no others.
THEOREM ShareShows == StoreSpec => []ShareMirrors
<1>1. StoreInit => Typed /\ Mirrored
  <2>1. StoreInit => Mirrored
    BY DEF StoreInit, Mirrored, Playing
  <2> QED
    BY <2>1, TypedInit
<1>2. Typed /\ Mirrored /\ [StoreNext]_storeVars => Typed' /\ Mirrored'
  BY TypedStep, MirroredStep
<1>3. Mirrored => ShareMirrors
  BY DEF Mirrored, ShareMirrors, Playing
<1> QED
  BY <1>1, <1>2, <1>3, PTL DEF StoreSpec
=============================================================================
