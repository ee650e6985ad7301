---------------------------- MODULE ArchiveProofs ---------------------------
(***************************************************************************)
(* Proofs about the rolling storages and the replay command, for any       *)
(* configuration, any packets and any number of rotations and faults: what *)
(* Multistore.Store says is what the files hold, closed files stay as they *)
(* are, the scanner reads back what was written, and replay sends it in    *)
(* its order.                                                              *)
(***************************************************************************)
EXTENDS Replay, Lemmas, FiniteSetTheorems

-----------------------------------------------------------------------------
(* The checksum. *)

\* A sum of unsigned integers wraps.
Wrapped(x) == x % SumModulus

\* What the fold of WriteSum iterates, over subsets of the first n bytes.
Checks(f, sum, s, n) ==
    f = [T \in SUBSET (1 .. n) |->
            IF T = {} THEN sum ELSE Wrapped(f[T \ {Max(T)}] + s[Max(T)])]

\* A sum that wrapped is a natural number.
LEMMA WrappedNat ==
    ASSUME NEW x \in Nat, NEW y \in Nat
    PROVE  Wrapped(x + y) \in Nat
BY VmuAssumption DEF Wrapped

\* There is such a function.
LEMMA ChecksExists ==
    ASSUME NEW sum \in Nat, NEW s \in Seq(Nat)
    PROVE  \E f \in [SUBSET (1 .. Len(s)) -> Nat] : Checks(f, sum, s, Len(s))
<1> DEFINE S == {n \in 0 .. Len(s) : \E f \in [SUBSET (1 .. n) -> Nat] : Checks(f, sum, s, n)}
<1>1. 0 \in S
  <2>1. SUBSET (1 .. 0) = {{}}
    OBVIOUS
  <2> DEFINE f == [T \in SUBSET (1 .. 0) |-> sum]
  <2>2. f \in [SUBSET (1 .. 0) -> Nat]
    OBVIOUS
  <2>3. f = [T \in SUBSET (1 .. 0) |-> IF T = {} THEN sum ELSE Wrapped(f[T \ {Max(T)}] + s[Max(T)])]
    BY <2>1
  <2>4. Checks(f, sum, s, 0) /\ 0 \in 0 .. Len(s)
    BY <2>3 DEF Checks
  <2> HIDE DEF f
  <2> QED
    BY <2>2, <2>4
<1>2. ASSUME NEW n \in 0 .. Len(s) - 1, n \in S PROVE n + 1 \in S
  <2>1. PICK f \in [SUBSET (1 .. n) -> Nat] : Checks(f, sum, s, n)
    BY <1>2
  <2> DEFINE m == n + 1
             g == [T \in SUBSET (1 .. m) |-> IF m \in T THEN Wrapped(f[T \ {m}] + s[m]) ELSE f[T]]
  <2>2. \A T \in SUBSET (1 .. m) : T \ {m} \in SUBSET (1 .. n)
    OBVIOUS
  <2>3. \A T \in SUBSET (1 .. m) : m \notin T => T \in SUBSET (1 .. n)
    OBVIOUS
  <2>4. s[m] \in Nat /\ m \in Nat
    OBVIOUS
  <2>5. g \in [SUBSET (1 .. m) -> Nat]
    <3> HIDE DEF m
    <3>1. ASSUME NEW T \in SUBSET (1 .. m), m \in T
          PROVE  Wrapped(f[T \ {m}] + s[m]) \in Nat
      <4>1. f[T \ {m}] \in Nat
        BY <2>2
      <4> QED
        BY <2>4, <4>1, WrappedNat
    <3> QED
      BY <2>3, <3>1
  <2>6. ASSUME NEW T \in SUBSET (1 .. m)
        PROVE  g[T] = IF T = {} THEN sum ELSE Wrapped(g[T \ {Max(T)}] + s[Max(T)])
    <3>1. CASE T = {}
      BY <3>1, <2>1 DEF Checks
    <3>2. CASE m \in T
      <4>2. Max(T) = m
        <5> HIDE DEF m
        <5> QED
          BY <3>2, <2>4, LargestIs
      <4>3. m \notin T \ {m} /\ T \ {m} \in SUBSET (1 .. m)
        OBVIOUS
      <4> HIDE DEF m
      <4> QED
        BY <3>2, <4>2, <4>3
    <3>3. CASE m \notin T /\ T # {}
      <4>1. T \in SUBSET (1 .. n)
        BY <3>3, <2>3
      <4>2. f[T] = Wrapped(f[T \ {Max(T)}] + s[Max(T)])
        BY <2>1, <3>3, <4>1 DEF Checks
      <4>3. m \notin T \ {Max(T)} /\ T \ {Max(T)} \in SUBSET (1 .. m)
        BY <3>3
      <4> HIDE DEF m
      <4> QED
        BY <3>3, <4>2, <4>3
    <3> QED
      BY <3>1, <3>2, <3>3
  <2>7. Checks(g, sum, s, m)
    <3> HIDE DEF m
    <3>1. g = [T \in SUBSET (1 .. m) |-> g[T]]
      OBVIOUS
    <3> HIDE DEF g
    <3> QED
      BY <2>6, <3>1 DEF Checks
  <2>8. m \in 0 .. Len(s)
    OBVIOUS
  <2> HIDE DEF m, g
  <2> QED
    BY <2>5, <2>7, <2>8 DEF m
<1>3. \A i \in 0 .. Len(s) : i \in S
  <2> HIDE DEF S
  <2>1. Len(s) \in Nat
    OBVIOUS
  <2> QED
    BY <1>1, <1>2, <2>1, Induct
<1>4. Len(s) \in S
  <2> HIDE DEF S
  <2>1. Len(s) \in 0 .. Len(s)
    OBVIOUS
  <2> QED
    BY <1>3, <2>1, Zenon
<1> QED
  BY <1>4

\* It is the one that the fold uses.
LEMMA SumChecks ==
    ASSUME NEW sum \in Nat, NEW s \in Seq(Nat)
    PROVE  \E f : Checks(f, sum, s, Len(s)) /\ WriteSum(sum, s) = f[1 .. Len(s)]
<1>1. PICK f : Checks(f, sum, s, Len(s))
  BY ChecksExists
<1>2. DOMAIN s = 1 .. Len(s)
  OBVIOUS
<1>3. WriteSum(sum, s) = (CHOOSE g : Checks(g, sum, s, Len(s)))[1 .. Len(s)]
  BY <1>2, Zenon DEF WriteSum, FoldLeft, MapThenFoldSet, Checks, Wrapped
<1>4. Checks(CHOOSE g : Checks(g, sum, s, Len(s)), sum, s, Len(s))
  BY <1>1, Zenon
<1> QED
  BY <1>3, <1>4, Zenon

\* What the first bytes add up to, and one more.
Adding(f, sum, s, n) ==
    /\ f[1 .. 0] = sum
    /\ \A k \in 1 .. n : f[1 .. k] = Wrapped(f[1 .. k - 1] + s[k])
    /\ \A k \in 0 .. n : f[1 .. k] \in Nat

\* The function that Sum folds with adds up the first bytes.
LEMMA ChecksFirst ==
    ASSUME NEW sum \in Nat, NEW s, NEW n \in Nat, \A k \in 1 .. n : s[k] \in Nat,
           NEW f, Checks(f, sum, s, n)
    PROVE  Adding(f, sum, s, n)
<1>1. f[1 .. 0] = sum
  <2>1. 1 .. 0 = {} /\ {} \in SUBSET (1 .. n)
    OBVIOUS
  <2> QED
    BY <2>1 DEF Checks
<1>2. ASSUME NEW k \in 1 .. n
      PROVE  f[1 .. k] = Wrapped(f[1 .. k - 1] + s[k])
  <2>1. k \in Nat /\ k # 0 /\ k <= n
    OBVIOUS
  <2>2. k \in 1 .. k /\ Max(1 .. k) = k /\ (1 .. k) \ {k} = 1 .. k - 1
    BY ONLY <2>1, Initial
  <2>3. 1 .. k # {} /\ 1 .. k \in SUBSET (1 .. n)
    BY ONLY <2>1, n \in Nat
  <2> QED
    BY <2>2, <2>3 DEF Checks
<1> DEFINE S == {k \in 0 .. n : f[1 .. k] \in Nat}
<1>3. 0 \in S
  BY <1>1
<1>4. ASSUME NEW k \in 0 .. n - 1, k \in S PROVE k + 1 \in S
  <2>1. k + 1 \in 1 .. n /\ k + 1 \in 0 .. n /\ (k + 1) - 1 = k
    BY ONLY n \in Nat, k \in 0 .. n - 1
  <2>2. f[1 .. k + 1] = Wrapped(f[1 .. k] + s[k + 1])
    BY <1>2, <2>1
  <2>3. f[1 .. k] \in Nat /\ s[k + 1] \in Nat
    BY <1>4, <2>1
  <2> QED
    BY <2>1, <2>2, <2>3, WrappedNat
<1>5. \A k \in 0 .. n : k \in S
  <2> HIDE DEF S
  <2> QED
    BY <1>3, <1>4, Induct
<1> QED
  BY <1>1, <1>2, <1>5 DEF Adding

\* Two such functions agree as far as they go over the same bytes: the second
\* goes on, from byte m of t, with what the bytes before add up to.
LEMMA AddingAgree ==
    ASSUME NEW n \in Nat, NEW l \in Nat, NEW m \in Nat, m + n <= l,
           NEW a, NEW s, NEW f, Adding(f, a, s, n), NEW b, NEW t, NEW g, Adding(g, b, t, l),
           g[1 .. m] = a, \A k \in 1 .. n : t[m + k] = s[k]
    PROVE  f[1 .. n] = g[1 .. m + n]
<1> DEFINE S == {k \in 0 .. n : f[1 .. k] = g[1 .. m + k]}
<1>1. 0 \in S
  BY DEF Adding
<1>2. ASSUME NEW k \in 0 .. n - 1, k \in S PROVE k + 1 \in S
  <2>1. /\ k + 1 \in 1 .. n /\ (k + 1) - 1 = k /\ k + 1 \in 0 .. n
        /\ m + (k + 1) \in 1 .. l /\ (m + (k + 1)) - 1 = m + k
    BY ONLY n \in Nat, l \in Nat, m \in Nat, m + n <= l, k \in 0 .. n - 1
  <2>2. f[1 .. k + 1] = Wrapped(f[1 .. k] + s[k + 1])
    BY <2>1 DEF Adding
  <2>3. g[1 .. m + (k + 1)] = Wrapped(g[1 .. m + k] + t[m + (k + 1)])
    BY <2>1 DEF Adding
  <2>4. t[m + (k + 1)] = s[k + 1] /\ f[1 .. k] = g[1 .. m + k]
    BY <1>2, <2>1
  <2> QED
    BY <2>1, <2>2, <2>3, <2>4
<1>3. n \in S
  <2> HIDE DEF S
  <2>1. \A k \in 0 .. n : k \in S
    BY <1>1, <1>2, Induct
  <2> QED
    BY <2>1
<1> QED
  BY <1>3

\* What WriteSum computes.
LEMMA SumAdding ==
    ASSUME NEW sum \in Nat, NEW s \in Seq(Nat)
    PROVE  \E f : Adding(f, sum, s, Len(s)) /\ WriteSum(sum, s) = f[1 .. Len(s)]
<1>1. PICK f : Checks(f, sum, s, Len(s)) /\ WriteSum(sum, s) = f[1 .. Len(s)]
  BY SumChecks
<1>2. Len(s) \in Nat /\ \A k \in 1 .. Len(s) : s[k] \in Nat
  OBVIOUS
<1>3. Adding(f, sum, s, Len(s))
  BY ONLY <1>1, <1>2, sum \in Nat, ChecksFirst
<1> QED
  BY <1>1, <1>3

\* The checksum over two pieces, one after the other, is the one over both.
LEMMA SumPieces ==
    ASSUME NEW s \in Seq(Nat), NEW t \in Seq(Nat)
    PROVE  /\ WriteSum(WriteSum(0, s), t) = SumHRD(s \o t)
           /\ WriteSum(WriteSum(0, s), t) \in Nat
<1> DEFINE u == s \o t
           a == WriteSum(0, s)
           m == Len(s)
           n == Len(t)
<1>1. /\ u \in Seq(Nat) /\ Len(u) = m + n /\ m \in Nat /\ n \in Nat
      /\ \A k \in 1 .. m : u[0 + k] = s[k]
      /\ \A k \in 1 .. n : u[m + k] = t[k]
  OBVIOUS
<1>2. PICK f : Adding(f, 0, s, m) /\ a = f[1 .. m]
  BY SumAdding
<1>3. a \in Nat
  <2> HIDE DEF m, a
  <2> QED
    BY <1>1, <1>2 DEF Adding
<1>4. PICK g : Adding(g, a, t, n) /\ WriteSum(a, t) = g[1 .. n]
  <2> HIDE DEF a
  <2> QED
    BY <1>3, SumAdding
<1>5. PICK h : Adding(h, 0, u, m + n) /\ WriteSum(0, u) = h[1 .. m + n]
  <2> HIDE DEF u, m, n
  <2>1. \E h : Adding(h, 0, u, Len(u)) /\ WriteSum(0, u) = h[1 .. Len(u)]
    BY <1>1, SumAdding
  <2> QED
    BY <1>1, <2>1
<1> HIDE DEF u, m, n, a
<1>6. f[1 .. m] = h[1 .. 0 + m]
  <2>1. h[1 .. 0] = 0 /\ 0 + m <= m + n /\ m + n \in Nat /\ 0 \in Nat
    BY <1>1, <1>5 DEF Adding
  <2> QED
    BY ONLY <1>1, <1>2, <1>5, <2>1, AddingAgree
<1>7. g[1 .. n] = h[1 .. m + n]
  <2> DEFINE l == m + n
  <2>1. h[1 .. m] = a /\ m + n <= l /\ l \in Nat /\ m \in Nat /\ n \in Nat
    BY <1>1, <1>2, <1>6
  <2>2. Adding(h, 0, u, l) /\ Adding(g, a, t, n) /\ \A k \in 1 .. n : u[m + k] = t[k]
    BY <1>1, <1>4, <1>5
  <2> HIDE DEF l
  <2> QED
    BY ONLY <2>1, <2>2, AddingAgree
<1>8. g[1 .. n] \in Nat
  BY <1>1, <1>4 DEF Adding
<1>9. WriteSum(a, t) = WriteSum(0, u) /\ WriteSum(a, t) \in Nat
  BY <1>4, <1>5, <1>7, <1>8
<1> QED
  BY <1>9 DEF a, u, SumHRD

-----------------------------------------------------------------------------
(* The entries of an archive and the records of a file. *)

\* The sums of up to seven numbers.
LEMMA Sums ==
    ASSUME NEW s \in Seq(Nat)
    PROVE  /\ Len(s) = 2 => Width(s) = s[1] + s[2]
           /\ Len(s) = 3 => Width(s) = s[1] + s[2] + s[3]
           /\ Len(s) = 7 => Width(s) = s[1] + s[2] + s[3] + s[4] + s[5] + s[6] + s[7]
<1> DEFINE n == Len(s)
           S(k) == Sum(SubSeq(s, 1, k))
<1>1. n \in Nat /\ SubSeq(s, 1, n) = s /\ \A k \in 1 .. n : s[k] \in Nat
  OBVIOUS
<1>2. S(0) = 0 /\ \A k \in 1 .. n : S(k) = S(k - 1) + s[k]
  BY SumFirst
<1>3. Width(s) = S(n)
  <2>1. Width(s) = Sum(s)
    BY DEF Width, Sum
  <2> QED
    BY <1>1, <2>1
<1> HIDE DEF S, n
<1>4. CASE n = 2
  <2>1. S(1) = S(0) + s[1] /\ S(2) = S(1) + s[2]
    BY <1>2, <1>4
  <2> QED
    BY <1>1, <1>2, <1>3, <1>4, <2>1 DEF n
<1>5. CASE n = 3
  <2>1. S(1) = S(0) + s[1] /\ S(2) = S(1) + s[2] /\ S(3) = S(2) + s[3]
    BY <1>2, <1>5
  <2> QED
    BY <1>1, <1>2, <1>3, <1>5, <2>1 DEF n
<1>6. CASE n = 7
  <2>1. /\ S(1) = S(0) + s[1] /\ S(2) = S(1) + s[2] /\ S(3) = S(2) + s[3]
        /\ S(4) = S(3) + s[4] /\ S(5) = S(4) + s[5] /\ S(6) = S(5) + s[6]
        /\ S(7) = S(6) + s[7]
    BY <1>2, <1>6
  <2> QED
    BY <1>1, <1>2, <1>3, <1>6, <2>1 DEF n
<1> QED
  BY <1>4, <1>5, <1>6 DEF n

\* What the headers take.
LEMMA Widths ==
    /\ Width(HRDPHeader) = 14 /\ Width(HRDLSync) = 8 /\ Width(VMUHeader) = 16
    /\ Width(HadockHeader) = 44 /\ Width(<<4, 4, 8>>) = 16 /\ Width(<<2, 2>>) = 4
<1>1. Width(HRDPHeader) = 14
  <2> DEFINE s == <<2, 1, 1, 4, 1, 4, 1>>
  <2>1. /\ s \in Seq(Nat) /\ Len(s) = 7
        /\ s[1] = 2 /\ s[2] = 1 /\ s[3] = 1 /\ s[4] = 4 /\ s[5] = 1 /\ s[6] = 4 /\ s[7] = 1
    OBVIOUS
  <2> HIDE DEF s
  <2>2. Width(s) = s[1] + s[2] + s[3] + s[4] + s[5] + s[6] + s[7]
    BY <2>1, Sums
  <2> QED
    BY <2>1, <2>2 DEF s, HRDPHeader
<1>2. Width(VMUHeader) = 16
  <2> DEFINE s == <<1, 1, 2, 4, 4, 2, 2>>
  <2>1. /\ s \in Seq(Nat) /\ Len(s) = 7
        /\ s[1] = 1 /\ s[2] = 1 /\ s[3] = 2 /\ s[4] = 4 /\ s[5] = 4 /\ s[6] = 2 /\ s[7] = 2
    OBVIOUS
  <2> HIDE DEF s
  <2>2. Width(s) = s[1] + s[2] + s[3] + s[4] + s[5] + s[6] + s[7]
    BY <2>1, Sums
  <2> QED
    BY <2>1, <2>2 DEF s, VMUHeader
<1>3. Width(HadockHeader) = 44
  <2> DEFINE s == <<1, 1, 1, 1, 4, 4, 32>>
  <2>1. /\ s \in Seq(Nat) /\ Len(s) = 7
        /\ s[1] = 1 /\ s[2] = 1 /\ s[3] = 1 /\ s[4] = 1 /\ s[5] = 4 /\ s[6] = 4 /\ s[7] = 32
    OBVIOUS
  <2> HIDE DEF s
  <2>2. Width(s) = s[1] + s[2] + s[3] + s[4] + s[5] + s[6] + s[7]
    BY <2>1, Sums
  <2> QED
    BY <2>1, <2>2 DEF s, HadockHeader
<1>4. Width(HRDLSync) = 8
  <2> DEFINE s == <<4, 4>>
  <2>1. s \in Seq(Nat) /\ Len(s) = 2 /\ s[1] = 4 /\ s[2] = 4
    OBVIOUS
  <2> HIDE DEF s
  <2>2. Width(s) = s[1] + s[2]
    BY <2>1, Sums
  <2> QED
    BY <2>1, <2>2 DEF s, HRDLSync
<1>5. Width(<<2, 2>>) = 4
  <2> DEFINE s == <<2, 2>>
  <2>1. s \in Seq(Nat) /\ Len(s) = 2 /\ s[1] = 2 /\ s[2] = 2
    OBVIOUS
  <2> HIDE DEF s
  <2>2. Width(s) = s[1] + s[2]
    BY <2>1, Sums
  <2> QED
    BY <2>1, <2>2 DEF s
<1>6. Width(<<4, 4, 8>>) = 16
  <2> DEFINE s == <<4, 4, 8>>
  <2>1. s \in Seq(Nat) /\ Len(s) = 3 /\ s[1] = 4 /\ s[2] = 4 /\ s[3] = 8
    OBVIOUS
  <2> HIDE DEF s
  <2>2. Width(s) = s[1] + s[2] + s[3]
    BY <2>1, Sums
  <2> QED
    BY <2>1, <2>2 DEF s
<1> QED
  BY <1>1, <1>2, <1>3, <1>4, <1>5, <1>6

Entries ==
    [ok : BOOLEAN, pkt : Packet, part : Part, bytes : Nat, cut : BOOLEAN]
Records ==
    [ok : BOOLEAN, pkt : Packet, size : Nat, start : Nat, bytes : Nat, sum : Nat,
     cut : BOOLEAN]

\* An entry of the archives of a tar storage passed its control.
TarItem(c) == {e \in Entries : Can(c, e.pkt)}

\* A record is as long as it says when and only when it is whole, its packet
\* begins where the scanner expects it, and its checksum is right.
HrdpItem(format) ==
    {e \in Records : /\ e.cut <=> e.bytes # e.size + 4
                     /\ e.start = TokenStart(format)
                     /\ format = "vmu" => e.sum = SumHRD(e.pkt.head \o e.pkt.body)}

Item(o) == IF o.scheme = "tar" THEN TarItem(o.control) ELSE HrdpItem(o.format)

\* Where the write of a record can stop.
RecordCuts(r) == {2, r.start, r.bytes - 1}

\* A record that is whole, and one whose write stopped.
Fits(r, p, format) ==
    /\ r \in HrdpItem(format)
    /\ r.pkt = p /\ r.cut = FALSE
    /\ \A c \in RecordCuts(r) : /\ [r EXCEPT !.bytes = c, !.cut = TRUE] \in HrdpItem(format)
                               /\ [r EXCEPT !.bytes = c, !.cut = TRUE].pkt = p

\* A record of the rt writer, whole or cut short by a crash, is an item of its file.
LEMMA RecordFits ==
    ASSUME NEW ok \in BOOLEAN, NEW p \in Packet, NEW size \in Nat, NEW start \in Nat,
           NEW bytes \in Nat, NEW sum \in Nat, NEW format,
           bytes = size + 4, start = TokenStart(format), start >= 2, start < bytes,
           format = "vmu" => sum = SumHRD(p.head \o p.body)
    PROVE  Fits([ok |-> ok, pkt |-> p, size |-> size, start |-> start, bytes |-> bytes,
                 sum |-> sum, cut |-> FALSE], p, format)
<1> DEFINE r == [ok |-> ok, pkt |-> p, size |-> size, start |-> start, bytes |-> bytes,
                 sum |-> sum, cut |-> FALSE]
<1>1. /\ r \in Records /\ r.pkt = p /\ r.cut = FALSE /\ r.start = start /\ r.bytes = bytes
      /\ r.size = size /\ r.sum = sum
  BY DEF Records
<1> HIDE DEF r
<1>2. r \in HrdpItem(format)
  <2>1. r.cut <=> r.bytes # r.size + 4
    BY <1>1
  <2> QED
    BY <1>1, <2>1 DEF HrdpItem
<1>3. ASSUME NEW c \in RecordCuts(r)
      PROVE  /\ [r EXCEPT !.bytes = c, !.cut = TRUE] \in HrdpItem(format)
             /\ [r EXCEPT !.bytes = c, !.cut = TRUE].pkt = p
  <2> DEFINE q == [r EXCEPT !.bytes = c, !.cut = TRUE]
  <2>1. c = 2 \/ c = start \/ c = bytes - 1
    BY <1>1 DEF RecordCuts
  <2>2. c \in Nat /\ c # size + 4
    BY <2>1
  <2>3. /\ q \in Records /\ q.pkt = r.pkt /\ q.cut = TRUE /\ q.start = r.start /\ q.bytes = c
        /\ q.size = r.size /\ q.sum = r.sum
    BY <1>1, <2>2 DEF Records
  <2> HIDE DEF q
  <2>4. q.cut <=> q.bytes # q.size + 4
    BY <1>1, <2>2, <2>3
  <2>5. q \in HrdpItem(format) /\ q.pkt = p
    BY <1>1, <2>3, <2>4 DEF HrdpItem
  <2> QED
    BY <2>5 DEF q
<1>4. Fits(r, p, format)
  BY <1>1, <1>2, <1>3 DEF Fits
<1> QED
  BY <1>4 DEF r

\* The records of a packet in the format of the HRDP archive.
LEMMA EncodeFits ==
    ASSUME NEW p \in Packet, OfChannel(p), EncodePacket(p).ok
    PROVE  Fits(EncodePacket(p), p, "vmu")
<1> DEFINE ok == p.channel \in Videos \cup {Science} /\ p.version = 2
           size == encodeHRDPHeader(p)
           start == 4 + Width(HRDPHeader) + Width(HRDLSync)
           bytes == start + Width(VMUHeader) + HeaderBytes(p) + Len(p.body) + 4
           sum == encodeSum(p)
<1>1. Len(p.body) \in Nat /\ HeaderBytes(p) \in Nat /\ p.head \in Seq(Nat) /\ p.body \in Seq(Nat)
  BY DEF Packet, HeaderBytes
<1>2. sum = SumHRD(p.head \o p.body) /\ sum \in Nat
  BY <1>1, SumPieces DEF encodeSum
<1>3. size = 42 + HeaderBytes(p) + Len(p.body)
  <2>1. p.channel = 3 \/ p.channel = 1 \/ p.channel = 2
    BY DEF EncodePacket, Science, Videos
  <2>2. (p.channel = 3 => p.kind = "table") /\ (p.channel # 3 => p.kind = "image")
    BY <2>1 DEF OfChannel, Science, Videos
  <2> DEFINE l == Len(p.body)
             x == IF p.channel = 3 THEN 56 ELSE 76
  <2>3. HeaderBytes(p) = x /\ x \in Nat /\ l \in Nat
    BY <1>1, <2>2 DEF HeaderBytes
  <2>4. size = 14 + 8 + 16 + 4 + x + l
    BY DEF encodeHRDPHeader, HRDPHeaderLen, HRDLSyncLen, VMUHLen, SDHLenV2, IDHLenV2, Science
  <2> HIDE DEF x, l, size
  <2>5. size = 42 + x + l
    BY ONLY <2>3, <2>4
  <2> QED
    BY <2>3, <2>5 DEF l
<1>4. start = 26 /\ TokenStart("vmu") = 26
  BY Widths DEF TokenStart, HRDPHeaderLen, HRDLSyncLen
<1>5. bytes = 46 + HeaderBytes(p) + Len(p.body)
  <2> DEFINE h == HeaderBytes(p)
             n == Len(p.body)
             v == Width(VMUHeader)
  <2>1. h \in Nat /\ n \in Nat /\ v = 16
    BY <1>1, Widths
  <2>2. bytes = start + v + h + n + 4
    OBVIOUS
  <2> HIDE DEF h, n, v, start, bytes
  <2>3. bytes = 46 + h + n
    BY ONLY <2>1, <2>2, <1>4
  <2> QED
    BY <2>3 DEF h, n
<1>6. ok \in BOOLEAN
  OBVIOUS
<1>7. EncodePacket(p) = [ok |-> ok, pkt |-> p, size |-> size, start |-> start, bytes |-> bytes,
                         sum |-> sum, cut |-> FALSE]
  BY Zenon DEF EncodePacket
<1> HIDE DEF ok, size, start, bytes, sum
<1>8. size \in Nat /\ start \in Nat /\ bytes \in Nat /\ bytes = size + 4 /\ start >= 2 /\ start < bytes
  <2> DEFINE h == HeaderBytes(p)
             n == Len(p.body)
  <2>1. h \in Nat /\ n \in Nat /\ size = 42 + h + n /\ start = 26 /\ bytes = 46 + h + n
    BY <1>1, <1>3, <1>4, <1>5
  <2> HIDE DEF h, n
  <2> QED
    BY ONLY <2>1
<1>9. Fits([ok |-> ok, pkt |-> p, size |-> size, start |-> start, bytes |-> bytes,
            sum |-> sum, cut |-> FALSE], p, "vmu")
  BY ONLY p \in Packet, <1>2, <1>4, <1>6, <1>8, RecordFits
<1> QED
  BY ONLY <1>7, <1>9

\* The same in the format of hadock.
LEMMA HadockFits ==
    ASSUME NEW p \in Packet, NEW format, format # "vmu"
    PROVE  Fits(encodeHadock(p), p, format)
<1> DEFINE ok == p.origin < 256
           n == encodeRawPacket(p)
           size == n + hrdpHeaderSize
           bytes == 4 + Width(HadockHeader) + n
<1>1. n \in Nat
  <2> DEFINE l == Len(p.body)
             a == Width(<<4, 4, 8>>)
             b == Width(<<2, 2>>)
  <2>1. l \in Nat /\ a = 16 /\ b = 4
    BY Widths DEF Packet
  <2>2. n = a + (IF p.kind = "image" THEN b ELSE 0) + l
    BY DEF encodeRawPacket
  <2> HIDE DEF l, a, b, n
  <2> QED
    BY ONLY <2>1, <2>2
<1>2. ok \in BOOLEAN
  OBVIOUS
<1>3. encodeHadock(p) = [ok |-> ok, pkt |-> p, size |-> size, start |-> 4, bytes |-> bytes,
                         sum |-> 0, cut |-> FALSE]
  BY Zenon DEF encodeHadock
<1> HIDE DEF n, ok
<1>4. size \in Nat /\ bytes \in Nat /\ bytes = size + 4 /\ 4 < bytes
  BY ONLY <1>1, Widths DEF hrdpHeaderSize
<1>5. TokenStart(format) = 4 /\ 4 \in Nat /\ 4 >= 2 /\ 0 \in Nat
  BY DEF TokenStart
<1> HIDE DEF size, bytes
<1> QED
  BY <1>2, <1>3, <1>4, <1>5, RecordFits

-----------------------------------------------------------------------------
(* The inductive invariant of the storages.  Its parts take the files F, the *)
(* packets L lost and the rollers R as parameters: a step first opens files  *)
(* and then appends to one of them.                                          *)

\* A file is named after a storage, a key and a second that is not in the
\* future, and holds what its storage writes.
FileOk(f, x, t) ==
    /\ f = <<f[1], f[2], f[3]>>
    /\ f[1] \in DOMAIN stores
    /\ f[3] \in 0 .. t
    /\ x \in Seq(Item(stores[f[1]]))
    /\ stores[f[1]].scheme = "hrdp" => f[2] = NoKey

FilesOk(F, t) == \A f \in DOMAIN F : FileOk(f, F[f], t)

\* Name n is that of a file of storage s and key k, and no other is newer.
Newest(F, s, k, n) ==
    /\ <<s, k, n>> \in DOMAIN F
    /\ \A f \in DOMAIN F : f[1] = s /\ f[2] = k => f[3] <= n

\* A roller writes to the newest file of its key.
RollersOk(F, R) ==
    \A r \in DOMAIN R :
        /\ r = <<r[1], r[2]>>
        /\ r[1] \in DOMAIN stores
        /\ stores[r[1]].scheme \in {"tar", "hrdp"}
        /\ stores[r[1]].scheme = "hrdp" => r[2] = NoKey
        /\ R[r] \in Nat
        /\ Newest(F, r[1], r[2], R[r])

WrittenIn(F, s, p, a) ==
    \E f \in DOMAIN F : \E n \in DOMAIN F[f] :
        /\ f[1] = s
        /\ F[f][n].pkt = p
        /\ ~F[f][n].cut
        /\ stores[s].scheme = "tar" => F[f][n].part = a

\* The last entry of a file is packet p: its metadata may follow.
Ends(F, g, p) == F[g] # <<>> /\ Last(F[g]).pkt = p

FollowsIn(F, L) ==
    \A f \in DOMAIN F : \A n \in DOMAIN F[f] :
        stores[f[1]].scheme = "tar" /\ F[f][n].part = "meta" =>
            \/ <<f[1], F[f][n].pkt>> \in L
            \/ \E m \in 1 .. n - 1 : F[f][m].pkt = F[f][n].pkt
            \/ \E g \in DOMAIN F : g[1] = f[1] /\ g[2] = f[2] /\ g[3] < f[3] /\ Ends(F, g, F[f][n].pkt)

\* Packet p ends a file of its key: nothing was written behind it since.
PendingIn(F, L, s, k, p) ==
    \/ <<s, p>> \in L
    \/ \E g \in DOMAIN F : g[1] = s /\ g[2] = k /\ Ends(F, g, p)

\* Storage s is done with packet p, after an error of it or of one before it
\* when e holds.
Settled(F, L, D, s, p, e) ==
    \/ <<s, p>> \in D /\ e = TRUE
    \/ <<s, p>> \in L
    \/ stores[s].scheme = "file"
    \/ stores[s].scheme = "tar" /\ ~Can(stores[s].control, p)
    \/ \A a \in Parts(s, p) : WrittenIn(F, s, p, a)

Active == {"store", "meta"}

Base ==
    /\ options \in Configs
    /\ pc \in {"down", "aborted", "idle"} \cup Active
    /\ pc \in Active =>
          at \in DOMAIN stores /\ pkt \in Packet /\ OfChannel(pkt) /\ pkt.id = sent
    /\ pc \notin Active => at = 1
    /\ pc \in {"idle"} \cup Active =>
          \A s \in DOMAIN stores : stores[s].scheme \in {"tar", "hrdp", "file"}
    /\ err \in BOOLEAN
    /\ now \in Nat
    /\ sent \in Nat

\* The image whose metadata is due.
MetaDue ==
    pc = "meta" =>
        /\ stores[at].scheme = "tar"
        /\ PendingIn(files, lost, at, cacheKey(pkt), pkt)
        /\ <<at, pkt>> \in lost \/ WrittenIn(files, at, pkt, "store")

AllSettled ==
    /\ \A r \in returned : r[1] \in Packet
    /\ \A r \in returned : \A s \in DOMAIN stores :
           Settled(files, lost, failed, s, r[1], r[2])
    /\ pc \in Active => \A s \in DOMAIN stores :
           s < at => Settled(files, lost, failed, s, pkt, err)

ArchiveInv ==
    /\ Base
    /\ FilesOk(files, now)
    /\ RollersOk(files, rollers)
    /\ FollowsIn(files, lost)
    /\ MetaDue
    /\ AllSettled

-----------------------------------------------------------------------------
(* Opening files and appending to one. *)

\* Files F once some were opened in this second: the ones that were there stay,
\* or are archives created anew, which M knows the packets of.
Reopened(F, G, M) ==
    /\ DOMAIN F \subseteq DOMAIN G
    /\ \A f \in DOMAIN G :
          \/ f \in DOMAIN F /\ G[f] = F[f]
          \/ /\ f = <<f[1], f[2], f[3]>>
             /\ f[3] = now
             /\ f[1] \in DOMAIN stores
             /\ stores[f[1]].scheme = "hrdp" => f[2] = NoKey
             /\ G[f] = <<>>
             /\ f \in DOMAIN F => /\ stores[f[1]].scheme = "tar"
                                  /\ \A n \in DOMAIN F[f] : <<f[1], F[f][n].pkt>> \in M

\* Files G once e was appended to file f.
Extended(G, H, f, e) ==
    /\ f \in DOMAIN G
    /\ DOMAIN H = DOMAIN G
    /\ H[f] = Append(G[f], e)
    /\ \A g \in DOMAIN G : g # f => H[g] = G[g]

\* Sequence y is x with e behind it, at index l.
Longer(x, y, e, l) ==
    /\ l \in Nat /\ DOMAIN x = 1 .. l - 1 /\ DOMAIN y = 1 .. l
    /\ \A n \in DOMAIN x : y[n] = x[n]
    /\ y[l] = e
    /\ y # <<>> /\ Last(y) = e
    /\ x # <<>> => l - 1 \in 1 .. l - 1 /\ Last(x) = x[l - 1]

\* Append makes a sequence longer by one element.
LEMMA AppendLonger ==
    ASSUME NEW T, NEW x \in Seq(T), NEW e \in T
    PROVE  Longer(x, Append(x, e), e, Len(x) + 1) /\ Append(x, e) \in Seq(T)
<1> DEFINE y == Append(x, e)
           l == Len(x) + 1
<1>1. /\ l \in Nat /\ DOMAIN x = 1 .. l - 1 /\ DOMAIN y = 1 .. l /\ Len(y) = l /\ y \in Seq(T)
      /\ y[l] = e /\ \A n \in 1 .. l - 1 : y[n] = x[n]
  OBVIOUS
<1>2. y # <<>> /\ Last(y) = e
  BY <1>1 DEF Last
<1>3. x # <<>> => l - 1 \in 1 .. l - 1 /\ Last(x) = x[l - 1]
  BY DEF Last
<1> HIDE DEF y, l
<1>4. Longer(x, y, e, l)
  BY <1>1, <1>2, <1>3 DEF Longer
<1> QED
  BY <1>1, <1>4 DEF y, l

\* An extension of the files makes one of them longer.
LEMMA ExtendedLonger ==
    ASSUME NEW G, NEW H, NEW f, NEW e, FilesOk(G, now), Extended(G, H, f, e),
           e \in Item(stores[f[1]])
    PROVE  /\ \E l : Longer(G[f], H[f], e, l)
           /\ H[f] \in Seq(Item(stores[f[1]]))
<1> DEFINE T == Item(stores[f[1]])
           x == G[f]
<1>1. x \in Seq(T) /\ e \in T /\ H[f] = Append(x, e)
  BY DEF FilesOk, FileOk, Extended
<1> HIDE DEF x, T
<1>2. Longer(x, Append(x, e), e, Len(x) + 1) /\ Append(x, e) \in Seq(T)
  BY ONLY <1>1, AppendLonger
<1> QED
  BY <1>1, <1>2 DEF x, T

\* The files stay well-formed.
LEMMA ReopenedOk ==
    ASSUME NEW F, NEW G, NEW M, now \in Nat, FilesOk(F, now), Reopened(F, G, M)
    PROVE  FilesOk(G, now)
<1> SUFFICES ASSUME NEW f \in DOMAIN G PROVE FileOk(f, G[f], now)
  BY DEF FilesOk
<1>1. CASE f \in DOMAIN F /\ G[f] = F[f]
  BY <1>1 DEF FilesOk
<1>2. CASE ~(f \in DOMAIN F /\ G[f] = F[f])
  <2>1. /\ f = <<f[1], f[2], f[3]>> /\ f[3] = now /\ f[1] \in DOMAIN stores /\ G[f] = <<>>
        /\ stores[f[1]].scheme = "hrdp" => f[2] = NoKey
    BY <1>2 DEF Reopened
  <2>2. now \in 0 .. now /\ <<>> \in Seq(Item(stores[f[1]]))
    OBVIOUS
  <2> QED
    BY <2>1, <2>2 DEF FileOk
<1> QED
  BY <1>1, <1>2

\* Files stay well formed when an item is put behind one of them.
LEMMA ExtendedOk ==
    ASSUME NEW G, NEW H, NEW f, NEW e, FilesOk(G, now), Extended(G, H, f, e),
           e \in Item(stores[f[1]])
    PROVE  FilesOk(H, now)
<1>1. H[f] \in Seq(Item(stores[f[1]]))
  BY ExtendedLonger
<1> SUFFICES ASSUME NEW g \in DOMAIN H PROVE FileOk(g, H[g], now)
  BY DEF FilesOk
<1>2. g \in DOMAIN G
  BY DEF Extended
<1>3. FileOk(g, G[g], now)
  BY <1>2 DEF FilesOk
<1>4. CASE g = f
  BY <1>1, <1>3, <1>4 DEF FileOk
<1>5. CASE g # f
  BY <1>2, <1>3, <1>5 DEF Extended
<1> QED
  BY <1>4, <1>5

\* What was written stays, unless it is known to be lost.
LEMMA ReopenedWritten ==
    ASSUME NEW F, NEW G, NEW M, Reopened(F, G, M), NEW s, NEW p, NEW a, WrittenIn(F, s, p, a)
    PROVE  WrittenIn(G, s, p, a) \/ <<s, p>> \in M
<1>0. PICK f \in DOMAIN F : \E n \in DOMAIN F[f] :
          /\ f[1] = s /\ F[f][n].pkt = p /\ ~F[f][n].cut
          /\ stores[s].scheme = "tar" => F[f][n].part = a
  BY DEF WrittenIn
<1>1. PICK n \in DOMAIN F[f] :
          /\ f[1] = s /\ F[f][n].pkt = p /\ ~F[f][n].cut
          /\ stores[s].scheme = "tar" => F[f][n].part = a
  BY <1>0
<1>2. f \in DOMAIN G
  BY DEF Reopened
<1>3. CASE G[f] = F[f]
  BY <1>1, <1>2, <1>3 DEF WrittenIn
<1>4. CASE G[f] # F[f]
  <2>1. <<f[1], F[f][n].pkt>> \in M
    BY <1>1, <1>2, <1>4 DEF Reopened
  <2> QED
    BY <1>1, <2>1
<1> QED
  BY <1>3, <1>4

\* An item put behind a file takes nothing away, and its packet is written.
LEMMA ExtendedWritten ==
    ASSUME NEW G, NEW H, NEW f, NEW e, FilesOk(G, now), Extended(G, H, f, e),
           e \in Item(stores[f[1]])
    PROVE  /\ \A s, p, a : WrittenIn(G, s, p, a) => WrittenIn(H, s, p, a)
           /\ \A a : ~e.cut /\ (stores[f[1]].scheme = "tar" => e.part = a)
                       => WrittenIn(H, f[1], e.pkt, a)
<1>1. PICK l : Longer(G[f], H[f], e, l)
  BY ExtendedLonger
<1>2. f \in DOMAIN H /\ l \in DOMAIN H[f] /\ H[f][l] = e
  BY <1>1 DEF Longer, Extended
<1>3. ASSUME NEW s, NEW p, NEW a, WrittenIn(G, s, p, a) PROVE WrittenIn(H, s, p, a)
  <2>0. PICK g \in DOMAIN G : \E n \in DOMAIN G[g] :
          /\ g[1] = s /\ G[g][n].pkt = p /\ ~G[g][n].cut
          /\ stores[s].scheme = "tar" => G[g][n].part = a
    BY <1>3 DEF WrittenIn
  <2>1. PICK n \in DOMAIN G[g] :
          /\ g[1] = s /\ G[g][n].pkt = p /\ ~G[g][n].cut
          /\ stores[s].scheme = "tar" => G[g][n].part = a
    BY <2>0
  <2>2. g \in DOMAIN H
    BY DEF Extended
  <2>3. n \in DOMAIN H[g] /\ H[g][n] = G[g][n]
    <3>1. CASE g = f
      <4>1. DOMAIN G[f] \subseteq DOMAIN H[f] /\ \A i \in DOMAIN G[f] : H[f][i] = G[f][i]
        BY <1>1 DEF Longer
      <4> QED
        BY <3>1, <4>1
    <3>2. CASE g # f
      BY <3>2 DEF Extended
    <3> QED
      BY <3>1, <3>2
  <2> QED
    BY <2>1, <2>2, <2>3 DEF WrittenIn
<1>4. ASSUME NEW a, ~e.cut, stores[f[1]].scheme = "tar" => e.part = a
      PROVE  WrittenIn(H, f[1], e.pkt, a)
  BY <1>2, <1>4 DEF WrittenIn
<1> QED
  BY <1>3, <1>4

\* The metadata of an image stay behind it.
LEMMA ReopenedFollows ==
    ASSUME NEW F, NEW G, NEW L, NEW M, L \subseteq M, now \in Nat, FilesOk(F, now),
           Reopened(F, G, M), FollowsIn(F, L)
    PROVE  FollowsIn(G, M)
<1> SUFFICES ASSUME NEW f \in DOMAIN G, NEW n \in DOMAIN G[f],
                    stores[f[1]].scheme = "tar", G[f][n].part = "meta"
             PROVE  \/ <<f[1], G[f][n].pkt>> \in M
                    \/ \E m \in 1 .. n - 1 : G[f][m].pkt = G[f][n].pkt
                    \/ \E g \in DOMAIN G : g[1] = f[1] /\ g[2] = f[2] /\ g[3] < f[3]
                                           /\ Ends(G, g, G[f][n].pkt)
  BY DEF FollowsIn
<1>1. f \in DOMAIN F /\ G[f] = F[f]
  <2>1. G[f] # <<>>
    OBVIOUS
  <2> QED
    BY <2>1 DEF Reopened
<1>2. \/ <<f[1], F[f][n].pkt>> \in L
      \/ \E m \in 1 .. n - 1 : F[f][m].pkt = F[f][n].pkt
      \/ \E g \in DOMAIN F : g[1] = f[1] /\ g[2] = f[2] /\ g[3] < f[3]
                             /\ Ends(F, g, F[f][n].pkt)
  BY <1>1 DEF FollowsIn
<1>3. ASSUME NEW g \in DOMAIN F, g[3] < f[3] PROVE g \in DOMAIN G /\ G[g] = F[g]
  <2>1. f[3] \in 0 .. now /\ g[3] \in 0 .. now
    BY <1>1 DEF FilesOk, FileOk
  <2>2. g[3] # now
    BY <1>3, <2>1
  <2> QED
    BY <2>2 DEF Reopened
<1> QED
  BY <1>1, <1>2, <1>3 DEF Ends

\* An entry of metadata follows its data when the storage puts it last.
LEMMA ExtendedFollows ==
    ASSUME NEW G, NEW H, NEW M, NEW f, NEW e, FilesOk(G, now), Extended(G, H, f, e),
           e \in Item(stores[f[1]]), FollowsIn(G, M), Newest(G, f[1], f[2], f[3]),
           stores[f[1]].scheme = "tar" /\ e.part = "meta" => PendingIn(G, M, f[1], f[2], e.pkt)
    PROVE  FollowsIn(H, M)
<1>1. PICK l : Longer(G[f], H[f], e, l)
  BY ExtendedLonger
<1>2. \A g \in DOMAIN G : g # f => H[g] = G[g]
  BY DEF Extended
<1>3. DOMAIN H = DOMAIN G /\ f \in DOMAIN G
  BY DEF Extended
<1>4. \A g \in DOMAIN G : g = <<g[1], g[2], g[3]>> /\ g[3] \in Nat
  BY DEF FilesOk, FileOk
<1>5. \A g \in DOMAIN G : g[1] = f[1] /\ g[2] = f[2] => g[3] <= f[3]
  BY DEF Newest
<1>6. \A g, p : g \in DOMAIN G /\ g # f /\ Ends(G, g, p) => Ends(H, g, p)
  BY <1>2 DEF Ends
<1> SUFFICES ASSUME NEW h \in DOMAIN G, NEW n \in DOMAIN H[h],
                    stores[h[1]].scheme = "tar", H[h][n].part = "meta"
             PROVE  \/ <<h[1], H[h][n].pkt>> \in M
                    \/ \E m \in 1 .. n - 1 : H[h][m].pkt = H[h][n].pkt
                    \/ \E g \in DOMAIN G : g[1] = h[1] /\ g[2] = h[2] /\ g[3] < h[3]
                                           /\ Ends(H, g, H[h][n].pkt)
  BY <1>3 DEF FollowsIn
<1>7. ASSUME n \in DOMAIN G[h], G[h][n].part = "meta"
      PROVE  \/ <<h[1], G[h][n].pkt>> \in M
             \/ \E m \in 1 .. n - 1 : G[h][m].pkt = G[h][n].pkt
             \/ \E g \in DOMAIN G : g[1] = h[1] /\ g[2] = h[2] /\ g[3] < h[3]
                                    /\ Ends(H, g, G[h][n].pkt)
  <2>1. \/ <<h[1], G[h][n].pkt>> \in M
        \/ \E m \in 1 .. n - 1 : G[h][m].pkt = G[h][n].pkt
        \/ \E g \in DOMAIN G : g[1] = h[1] /\ g[2] = h[2] /\ g[3] < h[3]
                               /\ Ends(G, g, G[h][n].pkt)
    BY <1>7 DEF FollowsIn
  <2>2. ASSUME NEW g \in DOMAIN G, g[1] = h[1], g[2] = h[2], g[3] < h[3] PROVE g # f
    <3> SUFFICES ASSUME g = f PROVE FALSE
      OBVIOUS
    <3>1. h[3] <= f[3] /\ h[3] \in Nat /\ f[3] \in Nat
      BY <1>3, <1>4, <1>5, <2>2
    <3> QED
      BY <2>2, <3>1
  <2> QED
    BY <1>6, <2>1, <2>2
<1>8. CASE h # f
  <2>1. H[h] = G[h]
    BY <1>2, <1>8
  <2> QED
    BY <1>7, <2>1
<1>9. CASE h = f /\ n \in DOMAIN G[f]
  <2>1. /\ H[f][n] = G[f][n]
        /\ \A m \in 1 .. n - 1 : H[f][m] = G[f][m]
    BY <1>1, <1>9 DEF Longer
  <2> QED
    BY <1>7, <1>9, <2>1
<1>10. CASE h = f /\ n \notin DOMAIN G[f]
  <2>1. n = l /\ H[f][n] = e
    BY <1>1, <1>10 DEF Longer
  <2>2. PendingIn(G, M, f[1], f[2], e.pkt)
    BY <1>10, <2>1
  <2>3. CASE <<f[1], e.pkt>> \in M
    BY <1>10, <2>1, <2>3
  <2>4. CASE <<f[1], e.pkt>> \notin M
    <3>1. PICK g \in DOMAIN G : g[1] = f[1] /\ g[2] = f[2] /\ Ends(G, g, e.pkt)
      BY <2>2, <2>4 DEF PendingIn
    <3>2. CASE g = f
      <4>1. G[f] # <<>> /\ Last(G[f]).pkt = e.pkt
        BY <3>1, <3>2 DEF Ends
      <4>2. l - 1 \in 1 .. l - 1 /\ Last(G[f]) = G[f][l - 1] /\ l - 1 \in DOMAIN G[f]
            /\ \A m \in DOMAIN G[f] : H[f][m] = G[f][m]
        BY <1>1, <4>1 DEF Longer
      <4>3. H[f][l - 1].pkt = H[f][n].pkt /\ l - 1 \in 1 .. n - 1
        BY <2>1, <4>1, <4>2
      <4> QED
        BY <1>10, <4>3
    <3>3. CASE g # f
      <4>1. g = <<g[1], g[2], g[3]>> /\ f = <<f[1], f[2], f[3]>> /\ g[3] \in Nat /\ f[3] \in Nat
        BY <1>3, <1>4
      <4>2. g[3] <= f[3] /\ g[3] # f[3]
        BY <1>5, <3>1, <3>3, <4>1
      <4>3. g[3] < f[3]
        BY <4>1, <4>2
      <4> QED
        BY <1>6, <1>10, <2>1, <3>1, <3>3, <4>3
    <3> QED
      BY <3>2, <3>3
  <2> QED
    BY <2>3, <2>4
<1> QED
  BY <1>8, <1>9, <1>10

\* A packet whose metadata is due stays at the end of a file, or is lost.
LEMMA ReopenedPending ==
    ASSUME NEW F, NEW G, NEW L, NEW M, L \subseteq M, FilesOk(F, now), Reopened(F, G, M),
           NEW s, NEW k, NEW p, PendingIn(F, L, s, k, p)
    PROVE  PendingIn(G, M, s, k, p)
<1>1. CASE <<s, p>> \in L
  BY <1>1 DEF PendingIn
<1>2. CASE <<s, p>> \notin L
  <2>1. PICK g \in DOMAIN F : g[1] = s /\ g[2] = k /\ Ends(F, g, p)
    BY <1>2 DEF PendingIn
  <2>2. g \in DOMAIN G
    BY DEF Reopened
  <2>3. CASE G[g] = F[g]
    BY <2>1, <2>2, <2>3 DEF PendingIn, Ends
  <2>4. CASE G[g] # F[g]
    <3>1. \A n \in DOMAIN F[g] : <<g[1], F[g][n].pkt>> \in M
      BY <2>2, <2>4 DEF Reopened
    <3>2. Len(F[g]) \in DOMAIN F[g] /\ F[g][Len(F[g])].pkt = p
      <4> DEFINE x == F[g]
                 T == Item(stores[g[1]])
      <4>1. x \in Seq(T) /\ x # <<>> /\ x[Len(x)].pkt = p
        BY <2>1 DEF FilesOk, FileOk, Ends, Last
      <4> HIDE DEF x, T
      <4>2. Len(x) \in DOMAIN x
        BY <4>1
      <4> QED
        BY <4>1, <4>2 DEF x
    <3> QED
      BY <2>1, <3>1, <3>2 DEF PendingIn
  <2> QED
    BY <2>3, <2>4
<1> QED
  BY <1>1, <1>2

\* The packet of the last entry is the one whose metadata is due.
LEMMA ExtendedPending ==
    ASSUME NEW G, NEW H, NEW M, NEW f, NEW e, FilesOk(G, now), Extended(G, H, f, e),
           e \in Item(stores[f[1]])
    PROVE  PendingIn(H, M, f[1], f[2], e.pkt)
<1>1. PICK l : Longer(G[f], H[f], e, l)
  BY ExtendedLonger
<1>2. f \in DOMAIN H /\ Ends(H, f, e.pkt)
  BY <1>1 DEF Extended, Longer, Ends
<1> QED
  BY <1>2 DEF PendingIn

\* A file of a second that has passed only grows.
LEMMA ReopenedStays ==
    ASSUME NEW F, NEW G, NEW M, Reopened(F, G, M), NEW f \in DOMAIN F,
           f[3] # now \/ stores[f[1]].scheme # "tar"
    PROVE  f \in DOMAIN G /\ G[f] = F[f]
<1>1. f \in DOMAIN G
  BY DEF Reopened
<1> QED
  BY <1>1 DEF Reopened

\* A sequence is the beginning of a longer one.
LEMMA AppendPrefix ==
    ASSUME NEW T, NEW x \in Seq(T), NEW e \in T
    PROVE  IsPrefix(x, x) /\ IsPrefix(x, Append(x, e))
<1> DEFINE y == Append(x, e)
           n == Len(x)
           a == SubSeq(x, 1, n)
           b == SubSeq(y, 1, n)
<1>1. /\ n \in Nat /\ y \in Seq(T) /\ Len(y) = n + 1 /\ \A i \in 1 .. n : y[i] = x[i]
      /\ a \in Seq(T) /\ Len(a) = n /\ \A i \in 1 .. n : a[i] = x[i]
  OBVIOUS
<1> HIDE DEF y
<1>2. b \in Seq(T) /\ Len(b) = n /\ \A i \in 1 .. n : b[i] = y[i]
  BY <1>1
<1>3. a = b
  <2> HIDE DEF a, b, n
  <2> QED
    BY <1>1, <1>2, SameSeq
<1> QED
  BY <1>1, <1>3 DEF IsPrefix, y

\* The storage that is called appends to the newest file of its key.
Appended(G, H) ==
    \E f, e : /\ Extended(G, H, f, e)
              /\ e \in Item(stores[f[1]])
              /\ pc \in Active /\ f[1] = at /\ e.pkt = pkt
              /\ Newest(G, f[1], f[2], f[3])

\* What any step does to the files and to what is lost.
Grown(F, L, H, M) ==
    /\ L \subseteq M
    /\ \E G : /\ Reopened(F, G, M)
              /\ FilesOk(G, now)
              /\ H = G \/ Appended(G, H)

\* Files stay well formed in a step of the storages.
LEMMA GrownOk ==
    ASSUME NEW F, NEW L, NEW H, NEW M, Grown(F, L, H, M)
    PROVE  FilesOk(H, now)
BY ExtendedOk DEF Grown, Appended

\* What was written stays written, or is lost with the file that was created anew.
LEMMA GrownWritten ==
    ASSUME NEW F, NEW L, NEW H, NEW M, Grown(F, L, H, M), NEW s, NEW p, NEW a,
           WrittenIn(F, s, p, a)
    PROVE  WrittenIn(H, s, p, a) \/ <<s, p>> \in M
<1>1. PICK G : /\ Reopened(F, G, M)
               /\ FilesOk(G, now)
               /\ \/ H = G
                  \/ \E f, e : Extended(G, H, f, e) /\ e \in Item(stores[f[1]])
  BY DEF Grown, Appended
<1>2. WrittenIn(G, s, p, a) \/ <<s, p>> \in M
  BY <1>1, ReopenedWritten
<1>3. WrittenIn(G, s, p, a) => WrittenIn(H, s, p, a)
  <2>1. CASE H = G
    BY <2>1
  <2>2. CASE \E f, e : Extended(G, H, f, e) /\ e \in Item(stores[f[1]])
    BY <1>1, <2>2, ExtendedWritten
  <2> QED
    BY <1>1, <2>1, <2>2
<1> QED
  BY <1>2, <1>3

\* A storage that is done with a packet stays so.
LEMMA GrownSettled ==
    ASSUME NEW F, NEW L, NEW H, NEW M, Grown(F, L, H, M), NEW D, NEW E, D \subseteq E,
           NEW s, NEW p, NEW b, NEW c, b = TRUE => c = TRUE, Settled(F, L, D, s, p, b)
    PROVE  Settled(H, M, E, s, p, c)
<1>1. L \subseteq M
  BY DEF Grown
<1>2. CASE <<s, p>> \in M
  BY <1>2 DEF Settled
<1>3. CASE <<s, p>> \notin M /\ \A a \in Parts(s, p) : WrittenIn(F, s, p, a)
  <2>1. \A a \in Parts(s, p) : WrittenIn(H, s, p, a)
    BY <1>3, GrownWritten
  <2> QED
    BY <2>1 DEF Settled
<1>4. CASE <<s, p>> \notin M /\ ~(\A a \in Parts(s, p) : WrittenIn(F, s, p, a))
  <2>1. \/ <<s, p>> \in D /\ b = TRUE
        \/ stores[s].scheme = "file"
        \/ stores[s].scheme = "tar" /\ ~Can(stores[s].control, p)
    BY <1>1, <1>4 DEF Settled
  <2> QED
    BY <2>1 DEF Settled
<1> QED
  BY <1>2, <1>3, <1>4

\* A file that is not created anew has what it had, and maybe more.
Longest(x, y) ==
    /\ DOMAIN x \subseteq DOMAIN y
    /\ \A n \in DOMAIN x : y[n] = x[n]
    /\ IsPrefix(x, y)

\* A file that is not created anew keeps its items in a step of the storages.
LEMMA GrownStays ==
    ASSUME NEW F, NEW L, NEW H, NEW M, Grown(F, L, H, M), FilesOk(F, now), NEW f \in DOMAIN F,
           f[3] # now \/ stores[f[1]].scheme # "tar"
    PROVE  f \in DOMAIN H /\ Longest(F[f], H[f])
<1>1. PICK G : /\ Reopened(F, G, M)
               /\ FilesOk(G, now)
               /\ \/ H = G
                  \/ \E h, e : Extended(G, H, h, e) /\ e \in Item(stores[h[1]])
  BY DEF Grown, Appended
<1>2. f \in DOMAIN G /\ G[f] = F[f]
  BY <1>1, ReopenedStays
<1> DEFINE T == Item(stores[f[1]])
           x == F[f]
<1>3. x \in Seq(T)
  BY DEF FilesOk, FileOk
<1> HIDE DEF T, x
<1>4. Longest(x, x)
  <2>1. x \in Seq(T)
    BY <1>3
  <2>2. IsPrefix(x, x)
    BY <2>1 DEF IsPrefix
  <2> QED
    BY <2>2 DEF Longest
<1>5. CASE H = G
  BY <1>2, <1>4, <1>5 DEF x
<1>6. CASE \E h, e : Extended(G, H, h, e) /\ e \in Item(stores[h[1]])
  <2>1. PICK h, e : Extended(G, H, h, e) /\ e \in Item(stores[h[1]])
    BY <1>6
  <2>2. CASE h # f
    <3>1. H[f] = G[f] /\ f \in DOMAIN H
      BY <1>2, <2>1, <2>2 DEF Extended
    <3> QED
      BY <1>2, <1>4, <3>1 DEF x
  <2>3. CASE h = f
    <3>1. H[f] = Append(x, e) /\ f \in DOMAIN H /\ e \in T
      BY <1>2, <2>1, <2>3 DEF Extended, x, T
    <3>2. IsPrefix(x, Append(x, e)) /\ Longer(x, Append(x, e), e, Len(x) + 1)
      BY <1>3, <3>1, AppendPrefix, AppendLonger
    <3>3. Longest(x, Append(x, e))
      BY <3>2 DEF Longest, Longer
    <3> QED
      BY <3>1, <3>3 DEF x
  <2> QED
    BY <2>2, <2>3
<1> QED
  BY <1>1, <1>5, <1>6

\* Without a change of the files and of what is lost.
LEMMA GrownSame ==
    ASSUME NEW F, NEW L, FilesOk(F, now)
    PROVE  Grown(F, L, F, L)
<1>1. Reopened(F, F, L)
  BY DEF Reopened
<1> QED
  BY <1>1 DEF Grown

\* Opening the file of a key.
LEMMA OpenedReopens ==
    ASSUME FilesOk(files, now), NEW s \in DOMAIN stores, NEW k,
           stores[s].scheme \in {"tar", "hrdp"}, stores[s].scheme = "hrdp" => k = NoKey,
           NEW M, Replaced(s, k) \subseteq M
    PROVE  /\ Reopened(files, Opened(s, k), M)
           /\ DOMAIN Opened(s, k) = DOMAIN files \cup {<<s, k, now>>}
<1> DEFINE f == <<s, k, now>>
           G == Opened(s, k)
           x == IF f \in DOMAIN files /\ stores[s].scheme = "hrdp" THEN files[f] ELSE <<>>
<1>1. G = [y \in DOMAIN files \cup {f} |-> IF y = f THEN x ELSE files[y]]
  BY DEF Opened, Put, FileName
<1>2. f[1] = s /\ f[2] = k /\ f[3] = now /\ f = <<f[1], f[2], f[3]>>
  OBVIOUS
<1>3. f \in DOMAIN files /\ stores[s].scheme = "tar" =>
          \A n \in DOMAIN files[f] : <<f[1], files[f][n].pkt>> \in M
  BY DEF Replaced, FileName
<1> HIDE DEF f, G
<1>4. DOMAIN G = DOMAIN files \cup {f} /\ G[f] = x /\ \A y \in DOMAIN files : y # f => G[y] = files[y]
  <2> HIDE DEF x
  <2> QED
    BY <1>1
<1>5. ASSUME NEW g \in DOMAIN G
      PROVE  \/ g \in DOMAIN files /\ G[g] = files[g]
             \/ /\ g = <<g[1], g[2], g[3]>>
                /\ g[3] = now
                /\ g[1] \in DOMAIN stores
                /\ stores[g[1]].scheme = "hrdp" => g[2] = NoKey
                /\ G[g] = <<>>
                /\ g \in DOMAIN files => /\ stores[g[1]].scheme = "tar"
                                         /\ \A n \in DOMAIN files[g] : <<g[1], files[g][n].pkt>> \in M
  <2>1. CASE g # f
    BY <1>4, <2>1
  <2>2. CASE g = f /\ f \in DOMAIN files /\ stores[s].scheme = "hrdp"
    BY <1>4, <2>2
  <2>3. CASE g = f /\ ~(f \in DOMAIN files /\ stores[s].scheme = "hrdp")
    <3>1. G[g] = <<>>
      BY <1>4, <2>3
    <3>2. g \in DOMAIN files => stores[s].scheme = "tar"
      BY <2>3
    <3> QED
      BY <1>2, <1>3, <2>3, <3>1, <3>2
  <2> QED
    BY <2>1, <2>2, <2>3
<1>6. Reopened(files, G, M)
  BY <1>4, <1>5 DEF Reopened
<1> QED
  BY <1>4, <1>6 DEF f, G

\* The rollers once that of a key writes to the file of this second.
LEMMA RollersOpened ==
    ASSUME NEW F, NEW G, NEW R, NEW Q, NEW s \in DOMAIN stores, NEW k, now \in Nat,
           FilesOk(F, now), RollersOk(F, R), stores[s].scheme \in {"tar", "hrdp"},
           stores[s].scheme = "hrdp" => k = NoKey,
           DOMAIN G = DOMAIN F \cup {<<s, k, now>>}, DOMAIN Q = DOMAIN R \cup {<<s, k>>},
           Q[<<s, k>>] = now, \A r \in DOMAIN R : r # <<s, k>> => Q[r] = R[r]
    PROVE  RollersOk(G, Q) /\ Newest(G, s, k, now)
<1>1. \A f \in DOMAIN F : f[3] \in Nat /\ f[3] <= now
  BY DEF FilesOk, FileOk
<1>2. Newest(G, s, k, now)
  BY <1>1 DEF Newest
<1>3. ASSUME NEW r \in DOMAIN Q
      PROVE  /\ r = <<r[1], r[2]>>
             /\ r[1] \in DOMAIN stores
             /\ stores[r[1]].scheme \in {"tar", "hrdp"}
             /\ stores[r[1]].scheme = "hrdp" => r[2] = NoKey
             /\ Q[r] \in Nat
             /\ Newest(G, r[1], r[2], Q[r])
  <2>1. CASE r = <<s, k>>
    BY <1>2, <2>1
  <2>2. CASE r # <<s, k>>
    <3>1. /\ r = <<r[1], r[2]>> /\ r[1] \in DOMAIN stores /\ Q[r] = R[r] /\ R[r] \in Nat
          /\ stores[r[1]].scheme \in {"tar", "hrdp"}
          /\ stores[r[1]].scheme = "hrdp" => r[2] = NoKey
          /\ Newest(F, r[1], r[2], R[r])
      BY <2>2 DEF RollersOk
    <3>2. ~(r[1] = s /\ r[2] = k)
      BY <2>2, <3>1
    <3>3. <<s, k, now>>[1] = s /\ <<s, k, now>>[2] = k
      OBVIOUS
    <3>4. Newest(G, r[1], r[2], Q[r])
      BY <3>1, <3>2, <3>3 DEF Newest
    <3> QED
      BY <3>1, <3>4
  <2> QED
    BY <2>1, <2>2
<1> QED
  BY <1>2, <1>3 DEF RollersOk

-----------------------------------------------------------------------------
(* What a storage writes. *)

\* A storage as the configuration names it, with one of the two names of its
\* scheme and format.
Names == STRING \cup {"tar", "vmu", "hdk"}
Storage ==
    [scheme : Names, format : Names, located : BOOLEAN,
     control : [type : STRING, accept : Seq(Nat), reject : Seq(Nat)]]

\* The storages setupStorage makes are options of the configuration.
LEMMA StoresTyped ==
    ASSUME options \in Configs
    PROVE  stores \in Seq(Storage)
<1> DEFINE os == options
           s == [n \in DOMAIN os |-> IF os[n].scheme = "" THEN <<>> ELSE <<Made(os[n])>>]
<1>1. os \in Seq(Option)
  BY ArchiveAssumption
<1> HIDE DEF os
<1>2. ASSUME NEW n \in DOMAIN os
      PROVE  (IF os[n].scheme = "" THEN <<>> ELSE <<Made(os[n])>>) \in Seq(Storage)
  <2> DEFINE o == Made(os[n])
  <2>1. o \in Storage
    <3> DEFINE q == os[n]
               s1 == Scheme(q.scheme)
               f1 == Format(q.format)
    <3>1. q \in Option
      BY <1>1
    <3>2. s1 \in Names /\ f1 \in Names
      <4>1. q.scheme \in STRING /\ q.format \in STRING
        BY <3>1 DEF Option
      <4> QED
        BY <4>1 DEF Names, Scheme, Format
    <3>3. o = [q EXCEPT !.scheme = s1, !.format = f1]
      BY DEF Made
    <3> HIDE DEF q, s1, f1, o
    <3> QED
      BY <3>1, <3>2, <3>3 DEF Option, Storage
  <2> HIDE DEF o
  <2>2. <<o>> \in Seq(Storage) /\ <<>> \in Seq(Storage)
    BY <2>1
  <2> QED
    BY <2>2 DEF o
<1>3. s \in Seq(Seq(Storage))
  <2>1. DOMAIN os = 1 .. Len(os) /\ Len(os) \in Nat
    BY <1>1
  <2> DEFINE T == Seq(Storage)
  <2>2. s \in [1 .. Len(os) -> T]
    BY <1>2, <2>1
  <2> HIDE DEF s, T
  <2> QED
    BY <2>1, <2>2 DEF T
<1> HIDE DEF s
<1>4. FlattenSeq(s) \in Seq(Storage)
  BY <1>3, FlattenAppend
<1> QED
  BY <1>4 DEF stores, Stores, os, s

\* What the storage writes now is an entry or a record of it, whole or not.
RecordOk(e) ==
    /\ e \in Item(stores[at])
    /\ e.pkt = pkt
    /\ stores[at].scheme = "tar" => e.part = pc

\* What the storage writes is an item of its file, whole or cut short.
LEMMA RecordWritten ==
    ASSUME Writing, pkt \in Packet, OfChannel(pkt)
    PROVE  /\ RecordOk(Record)
           /\ ~Record.cut
           /\ \A c \in Cuts(Record) : c # 0 => RecordOk([Record EXCEPT !.bytes = c, !.cut = TRUE])
<1> DEFINE o == stores[at]
<1>1. CASE o.scheme = "tar"
  <2> DEFINE r == [ok |-> TRUE, pkt |-> pkt, part |-> pc, bytes |-> 2, cut |-> FALSE]
  <2>1. Record = r
    BY <1>1 DEF Record
  <2>2. Can(o.control, pkt) /\ pc \in Part
    BY <1>1 DEF Writing, Part
  <2>3. r \in Entries /\ r.pkt = pkt /\ r.part = pc /\ r.cut = FALSE
    BY <2>2 DEF Entries
  <2> HIDE DEF r
  <2>4. \A e : e \in Entries /\ e.pkt = pkt /\ e.part = pc => RecordOk(e)
    BY <1>1, <2>2 DEF RecordOk, Item, TarItem
  <2>5. ASSUME NEW c \in Cuts(r), c # 0
        PROVE  RecordOk([r EXCEPT !.bytes = c, !.cut = TRUE])
    <3> DEFINE q == [r EXCEPT !.bytes = c, !.cut = TRUE]
    <3>1. c = 1
      BY <1>1, <2>5 DEF Cuts
    <3>2. q \in Entries /\ q.pkt = pkt /\ q.part = pc
      BY <2>3, <3>1 DEF Entries
    <3> QED
      BY <2>4, <3>2
  <2> QED
    BY <2>1, <2>3, <2>4, <2>5
<1>2. CASE o.scheme # "tar"
  <2>1. Fits(Record, pkt, o.format)
    <3>1. CASE o.format = "vmu"
      <4>1. Record = EncodePacket(pkt)
        BY <1>2, <3>1 DEF Record
      <4>2. EncodePacket(pkt).ok
        BY <1>2, <4>1 DEF Writing
      <4> QED
        BY <3>1, <4>1, <4>2, EncodeFits
    <3>2. CASE o.format # "vmu"
      <4>1. Record = encodeHadock(pkt)
        BY <1>2, <3>2 DEF Record
      <4> DEFINE format == o.format
      <4>2. format # "vmu"
        BY <3>2
      <4> HIDE DEF format
      <4>3. Fits(encodeHadock(pkt), pkt, format)
        BY ONLY <4>2, pkt \in Packet, HadockFits
      <4> QED
        BY <4>1, <4>3 DEF format
    <3> QED
      BY <3>1, <3>2
  <2> DEFINE r == Record
  <2> HIDE DEF r
  <2>2. \A e : e \in HrdpItem(o.format) /\ e.pkt = pkt => RecordOk(e)
    BY <1>2 DEF RecordOk, Item
  <2>3. ASSUME NEW c \in Cuts(r), c # 0
        PROVE  RecordOk([r EXCEPT !.bytes = c, !.cut = TRUE])
    <3>1. c \in RecordCuts(r)
      BY <1>2, <2>3 DEF Cuts, RecordCuts
    <3> QED
      BY <2>1, <2>2, <3>1 DEF Fits, r
  <2>4. r \in HrdpItem(o.format) /\ r.pkt = pkt /\ r.cut = FALSE
    BY <2>1 DEF Fits, r
  <2> QED
    BY <2>2, <2>3, <2>4 DEF r
<1> QED
  BY <1>1, <1>2

\* The files and the rollers once the storage has its roller.
ReadyOk(M) ==
    /\ Reopened(files, Ready, M)
    /\ FilesOk(Ready, now)
    /\ RollersOk(Ready, Put(rollers, Key, OpenName))
    /\ Newest(Ready, at, Key[2], OpenName)
    /\ Target = <<at, Key[2], OpenName>>
    /\ stores[at].scheme = "tar" => Key[2] = cacheKey(pkt)

\* The file a storage writes to is open, well formed and the newest of its key.
LEMMA StoreReady ==
    ASSUME Base, Writing, FilesOk(files, now), RollersOk(files, rollers), NEW M,
           Key \notin DOMAIN rollers => Replaced(Key[1], Key[2]) \subseteq M
    PROVE  ReadyOk(M)
<1> DEFINE s == at
           k == Key[2]
           Q == Put(rollers, Key, OpenName)
<1>1. /\ Key = <<s, k>> /\ Key[1] = s /\ s \in DOMAIN stores
      /\ stores[s].scheme \in {"tar", "hrdp"} /\ (stores[s].scheme = "hrdp" => k = NoKey)
      /\ stores[s].scheme = "tar" => k = cacheKey(pkt)
  BY DEF Key, Base, Writing, Active
<1>2. Target = <<s, k, OpenName>>
  BY <1>1 DEF Target
<1>3. now \in Nat
  BY DEF Base
<1>4. /\ DOMAIN Q = DOMAIN rollers \cup {<<s, k>>} /\ Q[<<s, k>>] = OpenName
      /\ \A r \in DOMAIN rollers : r # <<s, k>> => Q[r] = rollers[r]
  BY <1>1 DEF Put
<1> HIDE DEF k, Q
<1>5. CASE Key \in DOMAIN rollers
  <2>1. Ready = files /\ OpenName = rollers[Key]
    BY <1>5 DEF Ready, OpenName
  <2>2. Reopened(files, files, M)
    BY DEF Reopened
  <2>3. DOMAIN Q = DOMAIN rollers /\ \A r \in DOMAIN rollers : Q[r] = rollers[r]
    BY <1>1, <1>4, <1>5, <2>1
  <2>4. RollersOk(files, Q)
    BY <2>3 DEF RollersOk
  <2>5. Newest(files, s, k, OpenName)
    <3>1. Newest(files, Key[1], Key[2], rollers[Key])
      BY <1>5 DEF RollersOk
    <3> QED
      BY <1>1, <2>1, <3>1 DEF k
  <2> QED
    BY <1>1, <1>2, <2>1, <2>2, <2>4, <2>5 DEF ReadyOk, k, Q
<1>6. CASE Key \notin DOMAIN rollers
  <2> DEFINE G == Opened(s, k)
  <2>1. Ready = G /\ OpenName = now
    BY <1>1, <1>6 DEF Ready, OpenName, FileName, k
  <2>2. Replaced(s, k) \subseteq M
    BY <1>1, <1>6 DEF k
  <2>3. Reopened(files, G, M) /\ DOMAIN G = DOMAIN files \cup {<<s, k, now>>}
    BY <1>1, <2>2, OpenedReopens
  <2> HIDE DEF G
  <2>4. FilesOk(G, now)
    BY <1>3, <2>3, ReopenedOk
  <2>5. RollersOk(G, Q) /\ Newest(G, s, k, now)
    <3>1. Q[<<s, k>>] = now
      BY <1>4, <2>1
    <3> DEFINE F == files
               R == rollers
    <3>2. FilesOk(F, now) /\ RollersOk(F, R) /\ DOMAIN G = DOMAIN F \cup {<<s, k, now>>}
          /\ DOMAIN Q = DOMAIN R \cup {<<s, k>>} /\ \A r \in DOMAIN R : r # <<s, k>> => Q[r] = R[r]
      BY <1>4, <2>3
    <3> HIDE DEF F, R
    <3> QED
      BY ONLY <1>1, <1>3, <3>1, <3>2, RollersOpened
  <2> QED
    BY <1>1, <1>2, <2>1, <2>3, <2>4, <2>5 DEF ReadyOk, k, Q
<1> QED
  BY <1>5, <1>6

-----------------------------------------------------------------------------
(* The lists of a control. *)

\* A list that is sorted is searched as it should be.
LEMMA SortedFinds ==
    ASSUME NEW vs \in Seq(Nat), Sorted(vs), NEW o \in Nat
    PROVE  FoundAscending(vs, o) <=> o \in ToSet(vs)
<1>1. vs \in Seq(Int) /\ o \in Int /\ DOMAIN vs = 1 .. Len(vs) /\ Len(vs) \in Nat
      /\ \A i \in 1 .. Len(vs) : vs[i] \in Nat
  OBVIOUS
<1>2. ASSUME NEW a \in 1 .. Len(vs), NEW b \in 1 .. Len(vs), a <= b PROVE vs[a] <= vs[b]
  <2>1. vs[a] \in Nat /\ vs[b] \in Nat /\ a \in Nat /\ b \in Nat
    BY <1>1
  <2>2. CASE a = b
    BY <2>1, <2>2
  <2>3. CASE a # b
    <3>1. a < b
      BY ONLY <1>2, <2>1, <2>3
    <3> QED
      BY <1>1, <3>1 DEF Sorted
  <2> QED
    BY <2>2, <2>3
<1>3. FoundAscending(vs, o) <=> \E m \in 1 .. Len(vs) : vs[m] = o
  BY <1>1, <1>2, AscendingFinds
<1>4. o \in ToSet(vs) <=> \E m \in 1 .. Len(vs) : vs[m] = o
  BY <1>1 DEF ToSet
<1> QED
  BY <1>3, <1>4

\* A control whose lists are sorted lets the packets pass that it wants.
LEMMA CanWanted ==
    ASSUME NEW o \in Storage, NEW p \in Packet, Sorted(o.control.accept), Sorted(o.control.reject)
    PROVE  Can(o.control, p) <=> Wanted(o.control, p)
<1> DEFINE c == o.control
           a == c.accept
           r == c.reject
           x == IF c.type \in {"origin", "source"} THEN p.origin ELSE p.channel
<1>1. a \in Seq(Nat) /\ r \in Seq(Nat) /\ x \in Nat
  BY DEF Storage, Packet
<1>2. Sorted(a) /\ Sorted(r)
  OBVIOUS
<1>3. Can(c, p) <=> /\ c.type \in {"", "channel", "origin", "source"}
                    /\ \/ a = <<>> /\ r = <<>>
                       \/ a = <<>> /\ ~(r = <<>> \/ FoundAscending(r, x))
                       \/ a # <<>> /\ ((a = <<>> \/ FoundAscending(a, x)) \/ ~(r = <<>> \/ FoundAscending(r, x)))
  BY Zenon DEF Can, checkOrigin
<1>4. Wanted(c, p) <=> /\ c.type \in {"", "channel", "origin", "source"}
                       /\ \/ x \in ToSet(a)
                          \/ (a = <<>> \/ r # <<>>) /\ x \notin ToSet(r)
  BY Zenon DEF Wanted
<1> HIDE DEF a, r, x, c
<1>5. (FoundAscending(a, x) <=> x \in ToSet(a)) /\ (FoundAscending(r, x) <=> x \in ToSet(r))
  BY <1>1, <1>2, SortedFinds
<1>6. \A vs : vs = <<>> => x \notin ToSet(vs)
  BY DEF ToSet
<1>7. Can(c, p) <=> Wanted(c, p)
  BY ONLY <1>3, <1>4, <1>5, <1>6, Zenon
<1> QED
  BY <1>7 DEF c

-----------------------------------------------------------------------------
(* The invariant is inductive. *)

\* Nothing is stored at first.
LEMMA InitInv == ArchiveInit => ArchiveInv
<1> SUFFICES ASSUME ArchiveInit PROVE ArchiveInv
  OBVIOUS
<1>1. files = <<>> /\ rollers = <<>> /\ pc = "down" /\ returned = {}
  BY DEF ArchiveInit
<1>2. DOMAIN files = {} /\ DOMAIN rollers = {}
  BY <1>1
<1>3. Base
  BY DEF ArchiveInit, Base, Active
<1>4. FilesOk(files, now) /\ RollersOk(files, rollers) /\ FollowsIn(files, lost)
  BY <1>2 DEF FilesOk, RollersOk, FollowsIn
<1>5. MetaDue /\ AllSettled
  BY <1>1 DEF MetaDue, AllSettled, Active
<1> QED
  BY <1>3, <1>4, <1>5 DEF ArchiveInv

\* The parts of the invariant in the next state, with the storages of this one.
NextBase ==
    /\ pc' \in {"down", "aborted", "idle"} \cup Active
    /\ pc' \in Active =>
          at' \in DOMAIN stores /\ pkt' \in Packet /\ OfChannel(pkt') /\ pkt'.id = sent'
    /\ pc' \notin Active => at' = 1
    /\ pc' \in {"idle"} \cup Active =>
          \A s \in DOMAIN stores : stores[s].scheme \in {"tar", "hrdp", "file"}
    /\ err' \in BOOLEAN
    /\ now' \in Nat
    /\ sent' \in Nat

NextMeta ==
    pc' = "meta" =>
        /\ stores[at'].scheme = "tar"
        /\ PendingIn(files', lost', at', cacheKey(pkt'), pkt')
        /\ <<at', pkt'>> \in lost' \/ WrittenIn(files', at', pkt', "store")

NextSettled ==
    /\ \A r \in returned' : r[1] \in Packet
    /\ \A r \in returned' : \A s \in DOMAIN stores :
           Settled(files', lost', failed', s, r[1], r[2])
    /\ pc' \in Active => \A s \in DOMAIN stores :
           s < at' => Settled(files', lost', failed', s, pkt', err')

\* The parts of the invariant in the next state make the invariant.
LEMMA NextInv ==
    ASSUME options' = options, options \in Configs, NextBase, FilesOk(files', now'),
           RollersOk(files', rollers'), FollowsIn(files', lost'), NextMeta, NextSettled
    PROVE  ArchiveInv'
<1>1. stores' = stores
  BY DEF stores
<1>2. Base'
  BY <1>1 DEF NextBase, Base, Active
<1>3. FilesOk(files, now)'
  BY <1>1 DEF FilesOk, FileOk
<1>4. RollersOk(files, rollers)'
  BY <1>1 DEF RollersOk
<1>5. FollowsIn(files, lost)'
  BY <1>1 DEF FollowsIn
<1>6. MetaDue'
  BY <1>1 DEF NextMeta, MetaDue, WrittenIn
<1>7. AllSettled'
  BY <1>1 DEF NextSettled, AllSettled, Settled, WrittenIn, Parts, Active
<1> QED
  BY <1>2, <1>3, <1>4, <1>5, <1>6, <1>7 DEF ArchiveInv

\* FilesOk holds a second later as well.
LEMMA FilesLater ==
    ASSUME NEW F, NEW t \in Nat, FilesOk(F, t)
    PROVE  FilesOk(F, t + 1)
BY DEF FilesOk, FileOk

\* A step that does not end the call of a storage.
LEMMA StaysSettled ==
    ASSUME AllSettled, Grown(files, lost, files', lost'), failed' = failed, returned' = returned,
           pc' \in Active => pc \in Active /\ at' = at /\ pkt' = pkt /\ err' = err
    PROVE  NextSettled
<1>1. ASSUME NEW s \in DOMAIN stores, NEW p, NEW b, Settled(files, lost, failed, s, p, b)
      PROVE  Settled(files', lost', failed', s, p, b)
  BY <1>1, GrownSettled
<1>2. \A r \in returned' : \A s \in DOMAIN stores :
           Settled(files', lost', failed', s, r[1], r[2])
  BY <1>1 DEF AllSettled
<1>3. pc' \in Active => \A s \in DOMAIN stores :
           s < at' => Settled(files', lost', failed', s, pkt', err')
  BY <1>1 DEF AllSettled
<1>4. \A r \in returned' : r[1] \in Packet
  BY DEF AllSettled
<1> QED
  BY <1>2, <1>3, <1>4 DEF NextSettled

\* The call of a storage ends.
LEMMA EndsSettled ==
    ASSUME ArchiveInv, pc \in Active, NEW e \in BOOLEAN, NextStore(e),
           UNCHANGED <<options, pkt, now, sent>>, Grown(files, lost, files', lost'),
           RollersOk(files', rollers'), FollowsIn(files', lost'),
           NEW b \in BOOLEAN, b = (err \/ e), Settled(files', lost', failed', at, pkt, b)
    PROVE  ArchiveInv'
<1>1. /\ Base /\ AllSettled /\ options' = options /\ options \in Configs /\ pkt' = pkt
      /\ now' = now /\ sent' = sent /\ err \in BOOLEAN
  BY DEF ArchiveInv, Base
<1> DEFINE n == Len(stores)
<1>2. DOMAIN stores = 1 .. n /\ n \in Nat /\ at \in 1 .. n
  <2>1. stores \in Seq(Storage)
    BY <1>1, StoresTyped
  <2> QED
    BY <1>1, <2>1 DEF Base
<1>3. failed \subseteq failed' /\ (err = TRUE => b = TRUE)
  BY DEF NextStore
<1>4. \/ at < n /\ at' = at + 1 /\ pc' = "store" /\ returned' = returned
      \/ ~(at < n) /\ at' = 1 /\ pc' = "idle" /\ returned' = returned \cup {<<pkt, err \/ e>>}
  BY DEF NextStore
<1>5. err' = (at < n /\ (err \/ e))
  BY DEF NextStore
<1>6. err' \in BOOLEAN /\ (at < n => err' = b)
  BY <1>5
<1> HIDE DEF n
<1>7. NextBase
  <2>1. pc' \in {"store", "idle"} /\ at' \in Nat
    BY <1>2, <1>4
  <2>2. pc' \in Active => at' \in DOMAIN stores
    BY <1>2, <1>4 DEF Active
  <2>3. pc' \notin Active => at' = 1
    BY <1>4 DEF Active
  <2>4. \A s \in DOMAIN stores : stores[s].scheme \in {"tar", "hrdp", "file"}
    BY <1>1 DEF Base
  <2>5. pkt \in Packet /\ OfChannel(pkt) /\ pkt.id = sent /\ now \in Nat /\ sent \in Nat
    BY <1>1 DEF Base
  <2> QED
    BY <1>1, <1>6, <2>1, <2>2, <2>3, <2>4, <2>5 DEF NextBase, Active
<1>8. FilesOk(files', now')
  BY <1>1, GrownOk
<1>9. NextMeta
  BY <1>4 DEF NextMeta
<1>10. ASSUME NEW s \in DOMAIN stores, s <= at PROVE Settled(files', lost', failed', s, pkt, b)
  <2>1. CASE s = at
    BY <2>1
  <2>2. CASE s # at
    <3>1. s < at
      BY ONLY <1>2, <1>10, <2>2
    <3>2. Settled(files, lost, failed, s, pkt, err)
      BY <1>1, <3>1 DEF AllSettled
    <3> QED
      BY <1>3, <3>2, GrownSettled
  <2> QED
    BY <2>1, <2>2
<1>11. \A r \in returned : \A s \in DOMAIN stores : Settled(files', lost', failed', s, r[1], r[2])
  <2> SUFFICES ASSUME NEW r \in returned, NEW s \in DOMAIN stores
               PROVE  Settled(files', lost', failed', s, r[1], r[2])
    OBVIOUS
  <2> DEFINE p == r[1]
             c == r[2]
  <2>1. Settled(files, lost, failed, s, p, c)
    BY <1>1 DEF AllSettled
  <2> HIDE DEF p, c
  <2>2. Settled(files', lost', failed', s, p, c)
    BY <1>3, <2>1, GrownSettled
  <2> QED
    BY <2>2 DEF p, c
<1>12. NextSettled
  <2>0. \A r \in returned' : r[1] \in Packet
    <3>1. pkt \in Packet /\ \A r \in returned : r[1] \in Packet
      BY <1>1 DEF AllSettled, Base
    <3>2. <<pkt, err \/ e>>[1] = pkt
      OBVIOUS
    <3> QED
      BY <1>4, <3>1, <3>2
  <2>1. CASE at < n
    <3>1. \A s \in DOMAIN stores : s < at' => s <= at
      BY <1>2, <1>4, <2>1
    <3>2. pc' \in Active /\ returned' = returned /\ err' = b
      BY <1>4, <1>6, <2>1 DEF Active
    <3> QED
      BY <1>1, <1>10, <1>11, <2>0, <3>1, <3>2 DEF NextSettled
  <2>2. CASE ~(at < n)
    <3>1. \A s \in DOMAIN stores : s <= at
      BY <1>2, <2>2
    <3>2. pc' = "idle"
      BY <1>4, <2>2
    <3>3. pc' \notin Active
      BY <3>2 DEF Active
    <3>4. \A r \in returned' : r \in returned \/ r = <<pkt, b>>
      BY <1>4, <2>2
    <3>5. \A s \in DOMAIN stores : Settled(files', lost', failed', s, pkt, b)
      BY <1>10, <3>1
    <3>6. \A r : r = <<pkt, b>> => r[1] = pkt /\ r[2] = b
      OBVIOUS
    <3>7. ASSUME NEW r \in returned', NEW s \in DOMAIN stores
          PROVE  Settled(files', lost', failed', s, r[1], r[2])
      <4>1. CASE r \in returned
        BY <1>11, <4>1
      <4>2. CASE r = <<pkt, b>>
        BY <3>5, <3>6, <4>2
      <4> QED
        BY <3>4, <4>1, <4>2
    <3> QED
      BY <2>0, <3>3, <3>7 DEF NextSettled
  <2> QED
    BY <2>1, <2>2
<1> QED
  BY <1>1, <1>7, <1>8, <1>9, <1>12, NextInv

\* setupStorage opens the files of the hrdp stores, or none, and the process
\* goes on only when all of its storages can be used.
LEMMA SetupInv == ArchiveInv /\ Setup => ArchiveInv' /\ Grown(files, lost, files', lost')
<1> SUFFICES ASSUME ArchiveInv, Setup PROVE ArchiveInv' /\ Grown(files, lost, files', lost')
  OBVIOUS
<1> DEFINE n  == SelectInSeq(stores, LAMBDA o : ~Usable(o))
           ok == 1 .. (IF n = 0 THEN Len(stores) ELSE n - 1)
           hs == {s \in ok : stores[s].scheme = "hrdp"}
           X  == {<<s, NoKey, now>> : s \in hs}
<1>1. /\ Base /\ AllSettled /\ FilesOk(files, now) /\ RollersOk(files, rollers)
      /\ FollowsIn(files, lost) /\ options \in Configs /\ now \in Nat
  BY DEF ArchiveInv, Base
<1>2. stores \in Seq(Storage) /\ DOMAIN stores = 1 .. Len(stores) /\ Len(stores) \in Nat
  <2>1. stores \in Seq(Storage)
    BY <1>1, StoresTyped
  <2> QED
    BY <2>1
<1>3. n \in 0 .. Len(stores) /\ (n = 0 => \A s \in DOMAIN stores : Usable(stores[s]))
  <2> DEFINE I == {i \in 1 .. Len(stores) : ~Usable(stores[i])}
  <2>1. n = IF I # {} THEN Min(I) ELSE 0
    BY DEF SelectInSeq
  <2>2. I \subseteq Nat
    BY <1>2
  <2>3. CASE I = {}
    BY <1>2, <2>1, <2>3
  <2>4. CASE I # {}
    <3>1. PICK x \in I : \A y \in I : x <= y
      BY <2>2, <2>4, LeastElement
    <3>2. \A x1 \in I : x1 \in 1 .. Len(stores)
      OBVIOUS
    <3> HIDE DEF I
    <3>3. Min(I) \in I
      BY <3>1 DEF Min
    <3>4. n \in 1 .. Len(stores)
      BY <2>1, <2>4, <3>2, <3>3
    <3> HIDE DEF n
    <3> QED
      BY <1>2, <3>4
  <2> QED
    BY <2>3, <2>4
<1>4. /\ pc = "down" /\ pc' = (IF options = <<>> \/ n # 0 THEN "aborted" ELSE "idle")
      /\ files' = [f \in DOMAIN files \cup {<<s, NoKey, FileName>> : s \in hs} |->
                        IF f \in DOMAIN files THEN files[f] ELSE <<>>]
      /\ rollers' = [r \in {<<s, NoKey>> : s \in hs} |-> FileName]
      /\ UNCHANGED <<options, at, pkt, err, now, returned, failed, lost, sent, rolls, faults>>
  BY Zenon DEF Setup
<1>5. /\ DOMAIN files' = DOMAIN files \cup X
      /\ \A f \in DOMAIN files : files'[f] = files[f]
      /\ \A f \in X : f \notin DOMAIN files => files'[f] = <<>>
      /\ DOMAIN rollers' = {<<s, NoKey>> : s \in hs}
      /\ \A r \in DOMAIN rollers' : rollers'[r] = now
  <2> HIDE DEF hs
  <2> QED
    BY <1>4 DEF FileName
<1>6. hs \subseteq DOMAIN stores /\ \A s \in hs : stores[s].scheme = "hrdp"
  <2> HIDE DEF n
  <2> QED
    BY <1>2, <1>3
<1> HIDE DEF hs
<1>7. \A f \in X : f = <<f[1], f[2], f[3]>> /\ f[3] = now /\ f[1] \in hs /\ f[2] = NoKey
  OBVIOUS
<1> HIDE DEF X
<1>8. Reopened(files, files', lost')
  <2>1. DOMAIN files \subseteq DOMAIN files'
    BY <1>5
  <2>2. ASSUME NEW f \in DOMAIN files', ~(f \in DOMAIN files /\ files'[f] = files[f])
        PROVE  /\ f = <<f[1], f[2], f[3]>> /\ f[3] = now /\ f[1] \in DOMAIN stores /\ f[2] = NoKey
               /\ files'[f] = <<>> /\ f \notin DOMAIN files
    BY <1>5, <1>6, <1>7, <2>2
  <2> QED
    BY <2>1, <2>2 DEF Reopened
<1>9. FilesOk(files', now)
  BY <1>1, <1>8, ReopenedOk
<1>10. Grown(files, lost, files', lost')
  BY <1>4, <1>8, <1>9 DEF Grown
<1>11. FollowsIn(files', lost')
  BY <1>1, <1>4, <1>8, ReopenedFollows
<1>12. RollersOk(files', rollers')
  <2>1. ASSUME NEW s \in hs
        PROVE  /\ <<s, NoKey>>[1] = s /\ <<s, NoKey>>[2] = NoKey /\ s \in DOMAIN stores
               /\ stores[s].scheme \in {"tar", "hrdp"} /\ Newest(files', s, NoKey, now)
    <3>1. <<s, NoKey, now>> \in DOMAIN files'
      BY <1>5 DEF X
    <3>2. \A f \in DOMAIN files' : f[3] <= now
      BY <1>1, <1>9 DEF FilesOk, FileOk
    <3> QED
      BY <1>6, <3>1, <3>2 DEF Newest
  <2> QED
    BY <1>1, <1>5, <2>1 DEF RollersOk
<1>13. NextBase
  <2>1. pc' = "idle" => n = 0
    <3> HIDE DEF n
    <3> QED
      BY <1>4
  <2>2. pc' = "idle" => \A s \in DOMAIN stores : stores[s].scheme \in {"tar", "hrdp", "file"}
    <3> HIDE DEF n
    <3> QED
      BY <1>3, <2>1 DEF Usable
  <2>3. pc' \in {"aborted", "idle"} /\ at' = at /\ err' = err /\ now' = now /\ sent' = sent
    <3> HIDE DEF n
    <3> QED
      BY <1>4
  <2>4. at = 1 /\ err \in BOOLEAN /\ now \in Nat /\ sent \in Nat
    BY <1>1, <1>4 DEF Base, Active
  <2> QED
    BY <2>2, <2>3, <2>4 DEF NextBase, Active
<1>14. pc' \notin Active
  BY <1>4 DEF Active
<1>15. NextMeta /\ NextSettled
  <2>1. NextMeta
    BY <1>14 DEF NextMeta, Active
  <2>2. failed' = failed /\ returned' = returned
    BY <1>4
  <2> QED
    BY <1>1, <1>10, <1>14, <2>1, <2>2, StaysSettled
<1>16. FilesOk(files', now')
  BY <1>4, <1>9
<1> QED
  BY <1>1, <1>4, <1>10, <1>11, <1>12, <1>13, <1>15, <1>16, NextInv

\* A rotation.
LEMMA RollInv ==
    ASSUME ArchiveInv, NEW r \in DOMAIN rollers, Roll(r)
    PROVE  ArchiveInv' /\ Grown(files, lost, files', lost')
<1> DEFINE s == r[1]
           k == r[2]
<1>1. /\ Base /\ AllSettled /\ MetaDue /\ FilesOk(files, now) /\ RollersOk(files, rollers)
      /\ FollowsIn(files, lost) /\ options \in Configs /\ now \in Nat
  BY DEF ArchiveInv, Base
<1>2. r = <<s, k>> /\ s \in DOMAIN stores /\ (stores[s].scheme = "hrdp" => k = NoKey)
  BY <1>1 DEF RollersOk
<1>3. stores[s].scheme \in {"tar", "hrdp"}
  BY <1>1, <1>2 DEF RollersOk
<1>4. /\ files' = Opened(s, k) /\ lost' = lost \cup Replaced(s, k)
      /\ rollers' = [rollers EXCEPT ![r] = now]
      /\ UNCHANGED <<options, pc, at, pkt, err, now, returned, failed, sent, faults>>
  BY DEF Roll, FileName
<1> HIDE DEF s, k
<1>5. Reopened(files, files', lost') /\ DOMAIN files' = DOMAIN files \cup {<<s, k, now>>}
  <2> DEFINE M == lost \cup Replaced(s, k)
  <2>1. Replaced(s, k) \subseteq M /\ lost' = M
    BY <1>4
  <2> HIDE DEF M
  <2>2. Reopened(files, Opened(s, k), M) /\ DOMAIN Opened(s, k) = DOMAIN files \cup {<<s, k, now>>}
    BY ONLY <1>1, <1>2, <1>3, <2>1, OpenedReopens
  <2> QED
    BY <1>4, <2>1, <2>2
<1>6. FilesOk(files', now)
  BY <1>1, <1>5, ReopenedOk
<1>7. Grown(files, lost, files', lost')
  BY <1>4, <1>5, <1>6 DEF Grown
<1>8. FollowsIn(files', lost')
  BY <1>1, <1>4, <1>5, ReopenedFollows
<1>9. RollersOk(files', rollers')
  <2>1. /\ DOMAIN rollers' = DOMAIN rollers \cup {<<s, k>>} /\ rollers'[<<s, k>>] = now
        /\ \A q \in DOMAIN rollers : q # <<s, k>> => rollers'[q] = rollers[q]
    BY <1>2, <1>4
  <2> DEFINE F == files
             G == files'
             R == rollers
             Q == rollers'
  <2>2. /\ FilesOk(F, now) /\ RollersOk(F, R) /\ DOMAIN G = DOMAIN F \cup {<<s, k, now>>}
        /\ DOMAIN Q = DOMAIN R \cup {<<s, k>>} /\ Q[<<s, k>>] = now
        /\ \A q \in DOMAIN R : q # <<s, k>> => Q[q] = R[q]
    BY <1>1, <1>5, <2>1
  <2> HIDE DEF F, G, R, Q
  <2>3. RollersOk(G, Q)
    BY ONLY <1>1, <1>2, <1>3, <2>2, RollersOpened
  <2> QED
    BY <2>3 DEF G, Q
<1>10. NextBase
  BY <1>1, <1>4 DEF Base, NextBase, Active
<1>11. NextMeta
  <2> SUFFICES ASSUME pc = "meta"
               PROVE  /\ stores[at].scheme = "tar"
                      /\ PendingIn(files', lost', at, cacheKey(pkt), pkt)
                      /\ <<at, pkt>> \in lost' \/ WrittenIn(files', at, pkt, "store")
    BY <1>4 DEF NextMeta
  <2>1. /\ stores[at].scheme = "tar" /\ PendingIn(files, lost, at, cacheKey(pkt), pkt)
        /\ <<at, pkt>> \in lost \/ WrittenIn(files, at, pkt, "store")
    BY <1>1 DEF MetaDue
  <2>2. PendingIn(files', lost', at, cacheKey(pkt), pkt)
    <3> DEFINE c == cacheKey(pkt)
    <3>1. PendingIn(files, lost, at, c, pkt) /\ lost \subseteq lost'
      BY <1>4, <2>1
    <3> HIDE DEF c
    <3>2. PendingIn(files', lost', at, c, pkt)
      BY <1>1, <1>5, <3>1, ReopenedPending
    <3> QED
      BY <3>2 DEF c
  <2>3. <<at, pkt>> \in lost' \/ WrittenIn(files', at, pkt, "store")
    BY <1>4, <1>7, <2>1, GrownWritten
  <2> QED
    BY <2>1, <2>2, <2>3
<1>12. NextSettled
  <2>1. /\ failed' = failed /\ returned' = returned
        /\ pc' \in Active => pc \in Active /\ at' = at /\ pkt' = pkt /\ err' = err
    BY <1>4
  <2> QED
    BY <1>1, <1>7, <2>1, StaysSettled
<1>13. FilesOk(files', now')
  BY <1>4, <1>6
<1> QED
  BY <1>1, <1>4, <1>7, <1>8, <1>9, <1>10, <1>11, <1>12, <1>13, NextInv

\* Time passes.
LEMMA TickInv == ArchiveInv /\ Tick => ArchiveInv' /\ Grown(files, lost, files', lost')
<1> SUFFICES ASSUME ArchiveInv, Tick PROVE ArchiveInv' /\ Grown(files, lost, files', lost')
  OBVIOUS
<1>1. /\ Base /\ AllSettled /\ MetaDue /\ FilesOk(files, now) /\ RollersOk(files, rollers)
      /\ FollowsIn(files, lost) /\ options \in Configs /\ now \in Nat
  BY DEF ArchiveInv, Base
<1>2. /\ now' = now + 1
      /\ UNCHANGED <<options, pc, at, pkt, err, rollers, files, returned, failed, lost, sent,
                     rolls, faults>>
  BY DEF Tick
<1>3. Grown(files, lost, files', lost')
  BY <1>1, <1>2, GrownSame
<1>4. FilesOk(files', now')
  BY <1>1, <1>2, FilesLater
<1>5. NextBase
  BY <1>1, <1>2 DEF Base, NextBase, Active
<1>6. NextMeta
  BY <1>1, <1>2 DEF MetaDue, NextMeta
<1>7. NextSettled
  BY <1>1, <1>2 DEF AllSettled, NextSettled
<1>8. RollersOk(files', rollers') /\ FollowsIn(files', lost')
  BY <1>1, <1>2
<1> QED
  BY <1>1, <1>2, <1>3, <1>4, <1>5, <1>6, <1>7, <1>8, NextInv

\* A packet with the id of this call.
LEMMA PacketTyped ==
    ASSUME NEW p \in Packet, OfChannel(p), NEW n \in Nat
    PROVE  /\ [p EXCEPT !.id = n] \in Packet /\ [p EXCEPT !.id = n].id = n
           /\ OfChannel([p EXCEPT !.id = n])
<1> DEFINE q == [p EXCEPT !.id = n]
<1>1. q \in Packet /\ q.id = n /\ q.channel = p.channel /\ q.kind = p.kind
  BY DEF Packet
<1> HIDE DEF q
<1>2. OfChannel(q)
  BY <1>1 DEF OfChannel
<1> QED
  BY <1>1, <1>2 DEF q

\* A packet is handed to Multistore.Store.
LEMMA StoreInv ==
    ASSUME ArchiveInv, NEW p \in Packets, Store(p)
    PROVE  ArchiveInv' /\ Grown(files, lost, files', lost')
<1>1. /\ Base /\ AllSettled /\ FilesOk(files, now) /\ RollersOk(files, rollers)
      /\ FollowsIn(files, lost) /\ options \in Configs /\ now \in Nat /\ sent \in Nat
  BY DEF ArchiveInv, Base
<1>2. /\ pc = "idle" /\ sent' = sent + 1 /\ pkt' = [p EXCEPT !.id = sent + 1]
      /\ UNCHANGED <<options, at, err, now, rollers, files, failed, lost, rolls, faults>>
      /\ \/ stores = <<>> /\ returned' = returned \cup {<<pkt', FALSE>>} /\ pc' = pc
         \/ stores # <<>> /\ pc' = "store" /\ returned' = returned
  BY DEF Store
<1>3. pkt' \in Packet /\ OfChannel(pkt') /\ pkt'.id = sent' /\ sent' \in Nat
  <2>1. p \in Packet /\ OfChannel(p)
    BY ArchiveAssumption
  <2> QED
    BY <1>1, <1>2, <2>1, PacketTyped
<1>4. at = 1 /\ \A s \in DOMAIN stores : stores[s].scheme \in {"tar", "hrdp", "file"}
  BY <1>1, <1>2 DEF Base, Active
<1>5. DOMAIN stores = 1 .. Len(stores) /\ Len(stores) \in Nat /\ (stores # <<>> => 1 \in DOMAIN stores)
  <2>1. stores \in Seq(Storage)
    BY <1>1, StoresTyped
  <2> QED
    BY <2>1
<1>6. Grown(files, lost, files', lost')
  BY <1>1, <1>2, GrownSame
<1>7. NextBase
  <2>1. pc' \in {"idle", "store"} /\ at' = 1 /\ now' = now /\ err' = err
    BY <1>2, <1>4
  <2>2. pc' \in Active => at' \in DOMAIN stores
    BY <1>2, <1>4, <1>5 DEF Active
  <2>3. err \in BOOLEAN
    BY <1>1 DEF Base
  <2> QED
    BY <1>1, <1>3, <1>4, <2>1, <2>2, <2>3 DEF NextBase, Active
<1>8. NextMeta
  BY <1>2 DEF NextMeta
<1>9. NextSettled
  <2>0. \A r \in returned' : r[1] \in Packet
    <3>1. \A r \in returned : r[1] \in Packet
      BY <1>1 DEF AllSettled
    <3>2. <<pkt', FALSE>>[1] = pkt'
      OBVIOUS
    <3> QED
      BY <1>2, <1>3, <3>1, <3>2
  <2>1. \A s \in DOMAIN stores : ~(s < at')
    BY <1>2, <1>4, <1>5
  <2>2. CASE stores = <<>>
    <3>1. DOMAIN stores = {}
      BY <2>2
    <3> QED
      BY <2>0, <3>1 DEF NextSettled
  <2>3. CASE stores # <<>>
    <3>1. returned' = returned /\ files' = files /\ lost' = lost /\ failed' = failed
      BY <1>2, <2>3
    <3> QED
      BY <1>1, <2>0, <2>1, <3>1 DEF AllSettled, NextSettled
  <2> QED
    BY <2>2, <2>3
<1>10. RollersOk(files', rollers') /\ FollowsIn(files', lost') /\ FilesOk(files', now')
  BY <1>1, <1>2
<1> QED
  BY <1>1, <1>2, <1>6, <1>7, <1>8, <1>9, <1>10, NextInv

\* The call of a storage ends without a change of the files.
LEMMA EndsSame ==
    ASSUME ArchiveInv, pc \in Active, NEW e \in BOOLEAN, NextStore(e),
           UNCHANGED <<options, pkt, now, rollers, files, lost, sent>>,
           \/ e = TRUE
           \/ stores[at].scheme = "file"
           \/ stores[at].scheme = "tar" /\ ~Can(stores[at].control, pkt)
    PROVE  ArchiveInv' /\ Grown(files, lost, files', lost')
<1>1. FilesOk(files, now) /\ RollersOk(files, rollers) /\ FollowsIn(files, lost) /\ err \in BOOLEAN
  BY DEF ArchiveInv, Base
<1>2. files' = files /\ lost' = lost /\ rollers' = rollers
  OBVIOUS
<1>3. Grown(files, lost, files', lost')
  BY <1>1, <1>2, GrownSame
<1> DEFINE b == err \/ e
<1>4. b \in BOOLEAN /\ (e = TRUE => b = TRUE) /\ b = (err \/ e)
  BY <1>1
<1> HIDE DEF b
<1>5. e = TRUE => <<at, pkt>> \in failed'
  BY DEF NextStore
<1>6. Settled(files', lost', failed', at, pkt, b)
  BY <1>4, <1>5 DEF Settled
<1>7. RollersOk(files', rollers') /\ FollowsIn(files', lost') /\ UNCHANGED <<options, pkt, now, sent>>
  BY <1>1, <1>2
<1> QED
  BY <1>3, <1>4, <1>6, <1>7, EndsSettled

\* A storage does not take the packet.
LEMMA SkipInv == ArchiveInv /\ Skip => ArchiveInv' /\ Grown(files, lost, files', lost')
<1> SUFFICES ASSUME ArchiveInv, Skip PROVE ArchiveInv' /\ Grown(files, lost, files', lost')
  OBVIOUS
<1>1. pc \in Active /\ UNCHANGED <<options, pkt, now, rollers, files, lost, sent>>
  BY DEF Skip, Active
<1>2. CASE stores[at].scheme = "tar" /\ ~Can(stores[at].control, pkt) /\ NextStore(FALSE)
  <2>1. FALSE \in BOOLEAN
    OBVIOUS
  <2> QED
    BY <1>1, <1>2, <2>1, EndsSame
<1>3. CASE NextStore(TRUE)
  <2>1. TRUE \in BOOLEAN
    OBVIOUS
  <2> QED
    BY <1>1, <1>3, <2>1, EndsSame
<1> QED
  BY <1>2, <1>3 DEF Skip

\* A storage of files returns.
LEMMA StoreFilesInv ==
    ArchiveInv /\ StoreFiles => ArchiveInv' /\ Grown(files, lost, files', lost')
<1> SUFFICES ASSUME ArchiveInv, StoreFiles PROVE ArchiveInv' /\ Grown(files, lost, files', lost')
  OBVIOUS
<1>1. /\ pc \in Active /\ stores[at].scheme = "file"
      /\ UNCHANGED <<options, pkt, now, rollers, files, lost, sent>>
  BY DEF StoreFiles, Active
<1>2. PICK e \in BOOLEAN : NextStore(e)
  BY DEF StoreFiles
<1> QED
  BY <1>1, <1>2, EndsSame

\* A storage cannot open its file.
LEMMA OpenFailsInv == ArchiveInv /\ OpenFails => ArchiveInv' /\ Grown(files, lost, files', lost')
<1> SUFFICES ASSUME ArchiveInv, OpenFails PROVE ArchiveInv' /\ Grown(files, lost, files', lost')
  OBVIOUS
<1>1. pc \in Active /\ NextStore(TRUE) /\ UNCHANGED <<options, pkt, now, rollers, files, lost, sent>>
  BY DEF OpenFails, Writing, Active
<1>2. TRUE \in BOOLEAN
  OBVIOUS
<1> QED
  BY <1>1, <1>2, EndsSame

\* The files with an item behind one of them.
LEMMA PutExtends ==
    ASSUME NEW G, NEW f \in DOMAIN G, NEW e
    PROVE  Extended(G, Put(G, f, Append(G[f], e)), f, e)
<1> DEFINE x == Append(G[f], e)
           H == Put(G, f, x)
<1> HIDE DEF x
<1>1. DOMAIN H = DOMAIN G /\ H[f] = x /\ \A g \in DOMAIN G : g # f => H[g] = G[g]
  BY DEF Put
<1> HIDE DEF H
<1>2. Extended(G, H, f, e)
  BY <1>1 DEF Extended, x
<1> QED
  BY <1>2 DEF H, x

\* A storage appends to its file, or only opens it.
LEMMA AppendInv ==
    ASSUME ArchiveInv, pc \in Active, ReadyOk(lost'), lost \subseteq lost',
           \/ files' = Ready
           \/ \E e : RecordOk(e) /\ Extended(Ready, files', Target, e)
    PROVE  /\ Grown(files, lost, files', lost')
           /\ FollowsIn(files', lost')
           /\ RollersOk(files', Put(rollers, Key, OpenName))
<1>1. /\ Base /\ MetaDue /\ FilesOk(files, now) /\ FollowsIn(files, lost) /\ now \in Nat
      /\ FilesOk(Ready, now)
  BY DEF ArchiveInv, Base, ReadyOk
<1> DEFINE f == Target
           G == Ready
           Q == Put(rollers, Key, OpenName)
<1>2. f[1] = at /\ f[2] = Key[2] /\ f[3] = OpenName /\ (stores[at].scheme = "tar" => Key[2] = cacheKey(pkt))
  BY DEF ReadyOk
<1>3. Reopened(files, G, lost') /\ RollersOk(G, Q) /\ Newest(G, f[1], f[2], f[3])
  BY <1>2 DEF ReadyOk
<1> HIDE DEF f, G, Q
<1>4. FollowsIn(G, lost')
  BY <1>1, <1>3, ReopenedFollows
<1>5. CASE files' = G
  BY <1>1, <1>3, <1>4, <1>5 DEF Grown, G, Q
<1>6. CASE \E e : RecordOk(e) /\ Extended(G, files', f, e)
  <2>1. PICK e : RecordOk(e) /\ Extended(G, files', f, e)
    BY <1>6
  <2>2. e \in Item(stores[f[1]]) /\ e.pkt = pkt /\ (stores[at].scheme = "tar" => e.part = pc)
    BY <1>2, <2>1 DEF RecordOk
  <2>3. Grown(files, lost, files', lost')
    <3>1. Appended(G, files')
      BY <1>2, <1>3, <2>1, <2>2 DEF Appended
    <3> QED
      BY <1>1, <1>3, <3>1 DEF Grown, G
  <2>4. DOMAIN files' = DOMAIN G
    BY <2>1 DEF Extended
  <2>5. RollersOk(files', Q)
    BY <1>3, <2>4 DEF RollersOk, Newest
  <2>6. stores[f[1]].scheme = "tar" /\ e.part = "meta" => PendingIn(G, lost', f[1], f[2], e.pkt)
    <3> SUFFICES ASSUME stores[f[1]].scheme = "tar", e.part = "meta"
                 PROVE  PendingIn(G, lost', f[1], f[2], e.pkt)
      OBVIOUS
    <3> DEFINE k == cacheKey(pkt)
    <3>1. PendingIn(files, lost, at, k, pkt) /\ f[2] = k
      BY <1>1, <1>2, <2>2 DEF MetaDue
    <3> HIDE DEF k
    <3>2. PendingIn(G, lost', at, k, pkt)
      BY <1>1, <1>3, <3>1, ReopenedPending
    <3> QED
      BY <1>2, <2>2, <3>1, <3>2
  <2>7. FilesOk(G, now)
    BY <1>1 DEF G
  <2>8. FollowsIn(files', lost')
    BY <1>3, <1>4, <2>1, <2>2, <2>6, <2>7, ExtendedFollows
  <2> QED
    BY <2>3, <2>5, <2>8 DEF Q
<1> QED
  BY <1>5, <1>6 DEF f, G

\* A storage writes.
LEMMA WriteInv == ArchiveInv /\ Write => ArchiveInv' /\ Grown(files, lost, files', lost')
<1> SUFFICES ASSUME ArchiveInv, Write PROVE ArchiveInv' /\ Grown(files, lost, files', lost')
  OBVIOUS
<1>1. /\ Base /\ AllSettled /\ MetaDue /\ FilesOk(files, now) /\ RollersOk(files, rollers)
      /\ options \in Configs /\ now \in Nat /\ sent \in Nat /\ err \in BOOLEAN
  BY DEF ArchiveInv, Base
<1>2. /\ Writing /\ pc \in Active
      /\ UNCHANGED <<options, pkt, now, sent>>
      /\ rollers' = Put(rollers, Key, OpenName)
      /\ lost' = lost \cup (IF Key \in DOMAIN rollers THEN {} ELSE Replaced(Key[1], Key[2]))
  BY DEF Write, Writing, OpenRoller, Active
<1>3. lost \subseteq lost' /\ (Key \notin DOMAIN rollers => Replaced(Key[1], Key[2]) \subseteq lost')
  BY <1>2
<1>4. ReadyOk(lost')
  BY <1>1, <1>2, <1>3, StoreReady
<1>5. pkt \in Packet /\ OfChannel(pkt) /\ at \in DOMAIN stores /\ pkt.id = sent
  BY <1>1, <1>2 DEF Base
<1>6. CASE Broken(Ready[Target])
  <2>1. files' = Ready /\ NextStore(TRUE)
    BY <1>6 DEF Write
  <2>2. /\ Grown(files, lost, files', lost') /\ FollowsIn(files', lost') /\ RollersOk(files', rollers')
    BY <1>2, <1>3, <1>4, <2>1, AppendInv
  <2>3. TRUE \in BOOLEAN /\ TRUE = (err \/ TRUE) /\ <<at, pkt>> \in failed'
    BY <2>1 DEF NextStore
  <2>4. Settled(files', lost', failed', at, pkt, TRUE)
    BY <2>3 DEF Settled
  <2> QED
    BY <1>2, <2>1, <2>2, <2>3, <2>4, EndsSettled
<1>7. CASE ~Broken(Ready[Target])
  <2>1. files' = Put(Ready, Target, Append(Ready[Target], Record))
    BY <1>7 DEF Write
  <2>2. RecordOk(Record) /\ ~Record.cut
    BY <1>2, <1>5, RecordWritten
  <2> DEFINE e == Record
             f == Target
             G == Ready
  <2>3. Extended(G, files', f, e)
    <3>1. f \in DOMAIN G
      BY <1>4 DEF ReadyOk, Newest
    <3> HIDE DEF e, f, G
    <3>2. files' = Put(G, f, Append(G[f], e))
      BY <2>1 DEF e, f, G
    <3> QED
      BY <3>1, <3>2, PutExtends
  <2>4. /\ Grown(files, lost, files', lost') /\ FollowsIn(files', lost') /\ RollersOk(files', rollers')
    BY <1>2, <1>3, <1>4, <2>2, <2>3, AppendInv
  <2>5. /\ FilesOk(G, now) /\ f[1] = at /\ (stores[at].scheme = "tar" => f[2] = cacheKey(pkt))
        /\ e \in Item(stores[at]) /\ e.pkt = pkt /\ (stores[at].scheme = "tar" => e.part = pc)
    BY <1>4, <2>2 DEF ReadyOk, RecordOk
  <2> HIDE DEF e, f, G
  <2>6. \A a : (stores[at].scheme = "tar" => a = pc) => WrittenIn(files', at, pkt, a)
    <3>1. e \in Item(stores[f[1]]) /\ ~e.cut
      BY <2>2, <2>5 DEF e
    <3>2. \A a : ~e.cut /\ (stores[f[1]].scheme = "tar" => e.part = a)
                    => WrittenIn(files', f[1], e.pkt, a)
      BY <2>3, <2>5, <3>1, ExtendedWritten
    <3> QED
      BY <2>5, <3>1, <3>2
  <2>7. CASE stores[at].scheme = "tar" /\ pkt.kind = "image" /\ pc = "store"
    <3>1. pc' = "meta" /\ UNCHANGED <<at, err, returned, failed>>
      BY <1>7, <2>7 DEF Write
    <3>2. PendingIn(files', lost', f[1], f[2], e.pkt)
      <4>1. e \in Item(stores[f[1]])
        BY <2>5
      <4> QED
        BY <2>3, <2>5, <4>1, ExtendedPending
    <3>3. PendingIn(files', lost', at, cacheKey(pkt), pkt)
      BY <2>5, <2>7, <3>2
    <3>4. WrittenIn(files', at, pkt, "store")
      BY <2>6, <2>7
    <3>5. at' = at /\ pkt' = pkt /\ err' = err /\ now' = now /\ sent' = sent
      BY <1>2, <3>1
    <3>6. NextMeta
      BY <2>7, <3>3, <3>4, <3>5 DEF NextMeta
    <3>7. NextBase
      <4>1. \A s \in DOMAIN stores : stores[s].scheme \in {"tar", "hrdp", "file"}
        BY <1>1, <1>2 DEF Base
      <4> QED
        BY <1>1, <1>5, <3>1, <3>5, <4>1 DEF NextBase, Active
    <3>8. NextSettled
      BY <1>1, <1>2, <2>4, <3>1, <3>5, StaysSettled
    <3>9. FilesOk(files', now')
      BY <2>4, <3>5, GrownOk
    <3> QED
      BY <1>1, <1>2, <2>4, <3>6, <3>7, <3>8, <3>9, NextInv
  <2>8. CASE ~(stores[at].scheme = "tar" /\ pkt.kind = "image" /\ pc = "store")
    <3>1. NextStore(FALSE)
      BY <1>7, <2>8 DEF Write
    <3>2. FALSE \in BOOLEAN /\ err = (err \/ FALSE)
      BY <1>1
    <3>3. CASE <<at, pkt>> \in lost'
      <4>1. Settled(files', lost', failed', at, pkt, err)
        BY <3>3 DEF Settled
      <4> QED
        BY <1>1, <1>2, <2>4, <3>1, <3>2, <4>1, EndsSettled
    <3>4. CASE <<at, pkt>> \notin lost'
      <4>1. pc = "meta" => WrittenIn(files', at, pkt, "store")
        <5>1. pc = "meta" => WrittenIn(files, at, pkt, "store")
          BY <1>1, <1>3, <3>4 DEF MetaDue
        <5> QED
          BY <2>4, <3>4, <5>1, GrownWritten
      <4>2. pc = "store" \/ pc = "meta"
        BY <1>2 DEF Active
      <4>3. ASSUME NEW a \in Parts(at, pkt) PROVE WrittenIn(files', at, pkt, a)
        <5>1. a = "store" \/ (a = "meta" /\ stores[at].scheme = "tar" /\ pkt.kind = "image")
          BY DEF Parts, Part
        <5> QED
          BY <2>6, <2>8, <4>1, <4>2, <5>1
      <4>4. Settled(files', lost', failed', at, pkt, err)
        BY <4>3 DEF Settled
      <4> QED
        BY <1>1, <1>2, <2>4, <3>1, <3>2, <4>4, EndsSettled
    <3> QED
      BY <3>3, <3>4
  <2> QED
    BY <2>7, <2>8
<1> QED
  BY <1>6, <1>7

\* A write that stops leaves the file as it was, or with a piece at its end.
LEMMA StoppedExtends ==
    ASSUME Writing, pkt \in Packet, OfChannel(pkt), Target \in DOMAIN Ready, NEW c \in Cuts(Record)
    PROVE  \/ Stopped(c) = Ready
           \/ \E e : RecordOk(e) /\ Extended(Ready, Stopped(c), Target, e)
<1>1. CASE c = 0
  BY <1>1 DEF Stopped
<1>2. CASE c # 0
  <2> DEFINE e == [Record EXCEPT !.bytes = c, !.cut = TRUE]
             f == Target
             G == Ready
  <2>1. RecordOk(e)
    BY <1>2, RecordWritten
  <2>2. Stopped(c) = Put(G, f, Append(G[f], e))
    BY <1>2 DEF Stopped
  <2> HIDE DEF e, f, G
  <2>3. Extended(G, Put(G, f, Append(G[f], e)), f, e)
    BY PutExtends DEF f, G
  <2> QED
    BY <2>1, <2>2, <2>3 DEF f, G
<1> QED
  BY <1>1, <1>2

\* A write fails, with a part of the item in the file or without.
LEMMA WriteFailsInv == ArchiveInv /\ WriteFails => ArchiveInv' /\ Grown(files, lost, files', lost')
<1> SUFFICES ASSUME ArchiveInv, WriteFails PROVE ArchiveInv' /\ Grown(files, lost, files', lost')
  OBVIOUS
<1>1. /\ Base /\ FilesOk(files, now) /\ RollersOk(files, rollers) /\ err \in BOOLEAN
  BY DEF ArchiveInv, Base
<1> DEFINE e == Reported
<1>2. /\ Writing /\ pc \in Active
      /\ UNCHANGED <<options, pkt, now, sent>>
      /\ rollers' = Put(rollers, Key, OpenName)
      /\ lost' = lost \cup (IF Key \in DOMAIN rollers THEN {} ELSE Replaced(Key[1], Key[2]))
                      \cup (IF e THEN {} ELSE {<<at, pkt>>})
      /\ NextStore(e)
  BY DEF WriteFails, Writing, Active
<1>3. e \in BOOLEAN
  BY DEF Reported
<1> HIDE DEF e
<1>4. /\ lost \subseteq lost' /\ (Key \notin DOMAIN rollers => Replaced(Key[1], Key[2]) \subseteq lost')
      /\ ~e => <<at, pkt>> \in lost'
  BY <1>2
<1>5. ReadyOk(lost')
  BY <1>1, <1>2, <1>4, StoreReady
<1>6. pkt \in Packet /\ OfChannel(pkt) /\ Target \in DOMAIN Ready
  BY <1>1, <1>2, <1>5 DEF Base, ReadyOk, Newest
<1>7. \/ files' = Ready
      \/ \E r : RecordOk(r) /\ Extended(Ready, files', Target, r)
  <2>1. PICK c \in Cuts(Record) : files' = IF Broken(Ready[Target]) THEN Ready ELSE Stopped(c)
    BY DEF WriteFails
  <2>2. files' = Ready \/ files' = Stopped(c)
    BY <2>1
  <2>3. \/ Stopped(c) = Ready
        \/ \E r : RecordOk(r) /\ Extended(Ready, Stopped(c), Target, r)
    BY <1>2, <1>6, StoppedExtends
  <2> QED
    BY <2>2, <2>3
<1>8. /\ Grown(files, lost, files', lost') /\ FollowsIn(files', lost') /\ RollersOk(files', rollers')
  BY <1>2, <1>4, <1>5, <1>7, AppendInv
<1> DEFINE b == err \/ e
<1>9. b \in BOOLEAN /\ (e => b = TRUE) /\ b = (err \/ e)
  BY <1>1, <1>3
<1> HIDE DEF b
<1>10. e => <<at, pkt>> \in failed'
  BY <1>2 DEF NextStore
<1>11. Settled(files', lost', failed', at, pkt, b)
  BY <1>4, <1>9, <1>10 DEF Settled
<1> QED
  BY <1>2, <1>3, <1>8, <1>9, <1>11, EndsSettled

\* The program dies, with a part of the item in the file or without.
LEMMA CrashInv == ArchiveInv /\ Crash => ArchiveInv' /\ Grown(files, lost, files', lost')
<1> SUFFICES ASSUME ArchiveInv, Crash PROVE ArchiveInv' /\ Grown(files, lost, files', lost')
  OBVIOUS
<1>1. /\ Base /\ AllSettled /\ FilesOk(files, now) /\ RollersOk(files, rollers)
      /\ FollowsIn(files, lost) /\ options \in Configs /\ now \in Nat /\ sent \in Nat
  BY DEF ArchiveInv, Base
<1>2. /\ pc' = "down" /\ at' = 1 /\ err' = FALSE /\ rollers' = <<>>
      /\ UNCHANGED <<options, pkt, now, returned, failed, lost, sent, rolls>>
  BY DEF Crash
<1>3. Grown(files, lost, files', lost') /\ FollowsIn(files', lost')
  <2>1. CASE files' = files
    BY <1>1, <1>2, <2>1, GrownSame
  <2>2. CASE files' # files
    <3>1. Writing /\ Key \in DOMAIN rollers /\ \E c \in Cuts(Record) : files' = Stopped(c)
      BY <2>2 DEF Crash
    <3>2. pc \in Active
      BY <3>1 DEF Writing, Active
    <3>3. ReadyOk(lost')
      BY <1>1, <3>1, <3>2, StoreReady
    <3>4. pkt \in Packet /\ OfChannel(pkt) /\ Target \in DOMAIN Ready
      BY <1>1, <3>2, <3>3 DEF Base, ReadyOk, Newest
    <3>5. PICK c \in Cuts(Record) : files' = Stopped(c)
      BY <3>1
    <3>6. \/ files' = Ready
          \/ \E r : RecordOk(r) /\ Extended(Ready, files', Target, r)
      BY <3>1, <3>4, <3>5, StoppedExtends
    <3>7. lost \subseteq lost'
      BY <1>2
    <3> QED
      BY <3>2, <3>3, <3>6, <3>7, AppendInv
  <2> QED
    BY <2>1, <2>2
<1>4. RollersOk(files', rollers')
  <2>1. DOMAIN rollers' = {}
    BY <1>2
  <2> QED
    BY <2>1 DEF RollersOk
<1>5. NextBase
  BY <1>1, <1>2 DEF NextBase, Active
<1>6. NextMeta /\ pc' \notin Active
  BY <1>2 DEF NextMeta, Active
<1>7. NextSettled
  BY <1>1, <1>2, <1>3, <1>6, StaysSettled
<1>8. FilesOk(files', now')
  BY <1>2, <1>3, GrownOk
<1> QED
  BY <1>1, <1>2, <1>3, <1>4, <1>5, <1>6, <1>7, <1>8, NextInv

\* Nothing of the storages changes.
LEMMA SameInv ==
    ASSUME ArchiveInv,
           UNCHANGED <<options, pc, at, pkt, err, now, rollers, files, returned, failed, lost,
                       sent, rolls>>
    PROVE  ArchiveInv' /\ Grown(files, lost, files', lost')
<1>1. /\ Base /\ AllSettled /\ MetaDue /\ FilesOk(files, now) /\ RollersOk(files, rollers)
      /\ FollowsIn(files, lost) /\ options \in Configs
  BY DEF ArchiveInv, Base
<1>2. Grown(files, lost, files', lost')
  BY <1>1, GrownSame
<1>3. NextBase
  BY <1>1 DEF Base, NextBase, Active
<1>4. NextMeta
  BY <1>1 DEF MetaDue, NextMeta
<1>5. NextSettled
  BY <1>1 DEF AllSettled, NextSettled
<1>6. RollersOk(files', rollers') /\ FollowsIn(files', lost') /\ FilesOk(files', now')
  BY <1>1
<1> QED
  BY <1>1, <1>2, <1>3, <1>4, <1>5, <1>6, NextInv

\* A step of the storages, and a step of replay, which changes none of them.
LEMMA ArchiveStep == ArchiveInv /\ [Next]_vars => ArchiveInv' /\ Grown(files, lost, files', lost')
<1> SUFFICES ASSUME ArchiveInv, [Next]_vars PROVE ArchiveInv' /\ Grown(files, lost, files', lost')
  OBVIOUS
<1>1. CASE ArchiveNext
  <2>1. CASE Setup
    BY <2>1, SetupInv
  <2>2. CASE \E r \in DOMAIN rollers : Roll(r)
    BY <2>2, RollInv
  <2>3. CASE Tick
    BY <2>3, TickInv
  <2>4. CASE \E p \in Packets : Store(p)
    BY <2>4, StoreInv
  <2>5. CASE Skip
    BY <2>5, SkipInv
  <2>6. CASE Write
    BY <2>6, WriteInv
  <2>7. CASE WriteFails
    BY <2>7, WriteFailsInv
  <2>8. CASE OpenFails
    BY <2>8, OpenFailsInv
  <2>9. CASE Crash
    BY <2>9, CrashInv
  <2>10. CASE Waiting
    BY <2>10, SameInv DEF Waiting, archiveVars
  <2>11. CASE StoreFiles
    BY <2>11, StoreFilesInv
  <2> QED
    BY <1>1, <2>1, <2>2, <2>3, <2>4, <2>5, <2>6, <2>7, <2>8, <2>9, <2>10, <2>11 DEF ArchiveNext
<1>2. CASE ReplayNext \/ UNCHANGED vars
  <2>1. UNCHANGED <<options, pc, at, pkt, err, now, rollers, files, returned, failed, lost,
                    sent, rolls>>
    BY <1>2 DEF ReplayNext, Connect, ReadFile, WalkFails, Send, SendFails, ReplayEnds, vars,
                archiveVars
  <2> QED
    BY <2>1, SameInv
<1> QED
  BY <1>1, <1>2 DEF Next

\* The inductive invariant of the storages.
THEOREM StorageInvariant == Spec => []ArchiveInv
<1>1. Init => ArchiveInv
  BY InitInv DEF Init
<1>2. ArchiveInv /\ [Next]_vars => ArchiveInv'
  BY ArchiveStep
<1> QED
  BY <1>1, <1>2, PTL DEF Spec

\* Every error of a storage comes back from the call it was in: the packets
\* are numbered, so no other call is about the same one.
Told ==
    /\ \A x \in failed : x[2].id \in 0 .. sent
    /\ \A r \in returned : r[1].id \in 0 .. sent /\ (pc \in Active => r[1].id # sent)
    /\ \A x \in failed : \A r \in returned : x[2] = r[1] => r[2] = TRUE
    /\ pc \in Active => \A x \in failed : x[2] = pkt => err = TRUE

\* A storage returns.
LEMMA NextStoreTold ==
    ASSUME ArchiveInv, Told, pc \in Active, NEW e \in BOOLEAN, NextStore(e),
           UNCHANGED <<pkt, sent>>
    PROVE  Told'
<1> DEFINE n == Len(stores)
           b == err \/ e
<1>1. pkt.id = sent /\ sent \in Nat /\ err \in BOOLEAN
  BY DEF ArchiveInv, Base
<1>2. b \in BOOLEAN /\ (err = TRUE => b = TRUE) /\ (e = TRUE => b = TRUE)
  BY <1>1
<1>3. \/ at < n /\ pc' = "store" /\ returned' = returned /\ err' = b
      \/ ~(at < n) /\ pc' = "idle" /\ returned' = returned \cup {<<pkt, b>>}
  BY <1>1 DEF NextStore
<1>4. failed' = failed \/ (e = TRUE /\ failed' = failed \cup {<<at, pkt>>})
  BY DEF NextStore
<1> HIDE DEF n, b
<1>5. <<at, pkt>>[2] = pkt /\ <<pkt, b>>[1] = pkt /\ <<pkt, b>>[2] = b
  OBVIOUS
<1>6. \A x \in failed' : x[2].id \in 0 .. sent /\ (x[2] = pkt => b = TRUE)
  BY <1>1, <1>2, <1>4, <1>5 DEF Told
<1>7. \A r \in returned : r[1].id \in 0 .. sent /\ r[1] # pkt /\ r[1].id # sent
  BY <1>1 DEF Told
<1>8. \A x \in failed' : \A r \in returned : x[2] = r[1] => r[2] = TRUE
  BY <1>4, <1>5, <1>7 DEF Told
<1>9. CASE at < n
  <2>1. pc' \in Active /\ returned' = returned /\ err' = b
    BY <1>3, <1>9 DEF Active
  <2> QED
    BY <1>6, <1>7, <1>8, <2>1 DEF Told, Active
<1>10. CASE ~(at < n)
  <2>1. pc' \notin Active /\ returned' = returned \cup {<<pkt, b>>}
    BY <1>3, <1>10 DEF Active
  <2>2. \A r \in returned' : r[1].id \in 0 .. sent
    BY <1>1, <1>5, <1>7, <2>1
  <2>3. \A x \in failed' : \A r \in returned' : x[2] = r[1] => r[2] = TRUE
    BY <1>5, <1>6, <1>8, <2>1
  <2> QED
    BY <1>6, <2>1, <2>2, <2>3 DEF Told, Active
<1> QED
  BY <1>9, <1>10

\* A packet with a number of its own is handed to Multistore.Store.
LEMMA StoreTold ==
    ASSUME ArchiveInv, Told, NEW p \in Packets, Store(p)
    PROVE  Told'
<1>1. sent \in Nat
  BY DEF ArchiveInv, Base
<1>2. /\ pc = "idle" /\ sent' = sent + 1 /\ pkt' = [p EXCEPT !.id = sent + 1] /\ failed' = failed
      /\ \/ returned' = returned \cup {<<pkt', FALSE>>} /\ pc' = pc
         \/ returned' = returned
  BY DEF Store
<1>3. pkt'.id = sent'
  <2>1. p \in Packet /\ OfChannel(p)
    BY ArchiveAssumption
  <2> QED
    BY <1>1, <1>2, <2>1, PacketTyped
<1>4. <<pkt', FALSE>>[1] = pkt'
  OBVIOUS
<1>5. \A x \in failed' : x[2].id \in 0 .. sent' /\ x[2] # pkt'
  <2>1. sent' = sent + 1 /\ failed' = failed
    BY <1>2
  <2> QED
    BY ONLY Told, <1>1, <1>3, <2>1 DEF Told
<1>6. \A r \in returned : r[1].id \in 0 .. sent' /\ r[1].id # sent'
  BY <1>1, <1>2 DEF Told
<1>7. pc \notin Active
  BY <1>2 DEF Active
<1>8. \A r \in returned' : r[1].id \in 0 .. sent' /\ (pc' \in Active => r[1].id # sent')
  <2>1. sent' \in 0 .. sent'
    BY <1>1, <1>2
  <2>2. CASE returned' = returned \cup {<<pkt', FALSE>>} /\ pc' = pc
    BY ONLY <1>3, <1>4, <1>6, <1>7, <2>1, <2>2
  <2>3. CASE returned' = returned
    BY <1>6, <2>3
  <2> QED
    BY <1>2, <2>2, <2>3
<1>9. \A x \in failed' : \A r \in returned' : x[2] = r[1] => r[2] = TRUE
  BY <1>2, <1>4, <1>5 DEF Told
<1> QED
  BY <1>5, <1>8, <1>9 DEF Told, Active

\* Nothing fails and nothing returns.
LEMMA SameTold ==
    ASSUME Told, UNCHANGED <<returned, failed, sent>>,
           pc' \in Active => pc \in Active /\ pkt' = pkt /\ err' = err
    PROVE  Told'
BY DEF Told, Active

\* Every step keeps the errors told.
LEMMA StepTold == ArchiveInv /\ Told /\ [Next]_vars => Told'
<1> SUFFICES ASSUME ArchiveInv, Told, [Next]_vars PROVE Told'
  OBVIOUS
<1>1. CASE Setup \/ (\E r \in DOMAIN rollers : Roll(r)) \/ Tick \/ Crash \/ Waiting
  <2>1. UNCHANGED <<returned, failed, sent>>
    BY <1>1 DEF Setup, Roll, Tick, Crash, Waiting, archiveVars
  <2>2. pc' \in Active => pc \in Active /\ pkt' = pkt /\ err' = err
    BY <1>1 DEF Setup, Roll, Tick, Crash, Waiting, archiveVars, Active
  <2> QED
    BY <2>1, <2>2, SameTold
<1>2. CASE \E p \in Packets : Store(p)
  BY <1>2, StoreTold
<1>3. CASE Skip \/ StoreFiles \/ WriteFails \/ OpenFails
  <2>1. pc \in Active /\ UNCHANGED <<pkt, sent>>
    BY <1>3 DEF Skip, StoreFiles, WriteFails, OpenFails, Writing, Active
  <2>2. Reported \in BOOLEAN
    BY DEF Reported
  <2>3. \E e \in BOOLEAN : NextStore(e)
    BY <1>3, <2>2 DEF Skip, StoreFiles, WriteFails, OpenFails
  <2> QED
    BY <2>1, <2>3, NextStoreTold
<1>4. CASE Write
  <2>1. pc \in Active /\ UNCHANGED <<pkt, sent>>
    BY <1>4 DEF Write, Writing, Active
  <2>2. CASE \E e \in BOOLEAN : NextStore(e)
    BY <2>1, <2>2, NextStoreTold
  <2>3. CASE UNCHANGED <<at, err, returned, failed>>
    BY <2>1, <2>3, SameTold
  <2> QED
    BY <1>4, <2>2, <2>3 DEF Write
<1>5. CASE ReplayNext \/ UNCHANGED vars
  <2>1. UNCHANGED <<pc, pkt, err, returned, failed, sent>>
    BY <1>5 DEF ReplayNext, Connect, ReadFile, WalkFails, Send, SendFails, ReplayEnds, vars,
                archiveVars
  <2> QED
    BY <2>1, SameTold
<1> QED
  BY <1>1, <1>2, <1>3, <1>4, <1>5 DEF Next, ArchiveNext

\* The errors are told.
LEMMA ErrorsTold == Spec => []Told
<1>1. Init => Told
  BY DEF Init, ArchiveInit, Told, Active
<1>2. ArchiveInv /\ Told /\ [Next]_vars => Told'
  BY StepTold
<1> QED
  BY <1>1, <1>2, StorageInvariant, PTL DEF Spec

\* What the invariants say of the calls of Multistore.Store and of the archives.
LEMMA InvStored == ArchiveInv /\ Told => StoredAsWanted
<1> SUFFICES ASSUME ArchiveInv, Told PROVE StoredAsWanted
  OBVIOUS
<1>1. /\ Base /\ AllSettled /\ FilesOk(files, now) /\ FollowsIn(files, lost)
      /\ options \in Configs
  BY DEF ArchiveInv, Base
<1>2. stores \in Seq(Storage) /\ \A s \in DOMAIN stores : stores[s] \in Storage
  <2>1. stores \in Seq(Storage)
    BY <1>1, StoresTyped
  <2> QED
    BY <2>1
<1>3. ASSUME NEW s \in DOMAIN stores, NEW p \in Packet, \A vs \in Lists(s) : Sorted(vs)
      PROVE  Can(stores[s].control, p) <=> Wanted(stores[s].control, p)
  <2> DEFINE o == stores[s]
  <2>1. o \in Storage /\ Sorted(o.control.accept) /\ Sorted(o.control.reject)
    BY <1>2, <1>3 DEF Lists
  <2> HIDE DEF o
  <2>2. Can(o.control, p) <=> Wanted(o.control, p)
    BY <2>1, CanWanted
  <2> QED
    BY <2>2 DEF o
<1>4. ReturnedStored
  <2> SUFFICES ASSUME NEW r \in returned, NEW s \in DOMAIN stores
               PROVE  \/ <<s, r[1]>> \in failed \cup lost
                      \/ stores[s].scheme = "file"
                      \/ stores[s].scheme = "tar" /\ ~Wanted(stores[s].control, r[1])
                      \/ stores[s].scheme = "tar" /\ \E vs \in Lists(s) : ~Sorted(vs)
                      \/ \A a \in Parts(s, r[1]) : Written(s, r[1], a)
    <3>1. ASSUME NEW r \in returned, NEW s \in DOMAIN stores, <<s, r[1]>> \in failed
          PROVE  r[2]
      <4>1. <<s, r[1]>>[2] = r[1]
        OBVIOUS
      <4> QED
        BY <3>1, <4>1 DEF Told
    <3> QED
      BY <3>1, Zenon DEF ReturnedStored
  <2>1. Settled(files, lost, failed, s, r[1], r[2]) /\ r[1] \in Packet
    BY <1>1 DEF AllSettled
  <2>2. CASE <<s, r[1]>> \in failed /\ r[2] = TRUE
    BY <2>2
  <2>3. CASE <<s, r[1]>> \in lost
    BY <2>3
  <2>4. CASE stores[s].scheme = "tar" /\ ~Can(stores[s].control, r[1])
    BY <1>3, <2>1, <2>4
  <2>5. CASE \A a \in Parts(s, r[1]) : WrittenIn(files, s, r[1], a)
    <3>1. \A a \in Parts(s, r[1]) : Written(s, r[1], a)
      BY <2>5 DEF WrittenIn, Written
    <3> QED
      BY <3>1
  <2>6. CASE stores[s].scheme = "file"
    BY <2>6
  <2> QED
    BY <2>1, <2>2, <2>3, <2>4, <2>5, <2>6 DEF Settled
<1>5. ArchivesFiltered
  <2> SUFFICES ASSUME NEW f \in DOMAIN files, NEW n \in DOMAIN files[f],
                      stores[f[1]].scheme = "tar", \A vs \in Lists(f[1]) : Sorted(vs)
               PROVE  Wanted(stores[f[1]].control, files[f][n].pkt)
    BY DEF ArchivesFiltered
  <2> DEFINE x == files[f]
             T == Item(stores[f[1]])
  <2>1. f[1] \in DOMAIN stores /\ x \in Seq(T)
    BY <1>1 DEF FilesOk, FileOk
  <2>2. x[n] \in T
    <3> HIDE DEF T, x
    <3> QED
      BY <2>1 DEF x
  <2>3. x[n].pkt \in Packet /\ Can(stores[f[1]].control, x[n].pkt)
    BY <2>2 DEF Item, TarItem, Entries
  <2> QED
    BY <1>3, <2>1, <2>3
<1>6. MetadataFollows
  BY <1>1 DEF FollowsIn, MetadataFollows, Ends
<1> QED
  BY <1>4, <1>5, <1>6 DEF StoredAsWanted

\* Whatever rotates, fails or restarts, Multistore.Store returns an error when a
\* storage failed, every rolling storage that wants the packet and did not fail
\* has it whole, with the metadata of an image behind it, and the archives hold
\* nothing that their sorted lists keep out.
THEOREM StoresRight == Spec => []StoredAsWanted
BY StorageInvariant, ErrorsTold, InvStored, PTL

\* Neither a rotation nor a crash and a restart take anything out of a file
\* whose second has passed.
THEOREM FilesKept == Spec => FilesStay
<1>1. ArchiveInv /\ [Next]_vars =>
        [\A f \in DOMAIN files :
           f[3] < now => f \in DOMAIN files' /\ IsPrefix(files[f], files'[f])]_archiveVars
  <2> SUFFICES ASSUME ArchiveInv, [Next]_vars, NEW f \in DOMAIN files, f[3] < now
               PROVE  f \in DOMAIN files' /\ IsPrefix(files[f], files'[f])
    OBVIOUS
  <2>1. Grown(files, lost, files', lost') /\ FilesOk(files, now) /\ now \in Nat
    BY ArchiveStep DEF ArchiveInv, Base
  <2>2. f[3] # now
    BY <2>1 DEF FilesOk, FileOk
  <2>3. f \in DOMAIN files' /\ Longest(files[f], files'[f])
    BY <2>1, <2>2, GrownStays
  <2> QED
    BY <2>3 DEF Longest
<1> QED
  BY <1>1, StorageInvariant, PTL DEF Spec, FilesStay

-----------------------------------------------------------------------------
(* What the scanner reads. *)

\* The first n records of x are whole, and the next one is not.
WholeFirst(x, n) ==
    /\ n \in 0 .. Len(x)
    /\ \A i \in 1 .. n : ~x[i].cut
    /\ n < Len(x) => x[n + 1].cut

\* The scanner is in step with the records up to the first one cut short.
LEMMA InStepWhole ==
    ASSUME NEW format, NEW x \in Seq(HrdpItem(format))
    PROVE  WholeFirst(x, InStep(x) - 1)
<1> DEFINE z == [size |-> 0, bytes |-> 0]
           T == HrdpItem(format)
           l == Len(x)
           s == x \o <<z>>
           Out(r) == r.bytes # r.size + 4
           I == {i \in 1 .. Len(s) : Out(s[i])}
<1>1. /\ l \in Nat /\ Len(s) = l + 1 /\ s[l + 1] = z
      /\ \A i \in 1 .. l : s[i] = x[i] /\ x[i] \in T
  <2> DEFINE U == T \cup {z}
  <2>1. x \in Seq(T)
    OBVIOUS
  <2> HIDE DEF T, z
  <2>2. x \in Seq(U) /\ z \in U /\ \A i \in 1 .. l : x[i] \in T
    BY <2>1
  <2> HIDE DEF U
  <2>3. s = Append(x, z)
    BY <2>2, SingleLast
  <2>4. /\ Len(x) \in Nat /\ Len(Append(x, z)) = Len(x) + 1 /\ Append(x, z)[Len(x) + 1] = z
        /\ \A i \in 1 .. Len(x) : Append(x, z)[i] = x[i]
    BY ONLY <2>2
  <2> QED
    BY <2>2, <2>3, <2>4
<1>2. Out(z)
  OBVIOUS
<1>3. \A r \in T : Out(r) <=> r.cut
  BY DEF HrdpItem
<1> HIDE DEF z, T, s, l, Out
<1>4. InStep(x) = IF I # {} THEN Min(I) ELSE 0
  BY DEF InStep, SelectInSeq, s, z, Out
<1>5. l + 1 \in I /\ I \subseteq 1 .. l + 1
  BY <1>1, <1>2
<1>6. PICK m \in I : \A i \in I : m <= i
  <2>1. I \subseteq Nat /\ I # {}
    BY <1>1, <1>5
  <2> HIDE DEF I
  <2> QED
    BY <2>1, LeastElement
<1>7. m \in 1 .. l + 1 /\ Out(s[m]) /\ \A i \in 1 .. m - 1 : i \notin I
  <2>1. m \in 1 .. l + 1 /\ Out(s[m])
    BY <1>5, <1>6
  <2>2. ASSUME NEW i \in 1 .. m - 1, i \in I PROVE FALSE
    <3>1. m <= i
      BY <1>6, <2>2
    <3> QED
      BY ONLY <1>1, <2>1, <3>1, i \in 1 .. m - 1
  <2> QED
    BY <2>1, <2>2
<1>8. Min(I) = m
  <2> DEFINE J == I
  <2>1. m \in J /\ \A i \in J : m <= i
    BY <1>6
  <2>2. J \subseteq Nat
    BY <1>1, <1>5
  <2> HIDE DEF J
  <2>3. Min(J) \in J /\ \A i \in J : Min(J) <= i
    BY <2>1 DEF Min
  <2>4. Min(J) <= m /\ m <= Min(J) /\ m \in Nat /\ Min(J) \in Nat
    BY <2>1, <2>2, <2>3
  <2>5. Min(J) = m
    BY ONLY <2>4
  <2> QED
    BY <2>5 DEF J
<1>9. InStep(x) = m
  BY <1>4, <1>5, <1>8
<1> DEFINE n == m - 1
<1>10. n \in 0 .. l /\ n + 1 = m /\ m \in Nat /\ \A i \in 1 .. n : i \in 1 .. l /\ i \in 1 .. l + 1
  BY <1>1, <1>7
<1>11. \A i \in 1 .. n : ~x[i].cut
  <2> TAKE i \in 1 .. n
  <2>1. i \notin I /\ i \in 1 .. l /\ i \in 1 .. Len(s)
    BY <1>1, <1>7, <1>10
  <2>2. ~Out(s[i])
    BY <2>1
  <2> QED
    BY <1>1, <1>3, <2>1, <2>2
<1>12. n < l => x[n + 1].cut
  <2> SUFFICES ASSUME n < l PROVE x[m].cut
    BY <1>10
  <2>1. m \in 1 .. l
    BY ONLY <1>1, <1>10, n < l
  <2> QED
    BY <1>1, <1>3, <1>7, <2>1
<1> HIDE DEF n
<1>13. WholeFirst(x, n)
  BY <1>10, <1>11, <1>12 DEF WholeFirst, l
<1> QED
  BY <1>9, <1>13 DEF n

\* What the scanner yields.
LEMMA ScanWhole ==
    ASSUME NEW format, NEW x \in Seq(HrdpItem(format))
    PROVE  \E n \in 0 .. Len(x) :
              /\ WholeFirst(x, n)
              /\ Scan(x).records = SubSeq(x, 1, n)
              /\ Scan(x).rest = "empty" => n = Len(x)
<1> DEFINE n == InStep(x) - 1
<1>1. WholeFirst(x, n)
  BY InStepWhole
<1>2. n \in 0 .. Len(x)
  BY <1>1 DEF WholeFirst
<1>3. /\ Scan(x).records = SubSeq(x, 1, n)
      /\ Scan(x).rest = IF n = Len(x) THEN "empty"
                        ELSE IF n = Len(x) - 1 THEN "partial" ELSE "unknown"
  BY DEF Scan
<1>4. Scan(x).rest = "empty" => n = Len(x)
  <2> HIDE DEF n
  <2> QED
    BY <1>3
<1> HIDE DEF n
<1> QED
  BY <1>1, <1>2, <1>3, <1>4

\* The scanner reads back what the invariant says the files hold.
LEMMA InvReads == ArchiveInv => ReadsBack
<1> SUFFICES ASSUME ArchiveInv, NEW f \in DOMAIN files, stores[f[1]].scheme = "hrdp"
             PROVE  LET file  == files[f]
                        whole == {n \in DOMAIN file : \A m \in 1 .. n : ~file[m].cut}
                    IN  /\ Len(Scan(file).records) = Cardinality(whole)
                        /\ \A n \in whole :
                             /\ file[n].start = TokenStart(stores[f[1]].format)
                             /\ stores[f[1]].format = "vmu" =>
                                    file[n].sum = SumHRD(file[n].pkt.head \o file[n].pkt.body)
  BY DEF ReadsBack
<1> DEFINE x == files[f]
           format == stores[f[1]].format
           T == HrdpItem(format)
           whole == {n \in DOMAIN x : \A m \in 1 .. n : ~x[m].cut}
<1>1. x \in Seq(T)
  BY DEF ArchiveInv, FilesOk, FileOk, Item
<1> HIDE DEF x, format
<1>2. PICK n \in 0 .. Len(x) : WholeFirst(x, n) /\ Scan(x).records = SubSeq(x, 1, n)
  BY <1>1, ScanWhole
<1>3. DOMAIN x = 1 .. Len(x) /\ Len(x) \in Nat /\ Len(SubSeq(x, 1, n)) = n /\ \A i \in 1 .. Len(x) : x[i] \in T
  <2> HIDE DEF T
  <2> QED
    BY <1>1
<1>4. whole = 1 .. n
  <2>1. ASSUME NEW i \in whole PROVE i \in 1 .. n
    <3>1. i \in 1 .. Len(x) /\ \A m \in 1 .. i : ~x[m].cut
      BY <1>3
    <3>2. CASE n < Len(x) /\ i > n
      <4>1. n + 1 \in 1 .. i
        BY ONLY <1>3, <3>1, <3>2, n \in 0 .. Len(x)
      <4> QED
        BY <1>2, <3>1, <3>2, <4>1 DEF WholeFirst
    <3>3. CASE ~(n < Len(x) /\ i > n)
      BY ONLY <1>3, <3>1, <3>3, n \in 0 .. Len(x)
    <3> QED
      BY <3>2, <3>3
  <2>2. ASSUME NEW i \in 1 .. n PROVE i \in whole
    <3>1. i \in 1 .. Len(x) /\ \A m \in 1 .. i : m \in 1 .. n
      BY ONLY <1>3, n \in 0 .. Len(x), i \in 1 .. n
    <3> QED
      BY <1>2, <1>3, <3>1 DEF WholeFirst
  <2> QED
    BY <2>1, <2>2
<1>5. Cardinality(whole) = n
  <2> HIDE DEF whole
  <2>1. n \in Nat
    BY <1>3
  <2>2. Cardinality(1 .. n) = n
    BY <2>1, FS_Interval
  <2> QED
    BY <1>4, <2>2
<1>6. ASSUME NEW i \in whole
      PROVE  /\ x[i].start = TokenStart(format)
             /\ format = "vmu" => x[i].sum = SumHRD(x[i].pkt.head \o x[i].pkt.body)
  <2>1. x[i] \in T
    BY <1>3
  <2> QED
    BY <2>1 DEF HrdpItem
<1> QED
  BY <1>2, <1>3, <1>5, <1>6 DEF x, format

\* The scanner of replay yields every record of a file in front of the first
\* one whose write was interrupted, each at its start and with its checksum.
THEOREM ReadsRight == Spec => []ReadsBack
BY StorageInvariant, InvReads, PTL

-----------------------------------------------------------------------------
(* The ids of the packets in the files of an hrdp store. *)

IsHrdp(f) == stores[f[1]].scheme = "hrdp"

\* They ascend in a file, and from a file to a later one of the storage.
Ascends(F) ==
    \A f \in DOMAIN F : IsHrdp(f) =>
        /\ \A n \in DOMAIN F[f] : F[f][n].pkt.id \in Nat \ {0}
        /\ \A m, n \in DOMAIN F[f] : m < n => F[f][m].pkt.id < F[f][n].pkt.id
        /\ \A g \in DOMAIN F : g[1] = f[1] /\ f[3] < g[3] =>
              \A m \in DOMAIN F[f] : \A n \in DOMAIN F[g] : F[f][m].pkt.id < F[g][n].pkt.id

\* The packet being stored is in no file of a storage still to be called.
Fresh ==
    /\ pc \in Active => sent # 0
    /\ \A f \in DOMAIN files : IsHrdp(f) => \A n \in DOMAIN files[f] :
          /\ files[f][n].pkt.id <= sent
          /\ pc \in Active /\ at <= f[1] => files[f][n].pkt.id < sent

-----------------------------------------------------------------------------
(* The inductive invariant of the replay command. *)

\* Packet p is in one of the files F of storage s, in front of those of T.
PassedIn(F, s, T, p) ==
    \E f \in DOMAIN F :
        /\ f[1] = s
        /\ \A t \in T : f[3] < t
        /\ \E n \in DOMAIN F[f] : F[f][n].pkt.id = p

\* Packet p is in file x, in front of the first record that was cut short.
HasWhole(x, p) ==
    \E n \in DOMAIN x : x[n].pkt.id = p /\ \A m \in 1 .. n : ~x[m].cut

\* Packet p is in a file still to be read.
Ahead(p) == \E t \in todo : HasWhole(FileOf(t), p)

\* Not a packet.
Odd == {Empty, Junk}

WalkOk ==
    /\ rpc \in {"start", "run", "done", "failed", "panic"}
    /\ rpc = "start" => played = <<>> /\ tokens = <<>> /\ todo = {} /\ due = {}
    /\ rpc # "start" => walked \in DOMAIN stores /\ stores[walked].scheme = "hrdp"
    /\ \A t \in todo : t \in Nat /\ <<walked, NoKey, t>> \in DOMAIN files
    /\ played \in Seq(Int)
    /\ tokens \in Seq(Int)
    /\ num \in Int

\* Tokens P were sent and tokens K were scanned, in files of storage s in
\* front of those of T, and the packets in them ascend.
OrderIn(P, K, F, s, T) ==
    /\ \A i \in DOMAIN P : P[i] = Junk \/ PassedIn(F, s, T, P[i])
    /\ \A i \in DOMAIN K : K[i] \in Odd \/ PassedIn(F, s, T, K[i])
    /\ \A i, j \in DOMAIN P : i < j /\ P[i] # Junk /\ P[j] # Junk => P[i] < P[j]
    /\ \A i, j \in DOMAIN K : i < j /\ K[i] \notin Odd /\ K[j] \notin Odd => K[i] < K[j]
    /\ \A i \in DOMAIN P : \A j \in DOMAIN K :
          P[i] # Junk /\ K[j] \notin Odd => P[i] < K[j]

OrderOk == OrderIn(played, tokens, files, walked, todo)

DueOk ==
    /\ due \subseteq Nat \ {0}
    /\ rpc = "run" => \A p \in due : p \in ToSet(played) \/ p \in ToSet(tokens) \/ Ahead(p)
    /\ rpc = "done" /\ num <= 0 => due \subseteq ToSet(played)

ReplayInv == ArchiveInv /\ Ascends(files) /\ Fresh /\ WalkOk /\ OrderOk /\ DueOk

-----------------------------------------------------------------------------
(* The ids ascend. *)

\* No file has got an entry.
OnlyOpened ==
    \A f \in DOMAIN files' : (f \in DOMAIN files /\ files'[f] = files[f]) \/ files'[f] = <<>>

\* A packet is sent between two calls of the storages, which then are called in
\* their order; a storage that has appended a record is done.
Moves ==
    /\ sent' = sent \/ (sent' = sent + 1 /\ files' = files)
    /\ sent' = sent /\ pc' \in Active =>
          /\ pc \in Active /\ at <= at'
          /\ at' = at /\ stores[at].scheme = "hrdp" => OnlyOpened

\* The next storage takes its turn.
LEMMA NextStoreMoves ==
    ASSUME at \in Nat, NEW e, NextStore(e), pc \in Active, sent' = sent
    PROVE  Moves
<1>1. pc' \in Active => at' = at + 1
  BY DEF NextStore, Active
<1>2. at <= at + 1 /\ at + 1 # at
  OBVIOUS
<1> QED
  BY <1>1, <1>2 DEF Moves

\* A packet is stored by the storages in their order.
LEMMA StepMoves == ArchiveInv /\ [Next]_vars => Moves
<1> SUFFICES ASSUME ArchiveInv, [Next]_vars PROVE Moves
  OBVIOUS
<1>1. sent \in Nat /\ (pc \in Active => at \in Nat)
  <2>1. stores \in Seq(Storage)
    BY StoresTyped DEF ArchiveInv, Base
  <2>2. DOMAIN stores \subseteq Nat
    BY <2>1
  <2> QED
    BY <2>2 DEF ArchiveInv, Base
<1>2. ASSUME files' = files, sent' = sent, pc' = pc, at' = at PROVE Moves
  BY <1>1, <1>2 DEF Moves, OnlyOpened
<1>3. CASE ArchiveNext
  <2>1. CASE Setup
    BY <2>1 DEF Setup, Moves, Active
  <2>2. CASE \E r \in DOMAIN rollers : Roll(r)
    <3>1. PICK r \in DOMAIN rollers : Roll(r)
      BY <2>2
    <3>2. files' = Opened(r[1], r[2]) /\ sent' = sent /\ pc' = pc /\ at' = at
      BY <3>1 DEF Roll
    <3>3. OnlyOpened
      BY <3>2 DEF OnlyOpened, Opened, Put
    <3> QED
      BY <1>1, <3>2, <3>3 DEF Moves
  <2>3. CASE Tick
    BY <1>2, <2>3 DEF Tick
  <2>4. CASE \E p \in Packets : Store(p)
    BY <1>1, <2>4 DEF Store, Moves
  <2>5. CASE Skip
    BY <1>1, <2>5, NextStoreMoves DEF Skip, Active
  <2>6. CASE Write
    <3>1. pc \in Active /\ sent' = sent
      BY <2>6 DEF Write, Writing, Active
    <3>2. CASE \E e : NextStore(e)
      BY <1>1, <3>1, <3>2, NextStoreMoves
    <3>3. CASE stores[at].scheme = "tar" /\ UNCHANGED at
      BY <1>1, <3>1, <3>3 DEF Moves
    <3> QED
      BY <2>6, <3>2, <3>3 DEF Write
  <2>7. CASE WriteFails
    BY <1>1, <2>7, NextStoreMoves DEF WriteFails, Writing, Active
  <2>8. CASE OpenFails
    BY <1>1, <2>8, NextStoreMoves DEF OpenFails, Writing, Active
  <2>11. CASE StoreFiles
    BY <1>1, <2>11, NextStoreMoves DEF StoreFiles, Active
  <2>9. CASE Crash
    BY <2>9 DEF Crash, Moves, Active
  <2>10. CASE Waiting
    BY <1>2, <2>10 DEF Waiting, archiveVars
  <2> QED
    BY <1>3, <2>1, <2>2, <2>3, <2>4, <2>5, <2>6, <2>7, <2>8, <2>9, <2>10, <2>11 DEF ArchiveNext
<1>4. CASE ReplayNext \/ UNCHANGED vars
  <2>1. UNCHANGED <<files, sent, pc, at>>
    BY <1>4 DEF ReplayNext, Connect, ReadFile, WalkFails, Send, SendFails, ReplayEnds, vars,
                archiveVars
  <2> QED
    BY <1>2, <2>1
<1> QED
  BY <1>3, <1>4 DEF Next

\* An entry of the next files is one of the files, or was appended by the
\* storage that is called.
LEMMA GrownEntry ==
    ASSUME NEW F, NEW L, NEW H, NEW M, Grown(F, L, H, M), NEW f \in DOMAIN H,
           NEW n \in DOMAIN H[f]
    PROVE  \/ f \in DOMAIN F /\ n \in DOMAIN F[f] /\ H[f][n] = F[f][n]
           \/ pc \in Active /\ f[1] = at /\ H[f][n].pkt = pkt
<1>1. PICK G : Reopened(F, G, M) /\ FilesOk(G, now) /\ (H = G \/ Appended(G, H))
  BY DEF Grown
<1>2. ASSUME f \in DOMAIN G, n \in DOMAIN G[f] PROVE f \in DOMAIN F /\ G[f] = F[f]
  <2>1. G[f] # <<>>
    BY <1>2
  <2> QED
    BY <1>1, <1>2, <2>1 DEF Reopened
<1>3. CASE H = G
  BY <1>2, <1>3
<1>4. CASE Appended(G, H)
  <2>1. PICK g, e : /\ Extended(G, H, g, e) /\ e \in Item(stores[g[1]])
                    /\ pc \in Active /\ g[1] = at /\ e.pkt = pkt
    BY <1>4 DEF Appended
  <2>2. PICK l : Longer(G[g], H[g], e, l)
    BY <1>1, <2>1, ExtendedLonger
  <2>3. f \in DOMAIN G
    BY <2>1 DEF Extended
  <2>4. CASE f # g
    <3>1. H[f] = G[f]
      BY <2>1, <2>3, <2>4 DEF Extended
    <3> QED
      BY <1>2, <2>3, <3>1
  <2>5. CASE f = g /\ n \in DOMAIN G[g]
    <3>1. H[f][n] = G[f][n]
      BY <2>2, <2>5 DEF Longer
    <3> QED
      BY <1>2, <2>3, <2>5, <3>1
  <2>6. CASE f = g /\ n \notin DOMAIN G[g]
    <3>1. n = l /\ H[g][n] = e
      BY <2>2, <2>6 DEF Longer
    <3> QED
      BY <2>1, <2>6, <3>1
  <2> QED
    BY <2>4, <2>5, <2>6
<1> QED
  BY <1>1, <1>3, <1>4

\* The id of an entry of an hrdp store is a number.
LEMMA IdTyped ==
    ASSUME NEW F, FilesOk(F, now), NEW f \in DOMAIN F, IsHrdp(f), NEW n \in DOMAIN F[f]
    PROVE  F[f][n].pkt.id \in Nat
<1> DEFINE x == F[f]
           T == Item(stores[f[1]])
<1>1. x \in Seq(T)
  BY DEF FilesOk, FileOk
<1>2. x[n] \in T
  <2> HIDE DEF x, T
  <2> QED
    BY <1>1 DEF x
<1> QED
  BY <1>2 DEF IsHrdp, Item, HrdpItem, Records, Packet

\* The packet being stored stays out of the files of the storages to come.
FreshNext ==
    /\ pc' \in Active => sent' # 0
    /\ \A f \in DOMAIN files' : IsHrdp(f) => \A n \in DOMAIN files'[f] :
          /\ files'[f][n].pkt.id <= sent'
          /\ pc' \in Active /\ at' <= f[1] => files'[f][n].pkt.id < sent'

\* The ids in the files of the rt storages stay behind the calls of Store.
LEMMA FreshStep ==
    ASSUME ArchiveInv, Fresh, Moves, Grown(files, lost, files', lost'), at' \in Nat
    PROVE  FreshNext
<1>1. /\ FilesOk(files, now) /\ FilesOk(files', now) /\ sent \in Nat /\ at \in Nat
      /\ pc \in Active => pkt.id = sent
      /\ DOMAIN stores \subseteq Nat
  <2>1. stores \in Seq(Storage)
    BY StoresTyped DEF ArchiveInv, Base
  <2>2. DOMAIN stores \subseteq Nat
    BY <2>1
  <2>3. at \in Nat
    BY <2>2 DEF ArchiveInv, Base
  <2> QED
    BY <2>2, <2>3, GrownOk DEF ArchiveInv, Base
<1>2. pc' \in Active => sent' # 0
  BY <1>1 DEF Moves, Fresh
<1>3. ASSUME NEW f \in DOMAIN files', IsHrdp(f), NEW n \in DOMAIN files'[f]
      PROVE  /\ files'[f][n].pkt.id <= sent'
             /\ pc' \in Active /\ at' <= f[1] => files'[f][n].pkt.id < sent'
  <2>1. files'[f][n].pkt.id \in Nat /\ f[1] \in Nat
    <3>1. f[1] \in DOMAIN stores
      BY <1>1 DEF FilesOk, FileOk
    <3> QED
      BY <1>1, <1>3, <3>1, IdTyped
  <2> DEFINE i == files'[f][n].pkt.id
  <2>2. CASE f \in DOMAIN files /\ n \in DOMAIN files[f] /\ files'[f][n] = files[f][n]
    <3>1. i <= sent /\ (pc \in Active /\ at <= f[1] => i < sent)
      BY <1>3, <2>2 DEF Fresh
    <3>2. i \in Nat
      BY <2>1
    <3> HIDE DEF i
    <3>3. CASE sent' = sent + 1
      <4>1. i <= sent' /\ i < sent'
        BY ONLY <1>1, <3>1, <3>2, <3>3
      <4> QED
        BY <4>1 DEF i
    <3>4. CASE sent' = sent
      <4>1. pc' \in Active /\ at' <= f[1] => pc \in Active /\ at <= f[1]
        BY <1>1, <2>1, <3>4 DEF Moves
      <4>2. i <= sent' /\ (pc' \in Active /\ at' <= f[1] => i < sent')
        BY <3>1, <3>4, <4>1
      <4> QED
        BY <4>2 DEF i
    <3> QED
      BY <3>3, <3>4 DEF Moves
  <2>3. CASE ~(f \in DOMAIN files /\ n \in DOMAIN files[f] /\ files'[f][n] = files[f][n])
    <3>1. pc \in Active /\ f[1] = at /\ files'[f][n].pkt = pkt
      BY <2>3, GrownEntry
    <3>2. files' # files
      BY <2>3
    <3>3. sent' = sent
      BY <3>2 DEF Moves
    <3>4. i = sent
      BY <1>1, <3>1
    <3>5. ~(pc' \in Active /\ at' <= f[1])
      <4> SUFFICES ASSUME pc' \in Active, at' <= f[1] PROVE FALSE
        OBVIOUS
      <4>1. at <= at'
        BY <3>3 DEF Moves
      <4>2. at' = at
        BY ONLY <1>1, <3>1, <4>1, at' \in Nat, at' <= f[1]
      <4>3. OnlyOpened
        BY <1>3, <3>1, <3>3, <4>2 DEF Moves, IsHrdp
      <4>4. files'[f] # <<>>
        BY <1>3
      <4> QED
        BY <2>3, <4>3, <4>4 DEF OnlyOpened
    <3> QED
      BY <1>1, <3>3, <3>4, <3>5
  <2> QED
    BY <2>2, <2>3
<1> QED
  BY <1>2, <1>3 DEF FreshNext

\* Opening files does not change the order of the ids.
LEMMA ReopenedAscends ==
    ASSUME NEW F, NEW G, NEW M, Reopened(F, G, M), Ascends(F)
    PROVE  Ascends(G)
<1>1. ASSUME NEW f \in DOMAIN G, NEW n \in DOMAIN G[f] PROVE f \in DOMAIN F /\ G[f] = F[f]
  <2>1. G[f] # <<>>
    BY <1>1
  <2> QED
    BY <2>1 DEF Reopened
<1> SUFFICES ASSUME NEW f \in DOMAIN G, IsHrdp(f)
             PROVE  /\ \A n \in DOMAIN G[f] : G[f][n].pkt.id \in Nat \ {0}
                    /\ \A m, n \in DOMAIN G[f] : m < n => G[f][m].pkt.id < G[f][n].pkt.id
                    /\ \A g \in DOMAIN G : g[1] = f[1] /\ f[3] < g[3] =>
                          \A m \in DOMAIN G[f] : \A n \in DOMAIN G[g] :
                              G[f][m].pkt.id < G[g][n].pkt.id
  BY DEF Ascends
<1>2. \A n \in DOMAIN G[f] : G[f][n].pkt.id \in Nat \ {0}
  BY <1>1 DEF Ascends
<1>3. \A m, n \in DOMAIN G[f] : m < n => G[f][m].pkt.id < G[f][n].pkt.id
  BY <1>1 DEF Ascends
<1>4. ASSUME NEW g \in DOMAIN G, g[1] = f[1], f[3] < g[3], NEW m \in DOMAIN G[f], NEW n \in DOMAIN G[g]
      PROVE  G[f][m].pkt.id < G[g][n].pkt.id
  BY <1>1, <1>4 DEF Ascends
<1> QED
  BY <1>2, <1>3, <1>4

\* A step keeps the order: what is appended goes to the newest file of the
\* storage, and its id is above those of all packets before it.
LEMMA AscendsStep ==
    ASSUME ArchiveInv, Ascends(files), Fresh, Grown(files, lost, files', lost')
    PROVE  Ascends(files')
<1> DEFINE H == files'
<1>1. PICK G : Reopened(files, G, lost') /\ FilesOk(G, now) /\ (files' = G \/ Appended(G, files'))
  BY DEF Grown
<1>2. Ascends(G)
  BY <1>1, ReopenedAscends
<1>3. CASE files' = G
  BY <1>2, <1>3
<1>4. CASE Appended(G, files')
  <2>1. PICK h, e : /\ Extended(G, H, h, e) /\ e \in Item(stores[h[1]])
                    /\ pc \in Active /\ h[1] = at /\ e.pkt = pkt
                    /\ Newest(G, h[1], h[2], h[3])
    BY <1>4 DEF Appended
  <2>2. PICK l : Longer(G[h], H[h], e, l)
    BY <1>1, <2>1, ExtendedLonger
  <2> DEFINE x == G[h]
             y == H[h]
  <2>3. /\ DOMAIN H = DOMAIN G /\ h \in DOMAIN G
        /\ \A g \in DOMAIN G : g # h => H[g] = G[g]
    BY <2>1 DEF Extended
  <2>4. /\ l \in Nat /\ DOMAIN x = 1 .. l - 1 /\ DOMAIN y = 1 .. l
        /\ \A n \in DOMAIN x : y[n] = x[n]
        /\ y[l] = e
    BY <2>2 DEF Longer
  <2>5. e.pkt.id = sent /\ sent \in Nat \ {0} /\ at \in Nat
    <3>1. stores \in Seq(Storage)
      BY StoresTyped DEF ArchiveInv, Base
    <3>2. DOMAIN stores \subseteq Nat
      BY <3>1
    <3> QED
      BY <2>1, <3>2 DEF ArchiveInv, Base, Fresh
  <2>6. ASSUME NEW f \in DOMAIN G, IsHrdp(f), f[1] = at, NEW n \in DOMAIN G[f]
        PROVE  G[f][n].pkt.id < sent
    <3>1. G[f] # <<>>
      BY <2>6
    <3>2. f \in DOMAIN files /\ G[f] = files[f]
      BY <1>1, <3>1 DEF Reopened
    <3>3. at <= f[1]
      BY <2>5, <2>6
    <3> QED
      BY <2>1, <2>6, <3>2, <3>3 DEF Fresh
  <2>7. ASSUME NEW f \in DOMAIN G, IsHrdp(f), f[1] = h[1] PROVE ~(h[3] < f[3])
    <3>1. FileOk(f, G[f], now) /\ FileOk(h, G[h], now)
      BY <1>1, <2>3 DEF FilesOk
    <3>2. f[2] = h[2]
      BY <2>7, <3>1 DEF FileOk, IsHrdp
    <3>3. f[3] <= h[3]
      BY <2>7, <2>1, <3>2 DEF Newest
    <3>4. f[3] \in Int /\ h[3] \in Int
      BY <3>1 DEF FileOk
    <3> QED
      BY ONLY <3>3, <3>4
  <2> SUFFICES ASSUME NEW f \in DOMAIN H, IsHrdp(f)
               PROVE  /\ \A n \in DOMAIN H[f] : H[f][n].pkt.id \in Nat \ {0}
                      /\ \A m, n \in DOMAIN H[f] : m < n => H[f][m].pkt.id < H[f][n].pkt.id
                      /\ \A g \in DOMAIN H : g[1] = f[1] /\ f[3] < g[3] =>
                            \A m \in DOMAIN H[f] : \A n \in DOMAIN H[g] :
                                H[f][m].pkt.id < H[g][n].pkt.id
    BY DEF Ascends
  <2> HIDE DEF H, x, y
  <2>8. CASE f = h
    <3>1. \A n \in DOMAIN x : x[n].pkt.id \in Nat \ {0} /\ x[n].pkt.id < sent
      BY <1>2, <2>1, <2>3, <2>6, <2>8 DEF Ascends, x
    <3>2. \A m, n \in DOMAIN x : m < n => x[m].pkt.id < x[n].pkt.id
      BY <1>2, <2>3, <2>8 DEF Ascends, x
    <3>3. \A n \in 1 .. l : (n = l /\ y[n].pkt.id = sent) \/ (n \in DOMAIN x /\ y[n] = x[n])
      <4> TAKE n \in 1 .. l
      <4>1. n = l \/ n \in DOMAIN x
        BY ONLY <2>4, n \in 1 .. l
      <4> QED
        BY <2>4, <2>5, <4>1
    <3>4. ASSUME NEW m \in 1 .. l, NEW n \in 1 .. l, m < n PROVE y[m].pkt.id < y[n].pkt.id
      <4>1. m # l /\ m \in DOMAIN x
        BY ONLY <2>4, <3>4
      <4> QED
        BY <3>1, <3>2, <3>3, <3>4, <4>1
    <3>5. \A n \in 1 .. l : y[n].pkt.id \in Nat \ {0}
      BY <2>5, <3>1, <3>3
    <3>6. \A g \in DOMAIN H : g[1] = f[1] => ~(f[3] < g[3])
      BY <2>3, <2>7, <2>8 DEF IsHrdp
    <3> QED
      BY <2>4, <2>8, <3>4, <3>5, <3>6 DEF y
  <2>9. CASE f # h
    <3>1. H[f] = G[f] /\ f \in DOMAIN G
      BY <2>3, <2>9
    <3>2. ASSUME NEW g \in DOMAIN H, g[1] = f[1], f[3] < g[3], NEW m \in DOMAIN H[f],
                 NEW n \in DOMAIN H[g]
          PROVE  H[f][m].pkt.id < H[g][n].pkt.id
      <4>1. CASE g # h \/ n \in DOMAIN x
        <5>1. g \in DOMAIN G /\ n \in DOMAIN G[g] /\ H[g][n] = G[g][n]
          BY <2>3, <2>4, <3>2, <4>1 DEF x, y
        <5> QED
          BY <1>2, <3>1, <3>2, <5>1 DEF Ascends
      <4>2. CASE g = h /\ n \notin DOMAIN x
        <5>1. n = l /\ H[g][n].pkt.id = sent
          <6>1. n \in 1 .. l
            BY <2>4, <3>2, <4>2 DEF y
          <6>2. n = l
            BY <2>4, <4>2, <6>1
          <6> QED
            BY <2>4, <2>5, <4>2, <6>2 DEF y
        <5>2. G[f][m].pkt.id < sent
          BY <2>1, <2>6, <3>1, <3>2, <4>2
        <5> QED
          BY <3>1, <5>1, <5>2
      <4> QED
        BY <4>1, <4>2
    <3>3. /\ \A n \in DOMAIN H[f] : H[f][n].pkt.id \in Nat \ {0}
          /\ \A m, n \in DOMAIN H[f] : m < n => H[f][m].pkt.id < H[f][n].pkt.id
      BY <1>2, <3>1 DEF Ascends
    <3> QED
      BY <3>2, <3>3
  <2> QED
    BY <2>8, <2>9
<1> QED
  BY <1>1, <1>3, <1>4

-----------------------------------------------------------------------------
(* What the storages do leaves replay what it knows. *)

\* What replay has read stays in the files while the storages write.
LEMMA StepKeeps ==
    ASSUME ArchiveInv, WalkOk, OrderOk, DueOk, Grown(files, lost, files', lost'),
           UNCHANGED replayVars, stores' = stores
    PROVE  WalkOk' /\ OrderOk' /\ DueOk'
<1>1. UNCHANGED <<rpc, num, walked, todo, tokens, turn, played, due>>
  BY DEF replayVars
<1>2. FilesOk(files, now)
  BY DEF ArchiveInv
<1>3. CASE rpc = "start"
  <2>1. /\ rpc' = "start" /\ played' = <<>> /\ tokens' = <<>> /\ todo' = {} /\ due' = {}
    BY <1>1, <1>3 DEF WalkOk
  <2>2. DOMAIN played' = {} /\ DOMAIN tokens' = {} /\ played' \in Seq(Int) /\ tokens' \in Seq(Int)
    BY <2>1
  <2>3. WalkOk'
    BY <1>1, <2>1, <2>2 DEF WalkOk
  <2>4. OrderOk'
    BY <2>2 DEF OrderOk, OrderIn
  <2>5. DueOk'
    BY <2>1 DEF DueOk
  <2> QED
    BY <2>3, <2>4, <2>5
<1>4. CASE rpc # "start"
  <2>1. ASSUME NEW f \in DOMAIN files, f[1] = walked
        PROVE  /\ f \in DOMAIN files' /\ DOMAIN files[f] \subseteq DOMAIN files'[f]
               /\ \A n \in DOMAIN files[f] : files'[f][n] = files[f][n]
    <3>1. stores[f[1]].scheme # "tar"
      BY <1>4, <2>1 DEF WalkOk
    <3> QED
      BY <1>2, <3>1, GrownStays DEF Longest
  <2>2. ASSUME NEW p, PassedIn(files, walked, todo, p) PROVE PassedIn(files', walked, todo, p)
    <3>1. PICK f \in DOMAIN files :
             /\ f[1] = walked
             /\ \A t \in todo : f[3] < t
             /\ \E n \in DOMAIN files[f] : files[f][n].pkt.id = p
      BY <2>2 DEF PassedIn
    <3>2. \E n \in DOMAIN files'[f] : files'[f][n].pkt.id = p
      BY <2>1, <3>1
    <3> QED
      BY <2>1, <3>1, <3>2 DEF PassedIn
  <2>3. ASSUME NEW p, Ahead(p) PROVE Ahead(p)'
    <3>1. PICK t \in todo : HasWhole(FileOf(t), p)
      BY <2>3 DEF Ahead
    <3> DEFINE f == <<walked, NoKey, t>>
    <3>2. f \in DOMAIN files /\ f[1] = walked /\ FileOf(t) = files[f] /\ FileOf(t)' = files'[f]
      BY <1>1, <3>1 DEF WalkOk, FileOf, NoKey
    <3> HIDE DEF f
    <3>3. PICK n \in DOMAIN files[f] : files[f][n].pkt.id = p /\ \A m \in 1 .. n : ~files[f][m].cut
      BY <3>1, <3>2 DEF HasWhole
    <3>4. \A m \in 1 .. n : m \in DOMAIN files[f]
      <4> DEFINE x == files[f]
                 T == Item(stores[f[1]])
      <4>1. x \in Seq(T)
        BY <1>2, <3>2 DEF FilesOk, FileOk
      <4> HIDE DEF x, T
      <4>2. DOMAIN x = 1 .. Len(x) /\ Len(x) \in Nat
        BY <4>1
      <4>3. n \in 1 .. Len(x)
        BY <4>2 DEF x
      <4>4. \A m \in 1 .. n : m \in 1 .. Len(x)
        BY ONLY <4>2, <4>3
      <4> QED
        BY <4>2, <4>4 DEF x
    <3>5. HasWhole(files'[f], p)
      BY <2>1, <3>2, <3>3, <3>4 DEF HasWhole
    <3>6. HasWhole(FileOf(t), p)'
      BY <3>2, <3>5 DEF HasWhole
    <3> QED
      BY <1>1, <3>1, <3>6 DEF Ahead
  <2>5. WalkOk'
    <3>1. ASSUME NEW t \in todo PROVE t \in Nat /\ <<walked, NoKey, t>> \in DOMAIN files'
      <4> DEFINE f == <<walked, NoKey, t>>
      <4>1. f \in DOMAIN files /\ f[1] = walked /\ t \in Nat
        BY <3>1 DEF WalkOk
      <4> HIDE DEF f
      <4> QED
        BY <2>1, <4>1 DEF f
    <3> QED
      BY <1>1, <1>4, <3>1 DEF WalkOk, NoKey
  <2>6. OrderOk'
    <3>1. OrderIn(played, tokens, files', walked, todo)
      BY <2>2 DEF OrderOk, OrderIn
    <3> QED
      BY <1>1, <3>1 DEF OrderOk
  <2>7. DueOk'
    <3>1. rpc = "run" => \A p \in due : p \in ToSet(played) \/ p \in ToSet(tokens) \/ Ahead(p)'
      BY <2>3 DEF DueOk
    <3> QED
      BY <1>1, <3>1 DEF DueOk, Ahead
  <2> QED
    BY <2>5, <2>6, <2>7
<1> QED
  BY <1>3, <1>4

-----------------------------------------------------------------------------
(* The steps of replay. *)

\* What was passed is passed when files were read.
LEMMA OrderShrinks ==
    ASSUME NEW P, NEW K, NEW F, NEW s, NEW T, NEW U, U \subseteq T, OrderIn(P, K, F, s, T)
    PROVE  OrderIn(P, K, F, s, U)
<1>1. \A p : PassedIn(F, s, T, p) => PassedIn(F, s, U, p)
  BY DEF PassedIn
<1> QED
  BY <1>1 DEF OrderIn

\* The head of a sequence of tokens and the rest.
LEMMA Split ==
    ASSUME NEW K \in Seq(Int), K # <<>>
    PROVE  /\ Head(K) \in Int /\ Tail(K) \in Seq(Int)
           /\ 1 \in DOMAIN K /\ Head(K) = K[1]
           /\ \A i \in DOMAIN Tail(K) : /\ i \in Nat /\ i + 1 \in DOMAIN K /\ 1 < i + 1
                                        /\ Tail(K)[i] = K[i + 1]
           /\ \A p \in ToSet(K) : p = Head(K) \/ p \in ToSet(Tail(K))
<1>1. /\ Head(K) \in Int /\ Tail(K) \in Seq(Int) /\ Len(K) \in Nat /\ Len(K) # 0
      /\ DOMAIN K = 1 .. Len(K) /\ Head(K) = K[1]
      /\ DOMAIN Tail(K) = 1 .. Len(K) - 1
      /\ \A i \in 1 .. Len(K) - 1 : Tail(K)[i] = K[i + 1]
  OBVIOUS
<1> DEFINE l == Len(K)
<1> HIDE DEF l
<1>2. l \in Nat /\ l # 0 /\ DOMAIN K = 1 .. l /\ DOMAIN Tail(K) = 1 .. l - 1
  BY <1>1 DEF l
<1>3. /\ 1 \in 1 .. l
      /\ \A i \in 1 .. l - 1 : i \in Nat /\ i + 1 \in 1 .. l /\ 1 < i + 1
      /\ \A i \in 1 .. l : i = 1 \/ (i - 1 \in 1 .. l - 1 /\ (i - 1) + 1 = i)
  BY ONLY <1>2
<1>4. ASSUME NEW p \in ToSet(K), p # Head(K) PROVE p \in ToSet(Tail(K))
  <2>1. PICK i \in DOMAIN K : p = K[i]
    BY <1>4 DEF ToSet
  <2>2. i - 1 \in DOMAIN Tail(K) /\ Tail(K)[i - 1] = p
    BY <1>1, <1>2, <1>3, <1>4, <2>1
  <2> QED
    BY <2>2 DEF ToSet
<1> QED
  BY <1>1, <1>2, <1>3, <1>4

\* A sequence of tokens with one more behind it.
LEMMA Joined ==
    ASSUME NEW P \in Seq(Int), NEW h \in Int
    PROVE  /\ Append(P, h) \in Seq(Int)
           /\ \E l \in Nat : /\ l \in DOMAIN Append(P, h) /\ Append(P, h)[l] = h
                             /\ \A i \in DOMAIN Append(P, h) :
                                   /\ i \in Nat /\ i <= l
                                   /\ i = l \/ (i \in DOMAIN P /\ Append(P, h)[i] = P[i])
           /\ ToSet(P) \cup {h} \subseteq ToSet(Append(P, h))
<1> DEFINE y == Append(P, h)
           l == Len(P) + 1
<1>1. /\ y \in Seq(Int) /\ l \in Nat /\ DOMAIN P = 1 .. l - 1 /\ DOMAIN y = 1 .. l
      /\ y[l] = h /\ \A i \in 1 .. l - 1 : y[i] = P[i]
  OBVIOUS
<1> HIDE DEF y, l
<1>2. /\ l \in 1 .. l
      /\ \A i \in 1 .. l : i \in Nat /\ i <= l /\ (i = l \/ i \in 1 .. l - 1)
      /\ \A i \in 1 .. l - 1 : i \in 1 .. l
  <2>1. l \in Nat /\ l # 0
    BY DEF l
  <2> QED
    BY ONLY <2>1
<1>3. /\ l \in DOMAIN y /\ y[l] = h
      /\ \A i \in DOMAIN y : i \in Nat /\ i <= l /\ (i = l \/ (i \in DOMAIN P /\ y[i] = P[i]))
  BY <1>1, <1>2
<1>4. ToSet(P) \cup {h} \subseteq ToSet(y)
  <2>1. \A i \in DOMAIN P : i \in DOMAIN y /\ y[i] = P[i]
    BY <1>1, <1>2
  <2>2. l \in DOMAIN y /\ y[l] = h
    BY <1>1, <1>2
  <2> QED
    BY ONLY <2>1, <2>2 DEF ToSet
<1> QED
  BY <1>1, <1>3, <1>4 DEF y

\* The order of the tokens when the first one is taken off.
LEMMA OrderTail ==
    ASSUME NEW P, NEW K \in Seq(Int), K # <<>>, NEW F, NEW s, NEW T, OrderIn(P, K, F, s, T)
    PROVE  OrderIn(P, Tail(K), F, s, T)
<1>1. \A i \in DOMAIN Tail(K) : i \in Nat /\ i + 1 \in DOMAIN K /\ Tail(K)[i] = K[i + 1]
  BY Split
<1> DEFINE J == Tail(K)
<1> HIDE DEF J
<1>2. \A i \in DOMAIN J : i \in Nat /\ i + 1 \in DOMAIN K /\ J[i] = K[i + 1]
  BY <1>1 DEF J
<1>3. \A i \in DOMAIN J : J[i] \in Odd \/ PassedIn(F, s, T, J[i])
  BY <1>2 DEF OrderIn
<1>4. ASSUME NEW i \in DOMAIN J, NEW j \in DOMAIN J, i < j, J[i] \notin Odd, J[j] \notin Odd
      PROVE  J[i] < J[j]
  <2>1. i + 1 < j + 1
    BY <1>2, <1>4
  <2> QED
    BY <1>2, <1>4, <2>1 DEF OrderIn
<1>5. \A i \in DOMAIN P : \A j \in DOMAIN J : P[i] # Junk /\ J[j] \notin Odd => P[i] < J[j]
  BY <1>2 DEF OrderIn
<1>6. OrderIn(P, J, F, s, T)
  BY <1>3, <1>4, <1>5 DEF OrderIn
<1> QED
  BY <1>6 DEF J

\* The order when it is sent.
LEMMA OrderSent ==
    ASSUME NEW P \in Seq(Int), NEW K \in Seq(Int), K # <<>>, NEW F, NEW s, NEW T,
           OrderIn(P, K, F, s, T), Head(K) # Empty
    PROVE  OrderIn(Append(P, Head(K)), Tail(K), F, s, T)
<1> DEFINE J == Tail(K)
           h == Head(K)
           Q == Append(P, h)
<1>1. OrderIn(P, J, F, s, T)
  BY OrderTail
<1>2. /\ h \in Int /\ 1 \in DOMAIN K /\ h = K[1]
      /\ \A i \in DOMAIN J : i + 1 \in DOMAIN K /\ 1 < i + 1 /\ J[i] = K[i + 1]
  BY Split
<1>3. h \notin Odd \/ h = Junk
  BY DEF Odd
<1> HIDE DEF J, h
<1>4. PICK l \in Nat : /\ l \in DOMAIN Q /\ Q[l] = h
                       /\ \A i \in DOMAIN Q :
                             /\ i \in Nat /\ i <= l
                             /\ i = l \/ (i \in DOMAIN P /\ Q[i] = P[i])
  BY <1>2, Joined
<1> HIDE DEF Q
<1>5. h = Junk \/ PassedIn(F, s, T, h)
  BY <1>2, <1>3 DEF OrderIn
<1>6. \A i \in DOMAIN Q : Q[i] = Junk \/ PassedIn(F, s, T, Q[i])
  BY <1>1, <1>4, <1>5 DEF OrderIn
<1>7. \A i \in DOMAIN P : P[i] # Junk /\ h # Junk => P[i] < h
  BY <1>2, <1>3 DEF OrderIn
<1>8. ASSUME NEW i \in DOMAIN Q, NEW j \in DOMAIN Q, i < j, Q[i] # Junk, Q[j] # Junk
      PROVE  Q[i] < Q[j]
  <2>1. i # l
    <3>1. i \in Nat /\ j \in Nat /\ j <= l
      BY <1>4
    <3> QED
      BY ONLY <1>8, <3>1
  <2>2. i \in DOMAIN P /\ Q[i] = P[i]
    BY <1>4, <2>1
  <2>3. CASE j = l
    BY <1>4, <1>7, <1>8, <2>2, <2>3
  <2>4. CASE j # l
    BY <1>1, <1>4, <1>8, <2>2, <2>4 DEF OrderIn
  <2> QED
    BY <2>3, <2>4
<1>9. \A j \in DOMAIN J : h # Junk /\ J[j] \notin Odd => h < J[j]
  BY <1>2, <1>3 DEF OrderIn
<1>10. \A i \in DOMAIN Q : \A j \in DOMAIN J : Q[i] # Junk /\ J[j] \notin Odd => Q[i] < J[j]
  BY <1>1, <1>4, <1>9 DEF OrderIn
<1>11. /\ \A i \in DOMAIN J : J[i] \in Odd \/ PassedIn(F, s, T, J[i])
       /\ \A i, j \in DOMAIN J : i < j /\ J[i] \notin Odd /\ J[j] \notin Odd => J[i] < J[j]
  BY <1>1 DEF OrderIn
<1>12. OrderIn(Q, J, F, s, T)
  BY <1>6, <1>8, <1>10, <1>11 DEF OrderIn
<1> QED
  BY <1>12 DEF Q, J, h

\* What a step of replay leaves alone.
Same == files' = files /\ stores' = stores

\* A step that sends the first token, or drops it.
LEMMA SendKeeps ==
    ASSUME WalkOk, OrderOk, DueOk, Same, Send
    PROVE  WalkOk' /\ OrderOk' /\ DueOk'
<1> DEFINE h == Head(tokens)
           J == Tail(tokens)
<1>1. /\ rpc = "run" /\ tokens # <<>> /\ tokens' = J
      /\ played' = IF h # Empty THEN Append(played, h) ELSE played
      /\ UNCHANGED <<rpc, num, walked, todo, due>>
  BY DEF Send, Sends
<1>2. tokens \in Seq(Int) /\ played \in Seq(Int)
  BY DEF WalkOk
<1>3. h \in Int /\ J \in Seq(Int) /\ \A p \in ToSet(tokens) : p = h \/ p \in ToSet(J)
  BY <1>1, <1>2, Split
<1>4. Append(played, h) \in Seq(Int) /\ ToSet(played) \cup {h} \subseteq ToSet(Append(played, h))
  BY <1>2, <1>3, Joined
<1>5. OrderIn(played', J, files, walked, todo)
  <2>1. CASE h # Empty
    BY <1>1, <1>2, <2>1, OrderSent DEF OrderOk
  <2>2. CASE h = Empty
    BY <1>1, <1>2, <2>2, OrderTail DEF OrderOk
  <2> QED
    BY <2>1, <2>2
<1> HIDE DEF h, J
<1>6. played' \in Seq(Int) /\ ToSet(played) \subseteq ToSet(played') /\ (h # Empty => h \in ToSet(played'))
  BY <1>1, <1>2, <1>4
<1>7. WalkOk'
  BY <1>1, <1>3, <1>6 DEF WalkOk, Same, NoKey
<1>8. OrderOk'
  BY <1>1, <1>5 DEF OrderOk, Same
<1>9. DueOk'
  <2>1. \A p \in due : Ahead(p) => Ahead(p)'
    BY <1>1 DEF Ahead, HasWhole, FileOf, Same, NoKey
  <2>3. \A p \in due : p # Empty
    BY DEF DueOk, Empty
  <2>4. \A p \in due : p \in ToSet(played') \/ p \in ToSet(J) \/ Ahead(p)'
    BY <1>1, <1>3, <1>6, <2>1, <2>3 DEF DueOk
  <2> QED
    BY <1>1, <2>4 DEF DueOk
<1> QED
  BY <1>7, <1>8, <1>9

\* A step that does not send it for an error.
LEMMA SendFailsKeeps ==
    ASSUME WalkOk, OrderOk, DueOk, Same, SendFails
    PROVE  WalkOk' /\ OrderOk' /\ DueOk'
<1>1. /\ rpc = "run" /\ tokens # <<>> /\ tokens' = Tail(tokens) /\ due' = due \ {Head(tokens)}
      /\ rpc' \in {"run", "failed"}
      /\ UNCHANGED <<num, walked, todo, played>>
  BY DEF SendFails
<1>2. tokens \in Seq(Int)
  BY DEF WalkOk
<1>3. /\ Tail(tokens) \in Seq(Int)
      /\ \A p \in ToSet(tokens) : p = Head(tokens) \/ p \in ToSet(Tail(tokens))
  BY <1>1, <1>2, Split
<1>4. OrderIn(played, Tail(tokens), files, walked, todo)
  BY <1>1, <1>2, OrderTail DEF OrderOk
<1>5. WalkOk'
  BY <1>1, <1>3 DEF WalkOk, Same, NoKey
<1>6. OrderOk'
  BY <1>1, <1>4 DEF OrderOk, Same
<1>7. DueOk'
  <2>1. \A p \in due' : Ahead(p) => Ahead(p)'
    BY <1>1 DEF Ahead, HasWhole, FileOf, Same, NoKey
  <2>2. \A p \in due' : p \in ToSet(played) \/ p \in ToSet(Tail(tokens)) \/ Ahead(p)'
    BY <1>1, <1>3, <2>1 DEF DueOk
  <2> QED
    BY <1>1, <2>2 DEF DueOk
<1> QED
  BY <1>5, <1>6, <1>7

\* The walk ends early, and so does the command.
LEMMA WalkFailsKeeps ==
    ASSUME WalkOk, OrderOk, DueOk, Same, WalkFails
    PROVE  WalkOk' /\ OrderOk' /\ DueOk'
<1>1. /\ rpc' = "failed" /\ todo' = {} /\ rpc = "run"
      /\ UNCHANGED <<num, walked, tokens, played, due>>
  BY DEF WalkFails
<1>2. OrderIn(played, tokens, files, walked, {})
  BY OrderShrinks DEF OrderOk
<1>3. WalkOk'
  BY <1>1 DEF WalkOk, Same
<1>4. OrderOk'
  BY <1>1, <1>2 DEF OrderOk, Same
<1>5. DueOk'
  BY <1>1 DEF DueOk
<1> QED
  BY <1>3, <1>4, <1>5

\* Replay ends: without a limit it has read and sent everything.
LEMMA EndsKeeps ==
    ASSUME WalkOk, OrderOk, DueOk, Same, ReplayEnds
    PROVE  WalkOk' /\ OrderOk' /\ DueOk'
<1>1. /\ rpc' = "done" /\ rpc = "run"
      /\ num > 0 \/ (todo = {} /\ tokens = <<>>)
      /\ UNCHANGED <<num, walked, todo, tokens, played, due>>
  BY DEF ReplayEnds
<1>2. WalkOk'
  BY <1>1 DEF WalkOk, Same, NoKey
<1>3. OrderOk'
  BY <1>1 DEF OrderOk, Same
<1>4. DueOk'
  <2>1. ASSUME num <= 0, NEW p \in due PROVE p \in ToSet(played)
    <3>1. todo = {} /\ tokens = <<>>
      <4>1. num \in Int
        BY DEF WalkOk
      <4>2. ~(num > 0)
        BY ONLY <2>1, <4>1
      <4> QED
        BY <1>1, <4>2
    <3>2. p \notin ToSet(tokens)
      BY <3>1 DEF ToSet
    <3>3. ~Ahead(p)
      BY <3>1 DEF Ahead
    <3> QED
      BY <1>1, <3>2, <3>3 DEF DueOk
  <2> QED
    BY <1>1, <2>1 DEF DueOk
<1> QED
  BY <1>2, <1>3, <1>4

\* Replay starts: all files of the storage are ahead.
LEMMA ConnectKeeps ==
    ASSUME ArchiveInv, Ascends(files), WalkOk, Same, NEW s \in DOMAIN stores, Connect(s)
    PROVE  WalkOk' /\ OrderOk' /\ DueOk'
<1>1. /\ rpc = "start" /\ stores[s].scheme = "hrdp" /\ rpc' = "run" /\ walked' = s
      /\ todo' = {f[3] : f \in {g \in DOMAIN files : g[1] = s}}
      /\ num' \in Int
      /\ UNCHANGED <<tokens, played>>
  BY ReplayAssumption DEF Connect
<1>2. played' = <<>> /\ tokens' = <<>>
  BY <1>1 DEF WalkOk
<1>3. DOMAIN played' = {} /\ DOMAIN tokens' = {} /\ played' \in Seq(Int) /\ tokens' \in Seq(Int)
  BY <1>2
<1>4. ASSUME NEW t \in todo' PROVE t \in Nat /\ <<s, NoKey, t>> \in DOMAIN files
  <2>1. PICK f \in DOMAIN files : f[1] = s /\ f[3] = t
    BY <1>1
  <2>2. f = <<f[1], f[2], f[3]>> /\ f[2] = NoKey /\ f[3] \in 0 .. now
    BY <1>1, <2>1 DEF ArchiveInv, FilesOk, FileOk
  <2>3. f[3] \in Nat
    BY <2>2
  <2>4. f = <<s, NoKey, t>>
    BY <2>1, <2>2
  <2> QED
    BY <2>1, <2>3, <2>4
<1>5. WalkOk'
  BY <1>1, <1>3, <1>4 DEF WalkOk, Same, NoKey
<1>6. OrderOk'
  BY <1>3 DEF OrderOk, OrderIn
<1>7. ASSUME NEW p \in due'
      PROVE  p \in Nat \ {0} /\ Ahead(p)'
  <2>1. PICK t \in todo' : p \in Whole(files[<<s, NoKey, t>>])
    <3> DEFINE W(n) == Whole(files[<<s, NoKey, n>>])
    <3>1. due' = {r[1].id : r \in returned} \cap UNION {W(n) : n \in todo'}
      BY <1>1 DEF Connect
    <3> HIDE DEF W
    <3>2. PICK t \in todo' : p \in W(t)
      BY ONLY <1>7, <3>1
    <3> QED
      BY <3>2 DEF W
  <2> DEFINE f == <<s, NoKey, t>>
  <2>2. f \in DOMAIN files /\ f[1] = s
    BY <1>4
  <2> HIDE DEF f
  <2>3. PICK m \in DOMAIN files[f] : files[f][m].pkt.id = p /\ \A i \in 1 .. m : ~files[f][i].cut
    BY <2>1 DEF f, Whole
  <2>4. p \in Nat \ {0}
    BY <1>1, <2>2, <2>3 DEF Ascends, IsHrdp
  <2>5. FileOf(t)' = files[f]
    BY <1>1 DEF FileOf, f, Same, NoKey
  <2>6. Ahead(p)'
    BY <2>1, <2>3, <2>5 DEF Ahead, HasWhole
  <2> QED
    BY <2>4, <2>6
<1>8. DueOk'
  BY <1>1, <1>7 DEF DueOk
<1> QED
  BY <1>5, <1>6, <1>8

\* The tokens a scan hands over: those of the n first records, and one more.
Handed(x, n, z, K) ==
    /\ K \in Seq(Int)
    /\ \A i \in DOMAIN K : \/ i \in 1 .. n /\ K[i] = x[i].pkt.id
                           \/ i = n + 1 /\ K[i] = z
    /\ \A i \in 1 .. n : x[i].pkt.id \in ToSet(K)

\* The ids of the records up to a place, with one more behind them.
LEMMA HandedOver ==
    ASSUME NEW format, NEW x \in Seq(HrdpItem(format)), NEW n \in 0 .. Len(x), NEW z \in Int,
           \A i \in DOMAIN x : x[i].pkt.id \in Nat
    PROVE  LET y == SubSeq(x, 1, n)
           IN  Handed(x, n, z, [i \in DOMAIN y |-> y[i].pkt.id] \o <<z>>)
<1> DEFINE T == HrdpItem(format)
           y == SubSeq(x, 1, n)
           k == [i \in DOMAIN y |-> y[i].pkt.id]
           K == k \o <<z>>
<1> HIDE DEF T
<1>1. x \in Seq(T)
  BY DEF T
<1>2. n \in Nat /\ DOMAIN y = 1 .. n /\ \A i \in 1 .. n : y[i] = x[i] /\ i \in DOMAIN x
  BY <1>1
<1>3. DOMAIN k = 1 .. n /\ \A i \in 1 .. n : k[i] = x[i].pkt.id /\ k[i] \in Nat
  BY <1>2
<1>4. k = [i \in 1 .. n |-> x[i].pkt.id]
  BY <1>2
<1>5. k \in [1 .. n -> Int]
  BY <1>2, <1>4
<1> HIDE DEF k
<1>6. k \in Seq(Int) /\ Len(k) = n
  BY <1>2, <1>5
<1>7. /\ K \in Seq(Int) /\ DOMAIN K = 1 .. n + 1
      /\ \A i \in 1 .. n : K[i] = k[i]
      /\ K[n + 1] = z
  BY <1>6, <1>2
<1> HIDE DEF K
<1>8. \A i \in DOMAIN K : i \in 1 .. n \/ i = n + 1
  BY <1>2, <1>7
<1>9. \A i \in 1 .. n : i \in DOMAIN K
  BY <1>2, <1>7
<1>10. \A i \in 1 .. n : x[i].pkt.id \in ToSet(K)
  BY <1>3, <1>7, <1>9 DEF ToSet
<1>11. Handed(x, n, z, K)
  BY <1>3, <1>7, <1>8, <1>10 DEF Handed
<1> QED
  BY <1>11 DEF K, k

\* The file with the first name of a set.
LEMMA First ==
    ASSUME NEW T, T \subseteq Nat, T # {}
    PROVE  WalkNext(T) \in T /\ \A t \in T : WalkNext(T) <= t
<1>1. \E m \in T : \A t \in T : m <= t
  BY LeastElement
<1> QED
  BY <1>1 DEF WalkNext, Min

\* The walk reads the next file: its packets are behind all that were sent.
LEMMA ReadKeeps ==
    ASSUME ArchiveInv, Ascends(files), WalkOk, OrderOk, DueOk, Same, ReadFile
    PROVE  WalkOk' /\ OrderOk' /\ DueOk'
<1> DEFINE t == WalkNext(todo)
           f == <<walked, NoKey, t>>
           x == files[f]
           format == stores[walked].format
           y == Scan(x).records
           K == [i \in DOMAIN y |-> y[i].pkt.id]
           U == todo \ {t}
<1>1. /\ rpc = "run" /\ todo # {} /\ tokens = <<>> /\ todo' = U
      /\ UNCHANGED <<num, walked, played, due>>
      /\ \/ \E z \in Odd : tokens' = K \o <<z>> /\ rpc' = "run"
         \/ rpc' \in {"panic", "failed"} /\ tokens' = tokens
  BY DEF ReadFile, FileOf, Odd
<1>2. /\ walked \in DOMAIN stores /\ stores[walked].scheme = "hrdp" /\ todo \subseteq Nat
      /\ \A u \in todo : <<walked, NoKey, u>> \in DOMAIN files
      /\ played \in Seq(Int)
  BY <1>1 DEF WalkOk
<1>3. t \in todo /\ t \in Nat /\ \A u \in todo : t <= u
  BY <1>1, <1>2, First
<1>4. f \in DOMAIN files /\ f[1] = walked /\ f[3] = t /\ IsHrdp(f)
  BY <1>2, <1>3 DEF IsHrdp
<1>5. x \in Seq(HrdpItem(format))
  BY <1>2, <1>4 DEF ArchiveInv, FilesOk, FileOk, Item
<1>6. PICK n \in 0 .. Len(x) : WholeFirst(x, n) /\ y = SubSeq(x, 1, n)
  BY <1>5, ScanWhole
<1>7. /\ \A i \in DOMAIN x : x[i].pkt.id \in Nat \ {0}
      /\ \A i, j \in DOMAIN x : i < j => x[i].pkt.id < x[j].pkt.id
      /\ \A g \in DOMAIN files : g[1] = walked /\ g[3] < t =>
            \A i \in DOMAIN files[g] : \A j \in DOMAIN x : files[g][i].pkt.id < x[j].pkt.id
  <2>1. /\ \A i \in DOMAIN x : x[i].pkt.id \in Nat \ {0}
        /\ \A i, j \in DOMAIN x : i < j => x[i].pkt.id < x[j].pkt.id
    BY <1>4 DEF Ascends
  <2>2. ASSUME NEW g \in DOMAIN files, g[1] = walked, g[3] < t, NEW i \in DOMAIN files[g], NEW j \in DOMAIN x
        PROVE  files[g][i].pkt.id < x[j].pkt.id
    BY <1>2, <1>4, <2>2 DEF Ascends, IsHrdp
  <2> QED
    BY <2>1, <2>2
<1>8. DOMAIN x = 1 .. Len(x) /\ Len(x) \in Nat
  <2> DEFINE T == HrdpItem(format)
  <2> HIDE DEF T, x
  <2>1. x \in Seq(T)
    BY <1>5 DEF T
  <2> QED
    BY <2>1
<1> HIDE DEF t, f, x, format
<1>9. OrderIn(played, tokens, files, walked, U)
  BY OrderShrinks DEF OrderOk
<1>10. CASE rpc' \in {"panic", "failed"} /\ tokens' = tokens
  <2>1. WalkOk'
    BY <1>1, <1>2, <1>10 DEF WalkOk, Same, NoKey
  <2>2. OrderOk'
    BY <1>1, <1>9, <1>10 DEF OrderOk, Same
  <2>3. DueOk'
    BY <1>1, <1>10 DEF DueOk
  <2> QED
    BY <2>1, <2>2, <2>3
<1>11. CASE \E z \in Odd : tokens' = K \o <<z>> /\ rpc' = "run"
  <2>1. PICK z \in Odd : tokens' = K \o <<z>> /\ rpc' = "run"
    BY <1>11
  <2>2. z \in Int
    BY DEF Odd, Empty, Junk
  <2> DEFINE J == tokens'
  <2>3. Handed(x, n, z, J)
    <3>1. \A i \in DOMAIN x : x[i].pkt.id \in Nat
      BY <1>7
    <3>2. Handed(x, n, z, [i \in DOMAIN SubSeq(x, 1, n) |-> SubSeq(x, 1, n)[i].pkt.id] \o <<z>>)
      BY <1>5, <2>2, <3>1, HandedOver
    <3> QED
      BY <1>6, <2>1, <3>2
  <2> HIDE DEF J, y, K
  <2>4. ASSUME NEW i \in DOMAIN J, J[i] \notin Odd
        PROVE  i \in 1 .. n /\ i \in DOMAIN x /\ J[i] = x[i].pkt.id
    <3>1. i \in 1 .. n /\ J[i] = x[i].pkt.id
      BY <2>3, <2>4 DEF Handed
    <3>2. i \in 1 .. Len(x)
      BY ONLY <3>1, <1>8, n \in 0 .. Len(x)
    <3> QED
      BY <1>8, <3>1, <3>2
  <2>5. ASSUME NEW i \in DOMAIN x PROVE PassedIn(files, walked, U, x[i].pkt.id)
    <3>1. \A u \in U : f[3] < u
      <4> TAKE u \in U
      <4>1. u \in Nat /\ t <= u /\ t # u
        BY <1>2, <1>3
      <4>2. t < u
        BY ONLY <1>3, <4>1
      <4> QED
        BY <1>4, <4>2
    <3> QED
      BY <1>4, <2>5, <3>1 DEF PassedIn, x
  <2>6. \A i \in DOMAIN J : J[i] \in Odd \/ PassedIn(files, walked, U, J[i])
    BY <2>4, <2>5
  <2>7. \A i, j \in DOMAIN J : i < j /\ J[i] \notin Odd /\ J[j] \notin Odd => J[i] < J[j]
    BY <1>7, <2>4
  <2>8. ASSUME NEW i \in DOMAIN played, NEW j \in DOMAIN J, played[i] # Junk, J[j] \notin Odd
        PROVE  played[i] < J[j]
    <3>1. PassedIn(files, walked, todo, played[i])
      BY <2>8 DEF OrderOk, OrderIn
    <3>2. PICK g \in DOMAIN files :
             /\ g[1] = walked
             /\ \A u \in todo : g[3] < u
             /\ \E m \in DOMAIN files[g] : files[g][m].pkt.id = played[i]
      BY <3>1 DEF PassedIn
    <3> QED
      BY <1>3, <1>7, <2>4, <2>8, <3>2
  <2>9. OrderIn(played, J, files, walked, U)
    BY <1>9, <2>6, <2>7, <2>8 DEF OrderIn
  <2>10. WalkOk'
    <3>1. J \in Seq(Int)
      BY <2>3 DEF Handed
    <3> QED
      BY <1>1, <1>2, <2>1, <3>1 DEF WalkOk, Same, J, NoKey
  <2>11. OrderOk'
    BY <1>1, <2>9 DEF OrderOk, Same, J
  <2>12. ASSUME NEW p \in due PROVE p \in ToSet(played) \/ p \in ToSet(J) \/ Ahead(p)'
    <3>1. p \notin ToSet(tokens)
      BY <1>1 DEF ToSet
    <3>3. CASE Ahead(p)
      <4>1. PICK u \in todo : HasWhole(FileOf(u), p)
        BY <3>3 DEF Ahead
      <4>2. CASE u # t
        <5>1. u \in todo' /\ FileOf(u)' = FileOf(u)
          BY <1>1, <4>2 DEF FileOf, Same, NoKey
        <5> QED
          BY <4>1, <5>1 DEF Ahead, HasWhole
      <4>3. CASE u = t
        <5>1. FileOf(u) = x
          BY <4>3 DEF FileOf, x, f
        <5>2. PICK m \in DOMAIN x : x[m].pkt.id = p /\ \A i \in 1 .. m : ~x[i].cut
          BY <4>1, <5>1 DEF HasWhole
        <5>3. CASE m \in 1 .. n
          BY <2>3, <5>2, <5>3 DEF Handed
        <5>4. CASE m \notin 1 .. n
          <6>1. n < Len(x) /\ n + 1 \in 1 .. m
            <7>1. m \in 1 .. Len(x)
              BY <1>8
            <7> QED
              BY ONLY <1>8, <5>4, <7>1, n \in 0 .. Len(x)
          <6>2. x[n + 1].cut
            BY <1>6, <6>1 DEF WholeFirst
          <6> QED
            BY <5>2, <6>1, <6>2
        <5> QED
          BY <5>3, <5>4
      <4> QED
        BY <4>2, <4>3
    <3> QED
      BY <1>1, <3>1, <3>3 DEF DueOk
  <2>13. DueOk'
    BY <1>1, <2>1, <2>12 DEF DueOk, J
  <2> QED
    BY <2>10, <2>11, <2>13
<1> QED
  BY <1>1, <1>10, <1>11

-----------------------------------------------------------------------------
(* The invariant of replay is inductive. *)

\* The configuration is read once.
LEMMA SameStores == [Next]_vars => stores' = stores
<1> SUFFICES ASSUME [Next]_vars PROVE options' = options
  BY DEF stores
<1>1. CASE ArchiveNext
  BY <1>1 DEF ArchiveNext, Setup, Roll, Tick, Store, Skip, StoreFiles, Write, WriteFails, OpenFails,
              Crash, Waiting, archiveVars
<1>2. CASE ReplayNext \/ UNCHANGED vars
  BY <1>2 DEF ReplayNext, Connect, ReadFile, WalkFails, Send, SendFails, ReplayEnds, vars,
              archiveVars
<1> QED
  BY <1>1, <1>2 DEF Next

\* A step of replay does not touch the files.
LEMMA ReplayReads == ReplayNext => files' = files
BY DEF ReplayNext, Connect, ReadFile, WalkFails, Send, SendFails, ReplayEnds, archiveVars

\* Every step keeps what replay knows.
LEMMA ReplayStep == ReplayInv /\ [Next]_vars => ReplayInv'
<1> SUFFICES ASSUME ReplayInv, [Next]_vars PROVE ReplayInv'
  OBVIOUS
<1>1. ArchiveInv /\ Ascends(files) /\ Fresh /\ WalkOk /\ OrderOk /\ DueOk
  BY DEF ReplayInv
<1>2. ArchiveInv' /\ Grown(files, lost, files', lost') /\ Moves /\ stores' = stores
  BY <1>1, ArchiveStep, StepMoves, SameStores
<1>3. Ascends(files)'
  <2>1. Ascends(files')
    BY <1>1, <1>2, AscendsStep
  <2> QED
    BY <1>2, <2>1 DEF Ascends, IsHrdp
<1>4. Fresh'
  <2>1. stores \in Seq(Storage)
    BY <1>1, StoresTyped DEF ArchiveInv, Base
  <2>2. DOMAIN stores \subseteq Nat
    BY <2>1
  <2>3. at' \in Nat
    BY <1>2, <2>2 DEF ArchiveInv, Base
  <2>4. FreshNext
    BY <1>1, <1>2, <2>3, FreshStep
  <2> QED
    BY <1>2, <2>4 DEF Fresh, FreshNext, IsHrdp, Active
<1>5. WalkOk' /\ OrderOk' /\ DueOk'
  <2>1. CASE ReplayNext
    <3>1. Same
      BY <1>2, <2>1, ReplayReads DEF Same
    <3> QED
      BY <1>1, <2>1, <3>1, ConnectKeeps, ReadKeeps, WalkFailsKeeps, SendKeeps, SendFailsKeeps,
         EndsKeeps DEF ReplayNext
  <2>2. CASE UNCHANGED replayVars
    BY <1>1, <1>2, <2>2, StepKeeps
  <2> QED
    BY <2>1, <2>2 DEF Next, vars
<1> QED
  BY <1>2, <1>3, <1>4, <1>5 DEF ReplayInv

\* What the storages and replay keep between them.
THEOREM ReplayInvariant == Spec => []ReplayInv
<1>1. Init => ReplayInv
  <2> SUFFICES ASSUME Init PROVE ReplayInv
    OBVIOUS
  <2>1. ArchiveInv
    BY InitInv DEF Init
  <2>2. DOMAIN files = {} /\ pc = "down" /\ rpc = "start" /\ todo = {} /\ due = {}
    BY DEF Init, ArchiveInit, ReplayInit
  <2>3. Ascends(files) /\ Fresh
    BY <2>2 DEF Ascends, Fresh, Active
  <2>4. /\ played = <<>> /\ tokens = <<>> /\ played \in Seq(Int) /\ tokens \in Seq(Int)
        /\ DOMAIN played = {} /\ DOMAIN tokens = {} /\ num \in Int
    BY DEF Init, ReplayInit
  <2>5. WalkOk /\ OrderOk /\ DueOk
    BY <2>2, <2>4 DEF WalkOk, OrderOk, OrderIn, DueOk
  <2> QED
    BY <2>1, <2>3, <2>5 DEF ReplayInv
<1>2. ReplayInv /\ [Next]_vars => ReplayInv'
  BY ReplayStep
<1> QED
  BY <1>1, <1>2, PTL DEF Spec

\* The packets replay sends ascend in the order in which they were stored, over
\* all rotations, crashes and restarts of the storages it reads from, and a
\* replay that ended without a limit has sent every packet that was stored when
\* it started, unless a record in front of it in its file was cut short or
\* sending it failed.
THEOREM PlayedRight == Spec => []Played
<1>1. ReplayInv => Played
  <2> SUFFICES ASSUME ReplayInv PROVE Played
    OBVIOUS
  <2>1. PlayedInOrder
    BY DEF ReplayInv, OrderOk, OrderIn, PlayedInOrder
  <2>2. PlayedAll
    BY DEF ReplayInv, DueOk, PlayedAll
  <2> QED
    BY <2>1, <2>2 DEF Played
<1> QED
  BY <1>1, ReplayInvariant, PTL

=============================================================================
