--------------------------- MODULE AnnounceProofs ---------------------------
(***************************************************************************)
(* Proofs about the notification pool and its readers: no packet is        *)
(* counted twice or forgotten, the filters let exactly the configured      *)
(* messages pass, and the monitor serves the newest one of each stream.    *)
(***************************************************************************)
EXTENDS Announce, Lemmas, FiniteSetTheorems

USE DEF poolVars, netVars, fwdVars, monVars

-----------------------------------------------------------------------------
(* The packets in the pool. *)

\* The packets are in sequences; those of a cache and of a batch have one key.
PoolTyped ==
    /\ stored \subseteq Packets /\ entered \subseteq stored
    /\ queue \in Seq(Packets)
    /\ cache \in [Keys -> Seq(Packets)]
    /\ tally \in [Keys -> Nat]
    /\ \A k \in Keys : \A n \in DOMAIN cache[k] : KeyOf(cache[k][n]) = k
    /\ \A b \in batches :
          /\ b \in Seq(Packets) /\ b # <<>>
          /\ \A n \in DOMAIN b : KeyOf(b[n]) = KeyOf(b[1])

\* A packet of the queue is there once and neither in a cache nor in a batch,
\* and no packet is in a cache and in a batch; all of them were stored.
Apart ==
    /\ \A n \in DOMAIN queue : queue[n] \in stored
    /\ \A m, n \in DOMAIN queue : queue[m] = queue[n] => m = n
    /\ \A k \in Keys : \A n \in DOMAIN cache[k] :
          /\ cache[k][n] \in stored
          /\ \A m \in DOMAIN queue : queue[m] # cache[k][n]
    /\ \A b \in batches : \A n \in DOMAIN b :
          /\ b[n] \in stored
          /\ \A m \in DOMAIN queue : queue[m] # b[n]
          /\ \A k \in Keys : \A m \in DOMAIN cache[k] : cache[k][m] # b[n]

\* The packets that were queued are all there.
Counted == TallyExact /\ \A k \in Keys : IsFiniteSet(InBatches(k))

Pooled == PoolTyped /\ Apart /\ Counted

-----------------------------------------------------------------------------
(* Counting the packets of a key. *)

\* The places in a sequence are finitely many, and as many as the sequence is
\* long.
LEMMA KeyPlaces ==
    ASSUME NEW s \in Seq(Packets), NEW k
    PROVE  /\ IsFiniteSet(OfKey(s, k)) /\ IsFiniteSet(DOMAIN s)
           /\ Cardinality(OfKey(s, k)) \in Nat /\ Cardinality(DOMAIN s) = Len(s)
<1>1. DOMAIN s = 1 .. Len(s) /\ Len(s) \in Nat
  OBVIOUS
<1>2. IsFiniteSet(1 .. Len(s)) /\ Cardinality(1 .. Len(s)) = Len(s)
  <2> DEFINE n == Len(s)
  <2>1. n \in Nat
    BY <1>1
  <2> HIDE DEF n
  <2>2. IsFiniteSet(1 .. n) /\ Cardinality(1 .. n) = IF 1 > n THEN 0 ELSE n - 1 + 1
    BY <2>1, FS_Interval
  <2>3. IsFiniteSet(1 .. n) /\ Cardinality(1 .. n) = n
    BY <2>1, <2>2
  <2> QED
    BY <2>3 DEF n
<1>3. OfKey(s, k) \in SUBSET (1 .. Len(s))
  BY <1>1 DEF OfKey
<1>4. IsFiniteSet(OfKey(s, k))
  BY <1>2, <1>3, FS_Subset
<1> QED
  BY <1>1, <1>2, <1>4, FS_CardinalityType

\* The places after a packet was appended.
LEMMA AppendKeys ==
    ASSUME NEW s \in Seq(Packets), NEW p \in Packets, NEW k
    PROVE  Cardinality(OfKey(Append(s, p), k)) =
               Cardinality(OfKey(s, k)) + IF KeyOf(p) = k THEN 1 ELSE 0
<1> DEFINE n == Len(s) + 1
<1>1. /\ DOMAIN Append(s, p) = 1 .. n /\ DOMAIN s = 1 .. Len(s) /\ n \notin DOMAIN s
      /\ Append(s, p)[n] = p /\ n \in 1 .. n
      /\ \A i \in DOMAIN s : Append(s, p)[i] = s[i] /\ i \in 1 .. n
      /\ \A i \in 1 .. n : i = n \/ i \in DOMAIN s
  OBVIOUS
<1>2. IsFiniteSet(OfKey(s, k)) /\ Cardinality(OfKey(s, k)) \in Nat
  BY KeyPlaces
<1> HIDE DEF n
<1>3. CASE KeyOf(p) = k
  <2>1. OfKey(Append(s, p), k) = OfKey(s, k) \cup {n} /\ n \notin OfKey(s, k)
    BY <1>1, <1>3 DEF OfKey
  <2> QED
    BY <1>2, <1>3, <2>1, FS_AddElement
<1>4. CASE KeyOf(p) # k
  <2>1. OfKey(Append(s, p), k) = OfKey(s, k)
    BY <1>1, <1>4 DEF OfKey
  <2> QED
    BY <1>2, <1>4, <2>1
<1> QED
  BY <1>3, <1>4

\* The places after the first packet was taken.
LEMMA TailKeys ==
    ASSUME NEW s \in Seq(Packets), s # <<>>, NEW k
    PROVE  Cardinality(OfKey(s, k)) =
               Cardinality(OfKey(Tail(s), k)) + IF KeyOf(Head(s)) = k THEN 1 ELSE 0
<1> DEFINE t == Tail(s)
           T == OfKey(t, k)
           S == OfKey(s, k)
           f == [n \in T |-> n + 1]
<1>1. /\ DOMAIN s = 1 .. Len(s) /\ DOMAIN t = 1 .. Len(s) - 1 /\ Len(s) \in Nat /\ Len(s) >= 1
      /\ Head(s) = s[1] /\ t \in Seq(Packets)
      /\ \A n \in DOMAIN t : t[n] = s[n + 1]
  OBVIOUS
<1>2. IsFiniteSet(T) /\ Cardinality(T) \in Nat /\ IsFiniteSet(S) /\ Cardinality(S) \in Nat
  BY <1>1, KeyPlaces
<1> HIDE DEF t
<1>3. /\ \A n \in T : n \in Nat /\ n + 1 \in S \ {1}
      /\ \A n \in S \ {1} : n - 1 \in T /\ (n - 1) + 1 = n
  BY <1>1 DEF OfKey
<1> HIDE DEF S, T
<1>4. f \in Bijection(T, S \ {1})
  <2>1. f \in [T -> S \ {1}]
    BY <1>3
  <2>2. ASSUME NEW a \in T, NEW b \in T, f[a] = f[b] PROVE a = b
    BY <2>2, <1>3
  <2>3. ASSUME NEW c \in S \ {1} PROVE \E a \in T : f[a] = c
    BY <1>3
  <2> HIDE DEF f
  <2> QED
    BY <2>1, <2>2, <2>3 DEF Bijection, Injection, Surjection, IsInjective
<1>5. Cardinality(S \ {1}) = Cardinality(T)
  <2>1. ExistsBijection(T, S \ {1})
    BY <1>4 DEF ExistsBijection
  <2> QED
    BY <1>2, <2>1, FS_Bijection
<1>6. Cardinality(S \ {1}) = IF 1 \in S THEN Cardinality(S) - 1 ELSE Cardinality(S)
  BY <1>2, FS_RemoveElement
<1>7. 1 \in S <=> KeyOf(Head(s)) = k
  BY <1>1 DEF S, OfKey
<1>8. Cardinality(S) = Cardinality(T) + IF KeyOf(Head(s)) = k THEN 1 ELSE 0
  BY <1>2, <1>5, <1>6, <1>7
<1> QED
  BY <1>8 DEF S, T, t

\* A packet of a batch is counted with its batch.
LEMMA PairsOf ==
    ASSUME NEW b, NEW S, IsFiniteSet(S)
    PROVE  IsFiniteSet({b} \X S) /\ Cardinality({b} \X S) = Cardinality(S)
<1>1. IsFiniteSet({b}) /\ Cardinality({b}) = 1
  BY FS_Singleton
<1>2. IsFiniteSet({b} \X S) /\ Cardinality({b} \X S) = 1 * Cardinality(S)
  BY <1>1, FS_Product
<1>3. Cardinality(S) \in Nat
  BY FS_CardinalityType
<1> QED
  BY <1>2, <1>3

\* Adding a set to another one that it does not meet.
LEMMA AddSet ==
    ASSUME NEW S, IsFiniteSet(S), NEW T, IsFiniteSet(T), \A x \in T : x \notin S
    PROVE  /\ IsFiniteSet(S \cup T) /\ Cardinality(S) \in Nat /\ Cardinality(T) \in Nat
           /\ Cardinality(S \cup T) = Cardinality(S) + Cardinality(T)
<1>1. S \cap T = {}
  OBVIOUS
<1>2. /\ IsFiniteSet(S \cup T)
      /\ Cardinality(S \cup T) = Cardinality(S) + Cardinality(T) - Cardinality(S \cap T)
  BY FS_Union
<1>3. Cardinality(S \cap T) = 0
  BY <1>1, FS_EmptySet
<1>4. Cardinality(S) \in Nat /\ Cardinality(T) \in Nat
  BY FS_CardinalityType
<1> QED
  BY <1>2, <1>3, <1>4

-----------------------------------------------------------------------------
(* The steps of the pool. *)

\* Few packets were queued.
LEMMA EnteredFinite ==
    ASSUME PoolTyped, NEW k
    PROVE  IsFiniteSet(Entered(k)) /\ Cardinality(Entered(k)) \in Nat
<1>1. Entered(k) \in SUBSET Packets
  BY DEF PoolTyped, Entered
<1> QED
  BY <1>1, PoolAssumption, FS_Subset, FS_CardinalityType

\* Nothing is counted before the first packet.
LEMMA InitPooled == Init => Pooled
<1> SUFFICES ASSUME Init PROVE Pooled
  OBVIOUS
<1>1. /\ stored = {} /\ queue = <<>> /\ cache = [k \in Keys |-> <<>>] /\ batches = {}
      /\ entered = {} /\ tally = [k \in Keys |-> 0]
  BY DEF Init, PoolInit
<1>2. PoolTyped
  BY <1>1 DEF PoolTyped
<1>3. Apart
  BY <1>1 DEF Apart
<1>4. ASSUME NEW k \in Keys
      PROVE  /\ IsFiniteSet(InBatches(k)) /\ Cardinality(InBatches(k)) = 0
             /\ Cardinality(OfKey(queue, k)) = 0 /\ tally[k] = 0 /\ Len(cache[k]) = 0
             /\ Cardinality(Entered(k)) = 0
  <2>1. InBatches(k) = {} /\ OfKey(queue, k) = {} /\ Entered(k) = {}
    BY <1>1 DEF InBatches, OfKey, Entered
  <2>2. tally[k] = 0 /\ Len(cache[k]) = 0
    BY <1>1
  <2> QED
    BY <2>1, <2>2, FS_EmptySet
<1>5. Counted
  BY <1>4 DEF Counted, TallyExact
<1> QED
  BY <1>2, <1>3, <1>5 DEF Pooled

\* Steps that leave the packets where they are.
LEMMA SamePool ==
    ASSUME Pooled, UNCHANGED <<queue, cache, batches, entered, tally>>,
           stored \subseteq stored', stored' \subseteq Packets
    PROVE  Pooled'
<1>1. PoolTyped'
  BY DEF Pooled, PoolTyped
<1>2. Apart'
  BY DEF Pooled, Apart
<1>3. \A k : InBatches(k)' = InBatches(k)
  BY DEF InBatches
<1>4. Counted'
  BY <1>3 DEF Pooled, Counted, TallyExact, Entered
<1> QED
  BY <1>1, <1>2, <1>4 DEF Pooled

\* A packet is queued.
LEMMA NotifyPooled ==
    ASSUME Pooled, NEW p \in Packets, NotifyQueue(p)
    PROVE  Pooled'
<1>1. /\ p \notin stored /\ stored' = stored \cup {p} /\ queue' = Append(queue, p)
      /\ entered' = entered \cup {p} /\ UNCHANGED <<cache, batches, tally>>
  BY DEF NotifyQueue
<1>2. queue \in Seq(Packets) /\ entered \subseteq stored
  BY DEF Pooled, PoolTyped
<1>3. PoolTyped'
  BY <1>1 DEF Pooled, PoolTyped
<1>4. /\ DOMAIN queue' = DOMAIN queue \cup {Len(queue) + 1}
      /\ queue'[Len(queue) + 1] = p /\ \A n \in DOMAIN queue : queue'[n] = queue[n]
  BY <1>1, <1>2
<1>5. Apart'
  <2> DEFINE e == Len(queue) + 1
  <2>1. /\ DOMAIN queue' = DOMAIN queue \cup {e}
        /\ queue'[e] = p /\ \A n \in DOMAIN queue : queue'[n] = queue[n]
    BY <1>4
  <2> HIDE DEF e
  <2>2. \A n \in DOMAIN queue' : queue'[n] \in stored'
    BY <2>1, <1>1 DEF Pooled, Apart
  <2>3. \A m, n \in DOMAIN queue' : queue'[m] = queue'[n] => m = n
    BY <2>1, <1>1 DEF Pooled, Apart
  <2>4. \A k \in Keys : \A n \in DOMAIN cache[k] :
            cache[k][n] \in stored' /\ \A m \in DOMAIN queue' : queue'[m] # cache[k][n]
    BY <2>1, <1>1 DEF Pooled, Apart
  <2>5. \A b \in batches : \A n \in DOMAIN b :
            /\ b[n] \in stored' /\ \A m \in DOMAIN queue' : queue'[m] # b[n]
            /\ \A k \in Keys : \A m \in DOMAIN cache[k] : cache[k][m] # b[n]
    BY <2>1, <1>1 DEF Pooled, Apart
  <2> QED
    BY <2>2, <2>3, <2>4, <2>5, <1>1 DEF Apart
<1>6. \A k : InBatches(k)' = InBatches(k)
  BY <1>1 DEF InBatches
<1>7. ASSUME NEW k \in Keys
      PROVE  Cardinality(Entered(k)') = Cardinality(Entered(k)) + IF KeyOf(p) = k THEN 1 ELSE 0
  <2>1. IsFiniteSet(Entered(k)) /\ Cardinality(Entered(k)) \in Nat
    BY EnteredFinite DEF Pooled
  <2>2. p \notin Entered(k) /\ Entered(k)' = IF KeyOf(p) = k THEN Entered(k) \cup {p} ELSE Entered(k)
    BY <1>1, <1>2 DEF Entered
  <2> DEFINE E == Entered(k)
  <2>3. p \notin E => Cardinality(E \cup {p}) = Cardinality(E) + 1
    <3> HIDE DEF E
    <3>1. IsFiniteSet(E)
      BY <2>1 DEF E
    <3> QED
      BY ONLY <3>1, FS_AddElement
  <2>4. CASE KeyOf(p) = k
    <3>1. Cardinality(Entered(k)') = Cardinality(Entered(k)) + 1
      BY ONLY <2>2, <2>3, <2>4
    <3> QED
      BY ONLY <2>4, <3>1
  <2>5. CASE KeyOf(p) # k
    <3>1. Cardinality(Entered(k)') = Cardinality(Entered(k))
      BY ONLY <2>2, <2>5
    <3> QED
      BY ONLY <2>1, <2>5, <3>1
  <2> QED
    BY ONLY <2>4, <2>5
<1>8. ASSUME NEW k \in Keys
      PROVE  /\ IsFiniteSet(InBatches(k)')
             /\ tally'[k] + Len(cache'[k]) + Cardinality(OfKey(queue', k))
                    + Cardinality(InBatches(k)')
                = Cardinality(Entered(k)')
  <2>1. Cardinality(OfKey(queue', k)) = Cardinality(OfKey(queue, k)) + IF KeyOf(p) = k THEN 1 ELSE 0
    BY <1>1, <1>2, AppendKeys
  <2>2. /\ tally[k] + Len(cache[k]) + Cardinality(OfKey(queue, k)) + Cardinality(InBatches(k))
            = Cardinality(Entered(k))
        /\ IsFiniteSet(InBatches(k))
    BY DEF Pooled, Counted, TallyExact
  <2>3. /\ tally[k] \in Nat /\ Len(cache[k]) \in Nat /\ Cardinality(OfKey(queue, k)) \in Nat
        /\ Cardinality(InBatches(k)) \in Nat
    BY <1>2, <2>2, KeyPlaces, FS_CardinalityType DEF Pooled, PoolTyped
  <2>4. tally' = tally /\ cache' = cache
    BY <1>1
  <2> QED
    BY <1>6, <1>7, <2>1, <2>2, <2>3, <2>4
<1>9. Counted'
  BY <1>8 DEF Counted, TallyExact
<1> QED
  BY <1>3, <1>5, <1>9 DEF Pooled

\* The facts about one key that every step needs.
LEMMA Balance ==
    ASSUME Pooled, NEW k \in Keys
    PROVE  /\ tally[k] \in Nat /\ Len(cache[k]) \in Nat /\ Cardinality(OfKey(queue, k)) \in Nat
           /\ IsFiniteSet(InBatches(k)) /\ Cardinality(InBatches(k)) \in Nat
           /\ tally[k] + Len(cache[k]) + Cardinality(OfKey(queue, k)) + Cardinality(InBatches(k))
                = Cardinality(Entered(k))
<1>1. /\ tally[k] \in Nat /\ Len(cache[k]) \in Nat /\ queue \in Seq(Packets)
      /\ IsFiniteSet(InBatches(k))
      /\ tally[k] + Len(cache[k]) + Cardinality(OfKey(queue, k)) + Cardinality(InBatches(k))
            = Cardinality(Entered(k))
  BY DEF Pooled, PoolTyped, Counted, TallyExact
<1>2. Cardinality(OfKey(queue, k)) \in Nat /\ Cardinality(InBatches(k)) \in Nat
  BY <1>1, KeyPlaces, FS_CardinalityType
<1> QED
  BY <1>1, <1>2

\* The first packet of the queue is cached.
LEMMA CachePooled ==
    ASSUME Pooled, CachePacket
    PROVE  Pooled'
<1> DEFINE p == Head(queue)
           j == KeyOf(p)
<1>1. /\ queue # <<>> /\ queue' = Tail(queue) /\ cache' = [cache EXCEPT ![j] = Append(cache[j], p)]
      /\ UNCHANGED <<stored, batches, entered, tally>>
  BY DEF CachePacket
<1>2. queue \in Seq(Packets) /\ cache \in [Keys -> Seq(Packets)]
  BY DEF Pooled, PoolTyped
<1>3. p \in Packets /\ j \in Keys
  BY <1>1, <1>2 DEF Keys
<1>4. /\ DOMAIN queue = 1 .. Len(queue) /\ Len(queue) \in Nat /\ Len(queue) >= 1
      /\ p = queue[1] /\ 1 \in DOMAIN queue /\ queue' \in Seq(Packets)
      /\ DOMAIN queue' = 1 .. Len(queue) - 1
      /\ \A n \in DOMAIN queue' : queue'[n] = queue[n + 1]
  BY <1>1, <1>2
<1>5. \A n \in DOMAIN queue' : n + 1 \in DOMAIN queue /\ queue'[n] = queue[n + 1]
                               /\ n \in Nat /\ n + 1 # 1
  BY <1>4
<1> DEFINE e == Len(cache[j]) + 1
<1>6. /\ cache' \in [Keys -> Seq(Packets)] /\ \A k \in Keys : k # j => cache'[k] = cache[k]
      /\ Len(cache'[j]) = Len(cache[j]) + 1 /\ Len(cache[j]) \in Nat
      /\ DOMAIN cache'[j] = DOMAIN cache[j] \cup {e} /\ cache'[j][e] = p
      /\ \A n \in DOMAIN cache[j] : cache'[j][n] = cache[j][n]
  <2>1. cache[j] \in Seq(Packets) /\ cache'[j] = Append(cache[j], p)
    BY <1>1, <1>2, <1>3
  <2>2. \A k \in Keys : k # j => cache'[k] = cache[k]
    BY <1>1, <1>2
  <2> HIDE DEF p, j
  <2>3. /\ Len(cache'[j]) = Len(cache[j]) + 1 /\ Len(cache[j]) \in Nat
        /\ DOMAIN cache'[j] = DOMAIN cache[j] \cup {e} /\ cache'[j][e] = p
        /\ \A n \in DOMAIN cache[j] : cache'[j][n] = cache[j][n]
    BY <1>3, <2>1
  <2>4. Append(cache[j], p) \in Seq(Packets)
    BY <1>3, <2>1
  <2>5. cache' \in [Keys -> Seq(Packets)]
    BY <1>1, <1>2, <2>4
  <2> QED
    BY <2>2, <2>3, <2>5
<1> HIDE DEF e
<1>7. ASSUME NEW k \in Keys, NEW n \in DOMAIN cache'[k]
      PROVE  \/ n \in DOMAIN cache[k] /\ cache'[k][n] = cache[k][n]
             \/ k = j /\ cache'[k][n] = p
  BY <1>6
<1>8. PoolTyped'
  <2>1. \A k \in Keys : \A n \in DOMAIN cache'[k] : KeyOf(cache'[k][n]) = k
    BY <1>7 DEF Pooled, PoolTyped
  <2> QED
    BY <1>1, <1>4, <1>6, <2>1 DEF Pooled, PoolTyped
<1>9. Apart'
  <2>0. p \in stored /\ \A n \in DOMAIN queue' : queue'[n] # p
    BY <1>4, <1>5 DEF Pooled, Apart
  <2> HIDE DEF p, j
  <2>1. \A n \in DOMAIN queue' : queue'[n] \in stored
    BY <1>5 DEF Pooled, Apart
  <2>2. ASSUME NEW m \in DOMAIN queue', NEW n \in DOMAIN queue', queue'[m] = queue'[n] PROVE m = n
    <3>1. m + 1 = n + 1 /\ m \in Nat /\ n \in Nat
      BY <1>5, <2>2 DEF Pooled, Apart
    <3> QED
      BY <3>1
  <2>3. ASSUME NEW k \in Keys, NEW n \in DOMAIN cache'[k]
        PROVE  cache'[k][n] \in stored /\ \A m \in DOMAIN queue' : queue'[m] # cache'[k][n]
    <3>1. CASE cache'[k][n] = p
      BY <3>1, <2>0
    <3>2. CASE n \in DOMAIN cache[k] /\ cache'[k][n] = cache[k][n]
      BY <3>2, <1>5 DEF Pooled, Apart
    <3> QED
      BY <3>1, <3>2, <1>7
  <2>4. ASSUME NEW b \in batches, NEW n \in DOMAIN b
        PROVE  /\ b[n] \in stored /\ \A m \in DOMAIN queue' : queue'[m] # b[n]
               /\ \A k \in Keys : \A m \in DOMAIN cache'[k] : cache'[k][m] # b[n]
    <3>1. b[n] \in stored /\ p # b[n] /\ \A m \in DOMAIN queue' : queue'[m] # b[n]
      BY <1>4, <1>5 DEF Pooled, Apart
    <3>2. \A k \in Keys : \A m \in DOMAIN cache'[k] : cache'[k][m] # b[n]
      BY <1>7, <3>1 DEF Pooled, Apart
    <3> QED
      BY <3>1, <3>2
  <2>5. stored' = stored /\ batches' = batches
    BY <1>1
  <2> QED
    BY <2>1, <2>2, <2>3, <2>4, <2>5 DEF Apart
<1>10. ASSUME NEW k \in Keys
       PROVE  /\ IsFiniteSet(InBatches(k)')
              /\ tally'[k] + Len(cache'[k]) + Cardinality(OfKey(queue', k))
                    + Cardinality(InBatches(k)')
                 = Cardinality(Entered(k)')
  <2>1. InBatches(k)' = InBatches(k) /\ Entered(k)' = Entered(k) /\ tally' = tally
    BY <1>1 DEF InBatches, Entered
  <2>2. Cardinality(OfKey(queue, k)) = Cardinality(OfKey(queue', k)) + IF j = k THEN 1 ELSE 0
    BY <1>1, <1>2, TailKeys
  <2>3. Cardinality(OfKey(queue', k)) \in Nat
    BY <1>4, KeyPlaces
  <2>4. IF j = k THEN Len(cache'[k]) = Len(cache[k]) + 1 ELSE cache'[k] = cache[k]
    BY <1>6, Zenon
  <2>5. /\ tally[k] \in Nat /\ Len(cache[k]) \in Nat /\ Cardinality(OfKey(queue, k)) \in Nat
        /\ IsFiniteSet(InBatches(k)) /\ Cardinality(InBatches(k)) \in Nat
        /\ tally[k] + Len(cache[k]) + Cardinality(OfKey(queue, k)) + Cardinality(InBatches(k))
             = Cardinality(Entered(k))
    BY Balance
  <2> HIDE DEF p, j
  <2>6. CASE j = k
    <3>1. Cardinality(OfKey(queue, k)) = Cardinality(OfKey(queue', k)) + 1
      BY <2>2, <2>6
    <3>2. Len(cache'[k]) = Len(cache[k]) + 1
      BY <2>4, <2>5, <2>6
    <3>4. tally[k] + Len(cache[k]) + (Cardinality(OfKey(queue', k)) + 1) + Cardinality(InBatches(k))
              = tally[k] + (Len(cache[k]) + 1) + Cardinality(OfKey(queue', k)) + Cardinality(InBatches(k))
      <4> DEFINE a == tally[k]
                 b == Len(cache[k])
                 c == Cardinality(OfKey(queue', k))
                 d == Cardinality(InBatches(k))
      <4>1. a \in Nat /\ b \in Nat /\ c \in Nat /\ d \in Nat
        BY <2>3, <2>5
      <4> HIDE DEF a, b, c, d
      <4>2. a + b + (c + 1) + d = a + (b + 1) + c + d
        BY <4>1
      <4> QED
        BY <4>2 DEF a, b, c, d
    <3>5. tally'[k] + Len(cache'[k]) + Cardinality(OfKey(queue', k)) + Cardinality(InBatches(k)')
              = tally[k] + (Len(cache[k]) + 1) + Cardinality(OfKey(queue', k)) + Cardinality(InBatches(k))
      BY <2>1, <3>2, Zenon
    <3>6. Cardinality(Entered(k)')
              = tally[k] + Len(cache[k]) + (Cardinality(OfKey(queue', k)) + 1) + Cardinality(InBatches(k))
      BY <2>1, <2>5, <3>1, Zenon
    <3> QED
      BY <2>1, <2>5, <3>4, <3>5, <3>6, Zenon
  <2>7. CASE j # k
    <3>1. Cardinality(OfKey(queue, k)) = Cardinality(OfKey(queue', k)) + 0
      BY <2>2, <2>7
    <3>2. Len(cache'[k]) = Len(cache[k]) + 0
      BY <2>4, <2>5, <2>7
    <3> QED
      BY <2>1, <2>3, <2>5, <3>1, <3>2
  <2> QED
    BY <2>6, <2>7
<1>11. Counted'
  BY <1>10 DEF Counted, TallyExact
<1> QED
  BY <1>8, <1>9, <1>11 DEF Pooled

\* The caches are handed to goroutines.
LEMMA TickPooled ==
    ASSUME Pooled, Tick
    PROVE  Pooled'
<1>1. /\ batches' = batches \cup {cache[k] : k \in Filled} /\ cache' = [k \in Keys |-> <<>>]
      /\ UNCHANGED <<stored, queue, entered, tally>>
  BY DEF Tick
<1>2. cache \in [Keys -> Seq(Packets)]
  BY DEF Pooled, PoolTyped
<1>3. \A b \in batches' : b \in batches \/ \E k \in Keys : b = cache[k] /\ cache[k] # <<>>
  BY <1>1 DEF Filled
<1>4. PoolTyped'
  <2>1. ASSUME NEW b \in batches'
        PROVE  b \in Seq(Packets) /\ b # <<>> /\ \A n \in DOMAIN b : KeyOf(b[n]) = KeyOf(b[1])
    <3>1. CASE b \in batches
      BY <3>1 DEF Pooled, PoolTyped
    <3>2. CASE \E k \in Keys : b = cache[k] /\ cache[k] # <<>>
      <4>1. PICK k \in Keys : b = cache[k] /\ cache[k] # <<>>
        BY <3>2
      <4>2. b \in Seq(Packets) /\ b # <<>> /\ 1 \in DOMAIN b
        BY <4>1, <1>2
      <4>3. \A n \in DOMAIN b : KeyOf(b[n]) = k
        BY <4>1 DEF Pooled, PoolTyped
      <4> QED
        BY <4>2, <4>3
    <3> QED
      BY <3>1, <3>2, <1>3
  <2>2. cache' \in [Keys -> Seq(Packets)] /\ \A k \in Keys : DOMAIN cache'[k] = {}
    BY <1>1
  <2> QED
    BY <1>1, <2>1, <2>2 DEF Pooled, PoolTyped
<1>5. Apart'
  <2>1. \A k \in Keys : DOMAIN cache'[k] = {}
    BY <1>1
  <2>2. ASSUME NEW b \in batches', NEW n \in DOMAIN b
        PROVE  b[n] \in stored /\ \A m \in DOMAIN queue : queue[m] # b[n]
    BY <1>3 DEF Pooled, Apart
  <2> QED
    BY <1>1, <2>1, <2>2 DEF Pooled, Apart
<1>6. ASSUME NEW k \in Keys
      PROVE  /\ IsFiniteSet(InBatches(k)')
             /\ tally'[k] + Len(cache'[k]) + Cardinality(OfKey(queue', k))
                    + Cardinality(InBatches(k)')
                = Cardinality(Entered(k)')
  <2> DEFINE c == cache[k]
             P == {c} \X DOMAIN c
  <2>1. c \in Seq(Packets)
    BY <1>2
  <2>2. IsFiniteSet(P) /\ Cardinality(P) = Len(c)
    BY <2>1, KeyPlaces, PairsOf
  <2>3. OfKey(c, k) = DOMAIN c
    BY DEF OfKey, Pooled, PoolTyped
  <2>4. \A j \in Keys : j # k => OfKey(cache[j], k) = {}
    BY DEF OfKey, Pooled, PoolTyped
  <2>5. InBatches(k)' = InBatches(k) \cup P
    <3>1. InBatches(k)' = UNION {{b} \X OfKey(b, k) : b \in batches'}
      BY DEF InBatches, OfKey
    <3>2. ASSUME NEW x \in InBatches(k)' PROVE x \in InBatches(k) \cup P
      <4>1. PICK b \in batches' : x \in {b} \X OfKey(b, k)
        BY <3>1
      <4>2. CASE b \in batches
        BY <4>1, <4>2 DEF InBatches
      <4>3. CASE \E j \in Keys : b = cache[j]
        <5>1. b = c
          BY <4>1, <4>3, <2>4
        <5> QED
          BY <4>1, <5>1, <2>3
      <4> QED
        BY <4>2, <4>3, <1>3
    <3>3. ASSUME NEW x \in InBatches(k) PROVE x \in InBatches(k)'
      BY <3>1, <1>1 DEF InBatches
    <3>4. ASSUME NEW x \in P PROVE x \in InBatches(k)'
      <4>1. c # <<>>
        BY <2>1
      <4>2. c \in batches'
        BY <4>1, <1>1 DEF Filled
      <4>3. x \in {c} \X OfKey(c, k)
        BY <2>3
      <4> HIDE DEF c, P
      <4> QED
        BY <3>1, <4>2, <4>3
    <3> HIDE DEF P
    <3> QED
      BY <3>2, <3>3, <3>4
  <2>6. ASSUME NEW x \in P PROVE x \notin InBatches(k)
    <3> SUFFICES ASSUME x \in InBatches(k) PROVE FALSE
      OBVIOUS
    <3>1. PICK b \in batches : x \in {b} \X OfKey(b, k)
      BY DEF InBatches
    <3>2. b = c /\ x[2] \in DOMAIN c
      BY <3>1
    <3>3. cache[k][x[2]] # b[x[2]]
      BY <3>2 DEF Pooled, Apart
    <3> QED
      BY <3>2, <3>3
  <2>7. IsFiniteSet(InBatches(k)) /\ Cardinality(InBatches(k)) \in Nat
    BY Balance
  <2>8. IsFiniteSet(InBatches(k)') /\ Cardinality(InBatches(k)') = Cardinality(InBatches(k)) + Len(c)
    <3> HIDE DEF P, c
    <3> QED
      BY <2>2, <2>5, <2>6, <2>7, AddSet
  <2>9. Len(cache'[k]) = 0 /\ tally' = tally /\ queue' = queue /\ Entered(k)' = Entered(k)
    BY <1>1 DEF Entered
  <2> QED
    BY <2>8, <2>9, Balance
<1>7. Counted'
  BY <1>6 DEF Counted, TallyExact
<1> QED
  BY <1>4, <1>5, <1>7 DEF Pooled

\* A goroutine summarises its batch.
LEMMA SummarizePooled ==
    ASSUME Pooled, NEW b \in batches, Summarize(b)
    PROVE  Pooled'
<1> DEFINE j == KeyOf(b[1])
<1>1. /\ batches' = batches \ {b} /\ tally' = [tally EXCEPT ![j] = tally[j] + Len(b)]
      /\ UNCHANGED <<stored, queue, cache, entered>>
  BY DEF Summarize
<1>2. b \in Seq(Packets) /\ b # <<>> /\ \A n \in DOMAIN b : KeyOf(b[n]) = j
  BY DEF Pooled, PoolTyped
<1>3. b[1] \in Packets /\ Len(b) \in Nat
  BY <1>2
<1>4. j \in Keys
  BY <1>3 DEF Keys
<1>5. tally \in [Keys -> Nat]
  BY DEF Pooled, PoolTyped
<1> HIDE DEF j
<1>6. tally' \in [Keys -> Nat] /\ \A k \in Keys : tally'[k] = tally[k] + IF k = j THEN Len(b) ELSE 0
  BY <1>1, <1>3, <1>4, <1>5
<1>7. PoolTyped'
  BY <1>1, <1>6 DEF Pooled, PoolTyped
<1>8. Apart'
  BY <1>1 DEF Pooled, Apart
<1>9. ASSUME NEW k \in Keys
      PROVE  /\ IsFiniteSet(InBatches(k)')
             /\ tally'[k] + Len(cache'[k]) + Cardinality(OfKey(queue', k))
                    + Cardinality(InBatches(k)')
                = Cardinality(Entered(k)')
  <2> DEFINE P == {b} \X OfKey(b, k)
  <2>1. OfKey(b, k) = IF k = j THEN DOMAIN b ELSE {}
    BY <1>2 DEF OfKey
  <2>2. IsFiniteSet(OfKey(b, k)) /\ Cardinality(OfKey(b, k)) = IF k = j THEN Len(b) ELSE 0
    BY <1>2, <2>1, KeyPlaces, FS_EmptySet
  <2>3. IsFiniteSet(P) /\ Cardinality(P) = IF k = j THEN Len(b) ELSE 0
    BY <2>2, PairsOf
  <2>4. InBatches(k)' = UNION {{c} \X OfKey(c, k) : c \in batches \ {b}}
    BY <1>1 DEF InBatches, OfKey
  <2>5. InBatches(k) = InBatches(k)' \cup P
    BY <2>4 DEF InBatches
  <2>6. \A x \in P : x \notin InBatches(k)'
    BY <2>4
  <2>7. IsFiniteSet(InBatches(k)')
    BY <2>5, Balance, FS_Subset
  <2>8. /\ Cardinality(InBatches(k)) = Cardinality(InBatches(k)') + Cardinality(P)
        /\ Cardinality(InBatches(k)') \in Nat
    <3> HIDE DEF P
    <3> QED
      BY <2>3, <2>5, <2>6, <2>7, AddSet
  <2>9. cache' = cache /\ queue' = queue /\ Entered(k)' = Entered(k)
    BY <1>1 DEF Entered
  <2>10. tally'[k] = tally[k] + IF k = j THEN Len(b) ELSE 0
    BY <1>6
  <2> HIDE DEF P
  <2> QED
    BY <1>3, <2>3, <2>7, <2>8, <2>9, <2>10, Balance
<1>10. Counted'
  BY <1>9 DEF Counted, TallyExact
<1> QED
  BY <1>7, <1>8, <1>10 DEF Pooled

\* Every step of the pool keeps the counts; the other programs touch nothing of it.
LEMMA NextPooled == Pooled /\ [Next]_vars => Pooled'
<1> SUFFICES ASSUME Pooled, [Next]_vars PROVE Pooled'
  OBVIOUS
<1>1. ASSUME NEW p \in Packets, NotifyQueue(p) PROVE Pooled'
  BY <1>1, NotifyPooled
<1>2. ASSUME NEW p \in Packets, NotifyDrop(p) PROVE Pooled'
  <2>1. /\ UNCHANGED <<queue, cache, batches, entered, tally>>
        /\ stored \subseteq stored' /\ stored' \subseteq Packets
    BY <1>2 DEF NotifyDrop, Pooled, PoolTyped
  <2> QED
    BY <2>1, SamePool
<1>3. CASE CachePacket
  BY <1>3, CachePooled
<1>4. CASE Tick
  BY <1>4, TickPooled
<1>5. ASSUME NEW b \in batches, Summarize(b) PROVE Pooled'
  BY <1>5, SummarizePooled
<1>6. ASSUME UNCHANGED <<stored, queue, cache, batches, entered, tally>> PROVE Pooled'
  <2>1. stored \subseteq stored' /\ stored' \subseteq Packets
    BY <1>6 DEF Pooled, PoolTyped
  <2> QED
    BY <1>6, <2>1, SamePool
<1>7. ASSUME NEW post \in posts, Post(post[1], post[2]) PROVE Pooled'
  <2>1. UNCHANGED <<stored, queue, cache, batches, entered, tally>>
    BY <1>7 DEF Post
  <2> QED
    BY <2>1, <1>6
<1>8. CASE \/ FwdNext /\ UNCHANGED poolVars
           \/ MonNext /\ UNCHANGED poolVars
           \/ Quiet \/ UNCHANGED vars
  <2>1. UNCHANGED <<stored, queue, cache, batches, entered, tally>>
    BY <1>8 DEF Quiet, vars
  <2> QED
    BY <2>1, <1>6
<1> QED
  BY <1>1, <1>2, <1>3, <1>4, <1>5, <1>7, <1>8 DEF Next, PoolNext

\* The counts that the messages report add up: of the packets of a stream that
\* Notify queued, each is still queued, cached or with a goroutine, or it was
\* counted by exactly one message, however the ticks fall between the packets
\* and whatever the goroutines of earlier ticks still have to do.
THEOREM CountsAddUp == Spec => []TallyExact
<1>1. Pooled => TallyExact
  BY DEF Pooled, Counted
<1> QED
  BY <1>1, InitPooled, NextPooled, PTL DEF Spec

-----------------------------------------------------------------------------
(* The messages on their way. *)

\* The message m has what it says of a packet, other than a count and the time
\* elapsed, from p.
About(m, p) ==
    /\ m.origin = p.origin /\ m.instance = p.instance /\ m.realtime = p.realtime
    /\ m.channel = p.channel /\ m.sequence = p.seq
    /\ m.generated = p.vmu /\ m.acquired = p.acq
    /\ m.reference = p.name /\ m.upi = extractUserInfo(p)

\* Every message is about a packet that was stored, and the datagrams of a
\* group are messages that its filter accepted.
Sent ==
    /\ inbox = [g \in Groups |-> inbox[g]]
    /\ \A post \in posts : post[1] \in Groups /\ \E p \in stored : About(post[2], p)
    /\ \A g \in Groups : \A d \in inbox[g] :
          \E m : d = Encode(m) /\ Accept(Options[g], m) /\ \E p \in stored : About(m, p)

\* What comes out of a datagram is what went into it.
LEMMA Decoded ==
    ASSUME NEW m
    PROVE  /\ DecodeMessage(Encode(m)) =
                [origin |-> m.origin, sequence |-> m.sequence, instance |-> m.instance,
                 channel |-> m.channel, realtime |-> m.realtime, count |-> m.count,
                 elapsed |-> m.elapsed, generated |-> m.generated, acquired |-> m.acquired,
                 reference |-> m.reference, upi |-> m.upi]
           /\ decodeKey(Encode(m)) = <<m.realtime, m.origin, m.instance>>
BY DEF DecodeMessage, Encode, decodeKey

\* The message of a batch is about a packet of the batch.
LEMMA MessageAbout ==
    ASSUME NEW b, NEW first, NEW last
    PROVE  About(Message(b, first, last), b[first])
<1> DEFINE p == b[first]
           q == b[last]
           m == Message(b, first, last)
<1>1. m = [origin |-> p.origin, instance |-> p.instance, realtime |-> p.realtime,
           count |-> Len(b), sequence |-> p.seq, channel |-> p.channel,
           elapsed |-> q.acq - p.acq, generated |-> p.vmu, acquired |-> p.acq,
           reference |-> p.name, upi |-> extractUserInfo(p)]
  BY DEF Message
<1> HIDE DEF m, p, q
<1>2. About(m, p)
  BY <1>1 DEF About
<1> QED
  BY <1>2 DEF m, p

\* At first nothing is on its way.
LEMMA InitSent == Init => Sent
<1> SUFFICES ASSUME Init PROVE Sent
  OBVIOUS
<1>1. inbox = [g \in Groups |-> {}] /\ posts = {}
  BY DEF Init, PoolInit, NetInit
<1> QED
  BY <1>1 DEF Sent

\* Steps that send nothing.
LEMMA SameSent ==
    ASSUME Sent, stored \subseteq stored', posts' \subseteq posts,
           inbox' = [g \in Groups |-> inbox'[g]],
           \A g \in Groups : inbox'[g] \subseteq inbox[g]
    PROVE  Sent'
<1>1. ASSUME NEW post \in posts' PROVE post[1] \in Groups /\ \E p \in stored' : About(post[2], p)
  BY DEF Sent
<1>2. ASSUME NEW g \in Groups, NEW d \in inbox'[g]
      PROVE  \E m : d = Encode(m) /\ Accept(Options[g], m) /\ \E p \in stored' : About(m, p)
  <2>1. PICK m : d = Encode(m) /\ Accept(Options[g], m) /\ \E p \in stored : About(m, p)
    BY DEF Sent
  <2> QED
    BY <2>1
<1> QED
  BY <1>1, <1>2 DEF Sent

\* A reader takes a datagram or gets it once more.
LEMMA ReceiveSent ==
    ASSUME Sent, NEW g \in Groups, NEW d, Receive(g, d), UNCHANGED poolVars
    PROVE  Sent'
<1>1. inbox = [h \in Groups |-> inbox[h]]
  BY DEF Sent
<1>2. inbox' = inbox \/ inbox' = [inbox EXCEPT ![g] = inbox[g] \ {d}]
  BY DEF Receive
<1>3. inbox' = [h \in Groups |-> inbox'[h]] /\ \A h \in Groups : inbox'[h] \subseteq inbox[h]
  BY <1>1, <1>2
<1> QED
  BY <1>3, SameSent

\* The goroutine of a batch makes a message for each group.
LEMMA SummarizeSent ==
    ASSUME Pooled, Sent, NEW b \in batches, Summarize(b)
    PROVE  Sent'
<1>1. PICK first, last \in DOMAIN b :
          posts' = posts \cup {<<g, Message(b, first, last)>> : g \in Groups}
  BY DEF Summarize
<1>2. inbox' = inbox /\ stored' = stored
  BY DEF Summarize
<1>3. b[first] \in stored
  BY DEF Pooled, Apart
<1> DEFINE m == Message(b, first, last)
<1>4. About(m, b[first])
  BY MessageAbout
<1> HIDE DEF m
<1>5. ASSUME NEW post \in posts' PROVE post[1] \in Groups /\ \E p \in stored' : About(post[2], p)
  <2>1. CASE post \in posts
    BY <2>1, <1>2 DEF Sent
  <2>2. CASE post \notin posts
    <3>1. PICK g \in Groups : post = <<g, m>>
      BY <2>2, <1>1 DEF m
    <3>2. post[1] = g /\ post[2] = m
      BY <3>1
    <3> QED
      BY <3>2, <1>2, <1>3, <1>4
  <2> QED
    BY <2>1, <2>2
<1> QED
  BY <1>2, <1>5 DEF Sent

\* The goroutine of a message sends it, or not.
LEMMA PostSent ==
    ASSUME Sent, NEW post \in posts, Post(post[1], post[2])
    PROVE  Sent'
<1> DEFINE g == post[1]
           m == post[2]
<1>1. posts' \subseteq posts /\ stored' = stored
      /\ IF Accept(Options[g], m) THEN Send(g, Encode(m)) ELSE UNCHANGED netVars
  BY DEF Post
<1>2. g \in Groups /\ (\E p \in stored : About(m, p)) /\ inbox = [h \in Groups |-> inbox[h]]
  BY DEF Sent
<1> HIDE DEF g, m
<1>3. CASE inbox' = inbox
  BY <1>1, <1>2, <1>3, SameSent
<1>4. CASE Accept(Options[g], m) /\ inbox' = [inbox EXCEPT ![g] = inbox[g] \cup {Encode(m)}]
  <2> DEFINE e == Encode(m)
  <2>1. /\ inbox' = [h \in Groups |-> inbox'[h]]
        /\ \A h \in Groups : inbox'[h] = IF h = g THEN inbox[h] \cup {e} ELSE inbox[h]
    BY <1>2, <1>4
  <2>2. ASSUME NEW h \in Groups, NEW d \in inbox'[h]
        PROVE  \E n : d = Encode(n) /\ Accept(Options[h], n) /\ \E p \in stored' : About(n, p)
    <3>1. CASE d \in inbox[h]
      BY <3>1, <1>1 DEF Sent
    <3>2. CASE d \notin inbox[h]
      <4>1. h = g /\ d = e
        BY <2>1, <3>2
      <4> QED
        BY <4>1, <1>1, <1>2, <1>4
    <3> QED
      BY <3>1, <3>2
  <2>3. \A q \in posts' : q[1] \in Groups /\ \E p \in stored' : About(q[2], p)
    BY <1>1 DEF Sent
  <2> QED
    BY <2>1, <2>2, <2>3 DEF Sent
<1> QED
  BY <1>1, <1>3, <1>4 DEF Send

\* Every message in the pool or on the network is about a packet that was queued.
LEMMA NextSent == Pooled /\ Sent /\ [Next]_vars => Sent'
<1> SUFFICES ASSUME Pooled, Sent, [Next]_vars PROVE Sent'
  OBVIOUS
<1>0. inbox = [g \in Groups |-> inbox[g]]
  BY DEF Sent
<1>1. ASSUME stored \subseteq stored', UNCHANGED <<posts, inbox>> PROVE Sent'
  BY <1>0, <1>1, SameSent
<1>2. ASSUME NEW p \in Packets, NotifyQueue(p) \/ NotifyDrop(p) PROVE Sent'
  <2>1. stored \subseteq stored' /\ UNCHANGED <<posts, inbox>>
    BY <1>2 DEF NotifyQueue, NotifyDrop
  <2> QED
    BY <2>1, <1>1
<1>3. CASE CachePacket \/ Tick
  <2>1. stored \subseteq stored' /\ UNCHANGED <<posts, inbox>>
    BY <1>3 DEF CachePacket, Tick
  <2> QED
    BY <2>1, <1>1
<1>4. ASSUME NEW b \in batches, Summarize(b) PROVE Sent'
  BY <1>4, SummarizeSent
<1>5. ASSUME NEW post \in posts, Post(post[1], post[2]) PROVE Sent'
  BY <1>5, PostSent
<1>6. CASE FwdNext /\ UNCHANGED <<poolVars, monVars>>
  <2>1. CASE UNCHANGED netVars
    <3>1. stored \subseteq stored' /\ UNCHANGED <<posts, inbox>>
      BY <1>6, <2>1
    <3> QED
      BY <3>1, <1>1
  <2>2. ASSUME NEW g \in Groups, NEW d \in inbox[g], ReadNotification(g, d) PROVE Sent'
    <3>1. Receive(g, d) /\ UNCHANGED poolVars
      BY <1>6, <2>2 DEF ReadNotification
    <3> QED
      BY <3>1, ReceiveSent
  <2> QED
    BY <1>6, <2>1, <2>2 DEF FwdNext, Subscribe, Enqueue, EnqueueClosed, SubscribeFail, WriteParams
<1>7. CASE MonNext /\ UNCHANGED <<poolVars, fwdVars>>
  <2>1. CASE UNCHANGED netVars
    <3>1. stored \subseteq stored' /\ UNCHANGED <<posts, inbox>>
      BY <1>7, <2>1
    <3> QED
      BY <3>1, <1>1
  <2>2. ASSUME NEW g \in Groups, NEW d \in inbox[g], MonitorRead(g, d) PROVE Sent'
    <3>1. Receive(g, d) /\ UNCHANGED poolVars
      BY <1>7, <2>2 DEF MonitorRead
    <3> QED
      BY <3>1, ReceiveSent
  <2> QED
    BY <1>7, <2>1, <2>2 DEF MonNext, MonitorReadError, Elapse, CleanTick, CleanSweep
<1>8. CASE Quiet \/ UNCHANGED vars
  <2>1. stored \subseteq stored' /\ UNCHANGED <<posts, inbox>>
    BY <1>8 DEF Quiet, vars
  <2> QED
    BY <2>1, <1>1
<1> QED
  BY <1>2, <1>3, <1>4, <1>5, <1>6, <1>7, <1>8 DEF Next, PoolNext

\* A filter accepts what its configuration asks for.
LEMMA AcceptsExactly ==
    ASSUME NEW g \in Groups, Descending(Options[g].channels),
           NEW m, m.realtime \in BOOLEAN, m.channel \in Int
    PROVE  Accept(Options[g], m) <=> Matches(Options[g], m)
<1> DEFINE o == Options[g]
           chs == o.channels
<1>1. o.instance \in Int /\ chs \in Seq(Int)
  BY PoolAssumption
<1> HIDE DEF o
<1>2. (o.instance >= 0 => o.instance = m.instance) <=> (o.instance < 0 \/ m.instance = o.instance)
  BY <1>1
<1>3. AcceptChannel(chs, m.channel) <=> chs = <<>> \/ m.channel \in ToSet(chs)
  <2> DEFINE x == m.channel
  <2> HIDE DEF x, chs
  <2>1. \A a, b \in 1 .. Len(chs) : a <= b => chs[a] >= chs[b]
    BY <1>1 DEF Descending, chs, o
  <2>2. x \in Int
    BY DEF x
  <2>3. FoundDescending(chs, x) <=> \E n \in 1 .. Len(chs) : chs[n] = x
    BY <1>1, <2>1, <2>2, DescendingFinds
  <2>4. x \in ToSet(chs) <=> \E n \in 1 .. Len(chs) : chs[n] = x
    BY <1>1 DEF ToSet
  <2>5. Len(chs) = 0 <=> chs = <<>>
    BY <1>1
  <2>6. AcceptChannel(chs, x) <=> chs = <<>> \/ x \in ToSet(chs)
    BY <2>3, <2>4, <2>5 DEF AcceptChannel
  <2> QED
    BY <2>6 DEF x
<1>4. AcceptSource(o.source, m.realtime)
        <=> o.source \in {"", IF m.realtime THEN "realtime" ELSE "playback"}
  <2> DEFINE r == m.realtime
             c == o.source
  <2> HIDE DEF r, c
  <2>1. r \in BOOLEAN
    BY DEF r
  <2>2. AcceptSource(c, r) <=> c \in {"", IF r THEN "realtime" ELSE "playback"}
    BY <2>1 DEF AcceptSource
  <2> QED
    BY <2>2 DEF r, c
<1>5. Accept(o, m) <=> Matches(o, m)
  BY <1>2, <1>3, <1>4, Zenon DEF Accept, Matches
<1> QED
  BY <1>5 DEF o

\* A notifier sends the messages of its source, instance and channels and no
\* others, if the channels are in the order that its binary search expects.
THEOREM FiltersExactly == Spec => []FilterExact
<1>1. Init => Pooled /\ Sent
  BY InitPooled, InitSent
<1>2. Pooled /\ Sent /\ [Next]_vars => (Pooled /\ Sent)'
  BY NextPooled, NextSent
<1>3. Pooled /\ Sent => FilterExact
  <2> SUFFICES ASSUME Pooled, Sent, NEW g \in Groups, Descending(Options[g].channels)
               PROVE  /\ \A post \in posts : post[1] = g =>
                            (Accept(Options[g], post[2]) <=> Matches(Options[g], post[2]))
                      /\ \A d \in inbox[g] : Matches(Options[g], DecodeMessage(d))
    BY DEF FilterExact
  <2>0. ASSUME NEW m, NEW p \in stored, About(m, p)
        PROVE  Accept(Options[g], m) <=> Matches(Options[g], m)
    <3>1. p \in Packets
      BY DEF Pooled, PoolTyped
    <3>2. p.realtime \in BOOLEAN /\ p.channel \in Int
      BY <3>1, PoolAssumption
    <3>3. m.realtime \in BOOLEAN /\ m.channel \in Int
      BY <2>0, <3>2 DEF About
    <3> QED
      BY <3>3, AcceptsExactly
  <2>1. ASSUME NEW post \in posts, post[1] = g
        PROVE  Accept(Options[g], post[2]) <=> Matches(Options[g], post[2])
    <3>1. PICK p \in stored : About(post[2], p)
      BY DEF Sent
    <3> QED
      BY <3>1, <2>0
  <2>2. ASSUME NEW d \in inbox[g] PROVE Matches(Options[g], DecodeMessage(d))
    <3>1. PICK m : d = Encode(m) /\ Accept(Options[g], m) /\ \E p \in stored : About(m, p)
      BY DEF Sent
    <3>2. Matches(Options[g], m)
      BY <3>1, <2>0
    <3> DEFINE e == DecodeMessage(d)
    <3>3. e.instance = m.instance /\ e.channel = m.channel /\ e.realtime = m.realtime
      BY <3>1 DEF DecodeMessage, Encode
    <3> HIDE DEF e
    <3>4. Matches(Options[g], e)
      BY <3>2, <3>3, Zenon DEF Matches
    <3> QED
      BY <3>4 DEF e
  <2> QED
    BY <2>1, <2>2
<1> QED
  BY <1>1, <1>2, <1>3, PTL DEF Spec

-----------------------------------------------------------------------------
(* The monitor. *)

\* The rings have their slots, and the newest message of a key that was written
\* lately is in one of them.
Ringed ==
    /\ recorded \in Nat
    /\ index \in [Groups -> Nat]
    /\ ring \in [MonKeys -> [0 .. RingSize - 1 -> Nat]]
    /\ when \in [MonKeys -> {"recent", "ago"}]
    /\ latest \in [MonKeys -> Nat]
    /\ NewestServed

\* At first the monitor has no ring.
LEMMA InitRinged == Init => Ringed
<1> SUFFICES ASSUME Init PROVE Ringed
  OBVIOUS
<1>1. MonInit
  BY DEF Init
<1>2. NoRing \in [0 .. RingSize - 1 -> Nat]
  BY DEF NoRing
<1> QED
  BY <1>1, <1>2 DEF MonInit, Ringed, NewestServed

\* A message is recorded, whatever the other goroutines have written.
LEMMA RecordRinged ==
    ASSUME Ringed, NEW g \in Groups, NEW k \in MonKeys, Record(g, k)
    PROVE  Ringed'
<1> DEFINE s == index[g] % RingSize
           r == recorded + 1
<1>1. /\ recorded' = r /\ index' = [index EXCEPT ![g] = index[g] + 1]
      /\ ring' = [ring EXCEPT ![k] = [ring[k] EXCEPT ![s] = r]]
      /\ when' = [when EXCEPT ![k] = "recent"] /\ latest' = [latest EXCEPT ![k] = r]
  BY DEF Record
<1>2. s \in 0 .. RingSize - 1
  <2>1. index[g] \in Nat /\ RingSize \in Nat \ {0}
    BY MonitorAssumption DEF Ringed
  <2> QED
    BY <2>1
<1>3. r \in Nat /\ r # 0
  BY DEF Ringed
<1> HIDE DEF s, r
<1>4. ring[k] \in [0 .. RingSize - 1 -> Nat]
  BY DEF Ringed
<1>5. recorded' \in Nat /\ index' \in [Groups -> Nat] /\ when' \in [MonKeys -> {"recent", "ago"}]
      /\ latest' \in [MonKeys -> Nat]
  BY <1>1, <1>3 DEF Ringed
<1> DEFINE R == [ring[k] EXCEPT ![s] = r]
<1>6. R \in [0 .. RingSize - 1 -> Nat] /\ R[s] = r /\ s \in DOMAIN R
  BY <1>2, <1>3, <1>4
<1> HIDE DEF R
<1>7. ring' \in [MonKeys -> [0 .. RingSize - 1 -> Nat]] /\ ring'[k] = R
      /\ \A j \in MonKeys : j # k => ring'[j] = ring[j]
  BY <1>1, <1>6 DEF Ringed, R
<1>8. ASSUME NEW j \in MonKeys, when'[j] = "recent" PROVE latest'[j] \in Served(j)'
  <2>1. CASE j = k
    <3>1. latest'[j] = r
      BY <2>1, <1>1 DEF Ringed
    <3> QED
      BY <2>1, <3>1, <1>3, <1>6, <1>7 DEF Served
  <2>2. CASE j # k
    <3>1. when[j] = "recent" /\ latest'[j] = latest[j] /\ ring'[j] = ring[j]
      BY <2>2, <1>1, <1>7, <1>8 DEF Ringed
    <3> QED
      BY <3>1 DEF Ringed, NewestServed, Served
  <2> QED
    BY <2>1, <2>2
<1> QED
  BY <1>5, <1>7, <1>8 DEF Ringed, NewestServed

\* Every step keeps the newest notification of a stream in its ring.
LEMMA NextRinged == Pooled /\ Sent /\ Ringed /\ [Next]_vars => Ringed'
<1> SUFFICES ASSUME Pooled, Sent, Ringed, [Next]_vars PROVE Ringed'
  OBVIOUS
<1>1. ASSUME UNCHANGED <<recorded, index, ring, when, latest>> PROVE Ringed'
  BY <1>1 DEF Ringed, NewestServed, Served
<1>2. ASSUME NEW g \in Groups, NEW d \in inbox[g], MonitorRead(g, d) PROVE Ringed'
  <2>1. PICK m : d = Encode(m) /\ \E p \in stored : About(m, p)
    BY DEF Sent
  <2>2. PICK p \in stored : About(m, p)
    BY <2>1
  <2>3. decodeKey(d) = KeyOf(p)
    BY <2>1, <2>2, Decoded DEF About, KeyOf
  <2>4. p \in Packets
    BY DEF Pooled, PoolTyped
  <2>5. decodeKey(d) \in MonKeys
    BY <2>3, <2>4 DEF MonKeys, Keys
  <2>6. Record(g, decodeKey(d))
    BY <1>2 DEF MonitorRead
  <2> QED
    BY <2>5, <2>6, RecordRinged
<1>3. ASSUME NEW g \in Groups, MonitorReadError(g) PROVE Ringed'
  <2>1. Record(g, ZeroKey) /\ ZeroKey \in MonKeys
    BY <1>3 DEF MonitorReadError, MonKeys
  <2> QED
    BY <2>1, RecordRinged
<1>4. CASE Elapse
  <2>1. when' = [k \in MonKeys |-> "ago"] /\ UNCHANGED <<recorded, index, ring, latest>>
    BY <1>4 DEF Elapse
  <2>2. \A k \in MonKeys : when'[k] = "ago"
    BY <2>1
  <2> QED
    BY <2>1, <2>2 DEF Ringed, NewestServed
<1>5. CASE CleanTick
  BY <1>1, <1>5 DEF CleanTick
<1>6. CASE CleanSweep
  <2>1. /\ ring' = [k \in MonKeys |-> IF k \in due /\ when[k] = "ago" THEN NoRing ELSE ring[k]]
        /\ UNCHANGED <<recorded, index, when, latest>>
    BY <1>6 DEF CleanSweep
  <2>2. NoRing \in [0 .. RingSize - 1 -> Nat]
    BY DEF NoRing
  <2>3. ring' \in [MonKeys -> [0 .. RingSize - 1 -> Nat]]
    BY <2>1, <2>2 DEF Ringed
  <2>4. ASSUME NEW k \in MonKeys, when[k] = "recent" PROVE latest[k] \in Served(k)'
    <3>1. ring'[k] = ring[k]
      BY <2>1, <2>4
    <3> QED
      BY <3>1, <2>4 DEF Ringed, NewestServed, Served
  <2> QED
    BY <2>1, <2>3, <2>4 DEF Ringed, NewestServed
<1>7. CASE UNCHANGED monVars
  BY <1>1, <1>7
<1>8. CASE Quiet \/ UNCHANGED vars
  BY <1>7, <1>8 DEF Quiet, vars
<1> QED
  BY <1>2, <1>3, <1>4, <1>5, <1>6, <1>7, <1>8 DEF Next, MonNext

\* The newest notification of a stream is among those that the monitor serves
\* for 15 minutes, whatever the goroutines of the other groups write into the
\* same ring, and although old rings are removed.
THEOREM NewestIsServed == Spec => []NewestServed
<1>1. Init => Pooled /\ Sent /\ Ringed
  BY InitPooled, InitSent, InitRinged
<1>2. Pooled /\ Sent /\ Ringed /\ [Next]_vars => (Pooled /\ Sent /\ Ringed)'
  BY NextPooled, NextSent, NextRinged
<1>3. Ringed => NewestServed
  BY DEF Ringed
<1> QED
  BY <1>1, <1>2, <1>3, PTL DEF Spec

-----------------------------------------------------------------------------
(* The path of a packet, on both sides. *)

\* One level of a path is the same directory for the store and the forwarder.
LEMMA SameDir ==
    ASSUME NEW x, x # Unset, NEW t, NEW g, NEW m, NEW p, About(m, p), SameType(p),
           x = "upi" => SameName(p)
    PROVE  messageDir(x, t, g, m) = packetDir(x, t, g, p)
<1>1. /\ m.origin = p.origin /\ m.instance = p.instance /\ m.realtime = p.realtime
      /\ m.channel = p.channel /\ m.upi = extractUserInfo(p)
  BY DEF About
<1>2. whichType(m.channel) = typeDir(p.kind)
  BY <1>1 DEF SameType
<1>3. ASSUME x = "upi" PROVE m.upi = getUPI(p)
  <2>1. ~p.realtime /\ Len(p.info) = 1
    BY <1>3 DEF SameName
  <2>2. p.info # <<>> /\ Len(p.info) < 2
    <3> DEFINE i == p.info
    <3>1. Len(i) = 1
      BY <2>1
    <3> HIDE DEF i
    <3>2. Len(<<>>) = 0
      OBVIOUS
    <3>3. i # <<>> /\ Len(i) < 2
      BY ONLY <3>1, <3>2
    <3> QED
      BY <3>3 DEF i
  <2>3. extractUserInfo(p) = p.info /\ getUPI(p) = p.info
    BY <2>1, <2>2, Zenon DEF extractUserInfo, getUPI, Text
  <2> QED
    BY <1>1, <2>3
<1>4. CASE x = "upi"
  BY <1>3, <1>4 DEF messageDir, packetDir
<1>5. CASE x = "type"
  BY <1>2, <1>5 DEF messageDir, packetDir
<1>6. CASE x = "instance"
  BY <1>1, <1>6 DEF messageDir, packetDir
<1>7. CASE x = "mode"
  BY <1>1, <1>7 DEF messageDir, packetDir
<1>8. CASE x = "source"
  BY <1>1, <1>8 DEF messageDir, packetDir
<1>9. CASE x \notin {"upi", "type", "instance", "mode", "source"}
  <2> DEFINE B == ToSet(TimeLevel)
  <2>1. CASE x \in B
    <3>1. messageDir(x, t, g, m) = TimeDir(x, t, g)
      BY <1>9, <2>1 DEF messageDir
    <3>2. packetDir(x, t, g, p) = TimeDir(x, t, g)
      BY <1>9, <2>1 DEF packetDir
    <3> QED
      BY <3>1, <3>2
  <2>2. CASE x \notin B
    <3>1. messageDir(x, t, g, m) = << <<x>> >>
      BY <1>9, <2>2 DEF messageDir
    <3>2. packetDir(x, t, g, p) = << <<x>> >>
      BY <1>9, <2>2 DEF packetDir
    <3> QED
      BY <3>1, <3>2
  <2> QED
    BY <2>1, <2>2
<1> QED
  BY <1>4, <1>5, <1>6, <1>7, <1>8, <1>9

LevelNames ==
    {"instance", "type", "mode", "source", "year", "doy", "hour", "minute"}

\* The empty level is none of the levels with a meaning.
LEMMA UnsetLevel ==
    /\ Unset # "classic" /\ Unset # "vmu" /\ Unset # "acq" /\ Unset # "upi"
    /\ \A x \in LevelNames : Unset # x
<1>1. Unset # "classic" /\ Unset # "vmu" /\ Unset # "acq" /\ Unset # "upi"
  BY Zenon DEF Unset
<1>2. \A x \in LevelNames : Unset # x
  BY Zenon DEF Unset, LevelNames
<1> QED
  BY <1>1, <1>2

\* A level stands for other ones, none of them empty unless it is.
LEMMA LevelMembers ==
    ASSUME NEW x
    PROVE  /\ DOMAIN Members(x) = 1 .. Len(Members(x)) /\ Len(Members(x)) \in Nat
           /\ Members(Unset) = <<Unset>>
           /\ x # Unset => \A i \in DOMAIN Members(x) :
                           /\ Members(x)[i] # Unset
                           /\ Members(x)[i] = "upi" => x = "upi"
           /\ \A i \in DOMAIN Members(x) : Members(x)[i] \in {x} \cup LevelNames
<1>0. Members(Unset) = <<Unset>>
  BY UnsetLevel DEF Members
<1> DEFINE ms == Members(x)
           Good(y) == y # Unset /\ (y = "upi" => x = "upi")
<1>1. CASE x \in {"classic", "vmu", "acq"}
  <2>1. PICK a, b, c, d : /\ ms = <<a, b, c, d>>
                               /\ Good(a) /\ Good(b) /\ Good(c) /\ Good(d)
                               /\ {a, b, c, d} \subseteq LevelNames
    <3>1. CASE x = "classic"
      <4>1. ms = <<"instance", "type", "mode", "source">>
        BY <3>1 DEF Members, Classic
      <4>2. Good("instance") /\ Good("type") /\ Good("mode") /\ Good("source")
        BY UnsetLevel DEF LevelNames
      <4>3. {"instance", "type", "mode", "source"} \subseteq LevelNames
        BY DEF LevelNames
      <4> HIDE DEF Good, ms
      <4> QED
        BY <4>1, <4>2, <4>3
    <3>2. CASE x # "classic"
      <4>1. ms = <<"year", "doy", "hour", "minute">>
        BY <1>1, <3>2 DEF Members, TimeLevel
      <4>2. Good("year") /\ Good("doy") /\ Good("hour") /\ Good("minute")
        BY UnsetLevel DEF LevelNames
      <4>3. {"year", "doy", "hour", "minute"} \subseteq LevelNames
        BY DEF LevelNames
      <4> HIDE DEF Good, ms
      <4> QED
        BY <4>1, <4>2, <4>3
    <3> QED
      BY <3>1, <3>2
  <2> HIDE DEF Good, ms
  <2>2. DOMAIN ms = 1 .. 4 /\ Len(ms) = 4
    BY ONLY <2>1
  <2>3. ms[1] = a /\ ms[2] = b /\ ms[3] = c /\ ms[4] = d
    BY ONLY <2>1
  <2>4. \A i \in 1 .. 4 : i = 1 \/ i = 2 \/ i = 3 \/ i = 4
    OBVIOUS
  <2>5. \A i \in DOMAIN ms : Good(ms[i]) /\ ms[i] \in LevelNames
    BY <2>1, <2>2, <2>3, <2>4
  <2>6. DOMAIN ms = 1 .. Len(ms) /\ Len(ms) \in Nat
    BY <2>2
  <2> QED
    BY <1>0, <2>5, <2>6 DEF Good, ms
<1>2. CASE x \notin {"classic", "vmu", "acq"}
  <2>1. ms = <<x>>
    BY <1>2 DEF Members
  <2> HIDE DEF ms
  <2>2. DOMAIN ms = 1 .. 1 /\ Len(ms) = 1 /\ ms[1] = x
    BY ONLY <2>1
  <2>3. \A i \in 1 .. 1 : i = 1
    OBVIOUS
  <2>4. \A i \in DOMAIN ms : ms[i] = x
    BY <2>2, <2>3
  <2>5. DOMAIN ms = 1 .. Len(ms) /\ Len(ms) \in Nat
    BY ONLY <2>2
  <2> QED
    BY <1>0, <2>4, <2>5, Zenon DEF ms
<1> QED
  BY <1>1, <1>2

\* A level is the same directories for both.
LEMMA SameDirs ==
    ASSUME NEW x, x # Unset, NEW t, NEW g, NEW m, NEW p, About(m, p), SameType(p),
           x = "upi" => SameName(p)
    PROVE  messageDirs(x, t, g, m) = packetDirs(x, t, g, p)
<1> DEFINE ms == Members(x)
           mt == MembersTime(x, t, Adjust(m.generated), m.acquired)
           pt == MembersTime(x, t, Adjust(p.vmu), p.acq)
<1>1. mt = pt
  BY DEF About
<1>2. ASSUME NEW i \in DOMAIN ms
      PROVE  messageDir(ms[i], mt, g, m) = packetDir(ms[i], pt, g, p)
  <2>1. ms[i] # Unset /\ (ms[i] = "upi" => SameName(p))
    BY <1>2, LevelMembers
  <2> HIDE DEF ms, mt, pt
  <2> QED
    BY <1>1, <2>1, SameDir
<1> HIDE DEF ms, mt, pt
<1>3. [i \in DOMAIN ms |-> messageDir(ms[i], mt, g, m)]
        = [i \in DOMAIN ms |-> packetDir(ms[i], pt, g, p)]
  BY <1>2
<1> QED
  BY <1>3 DEF ms, mt, pt, messageDirs, packetDirs

\* The forwarder makes no directory or one of a level, and several of some.
Dirs(X, t, g, m) ==
    {messageDir(x, u, g, m)[1] :
        x \in X \cup LevelNames, u \in {t, Adjust(m.generated), m.acquired}}

\* A level gives a path, of one directory or none.
LEMMA DirTyped ==
    ASSUME NEW X, NEW x \in X \cup LevelNames, NEW t, NEW g, NEW m,
           NEW u \in {t, Adjust(m.generated), m.acquired}
    PROVE  messageDir(x, u, g, m) \in Seq(Dirs(X, t, g, m))
<1> DEFINE d == messageDir(x, u, g, m)
           D == Dirs(X, t, g, m)
<1>1. d[1] \in D
  BY DEF Dirs
<1>2. d = <<>> \/ d = <<d[1]>>
  <2>1. ASSUME NEW y PROVE << y >> = << << y >>[1] >>
    OBVIOUS
  <2>2. CASE x \in ToSet(TimeLevel)
    <3>1. x = "year" \/ x = "doy" \/ x = "hour" \/ x = "minute"
      BY <2>2 DEF ToSet, TimeLevel
    <3>2. TimeDir(x, u, g) = <<>> \/ \E y : TimeDir(x, u, g) = <<y>>
      BY <3>1 DEF TimeDir
    <3>3. messageDir(x, u, g, m) = TimeDir(x, u, g)
      BY <2>2, <3>1 DEF messageDir
    <3> QED
      BY <2>1, <3>2, <3>3
  <2>3. CASE x \notin ToSet(TimeLevel)
    <3>1. d = <<>> \/ \E y : d = <<y>>
      BY <2>3 DEF messageDir
    <3> QED
      BY <2>1, <3>1
  <2> QED
    BY <2>2, <2>3
<1> HIDE DEF d, D
<1>3. d \in Seq(D)
  <2> DEFINE y == d[1]
  <2> HIDE DEF y
  <2>1. y \in D /\ (d = <<>> \/ d = <<y>>)
    BY <1>1, <1>2 DEF y
  <2>2. <<>> \in Seq(D) /\ <<y>> \in Seq(D)
    BY ONLY <2>1
  <2> QED
    BY <2>1, <2>2
<1> QED
  BY <1>3 DEF d, D

\* The levels that a level stands for give a path, an empty level an empty one.
LEMMA DirsTyped ==
    ASSUME NEW X, NEW x \in X, NEW t, NEW g, NEW m
    PROVE  /\ messageDirs(x, t, g, m) \in Seq(Dirs(X, t, g, m))
           /\ messageDirs(Unset, t, g, m) = <<>>
<1> DEFINE D == Dirs(X, t, g, m)
           ms == Members(x)
           u == MembersTime(x, t, Adjust(m.generated), m.acquired)
           f == [i \in DOMAIN ms |-> messageDir(ms[i], u, g, m)]
<1>1. u \in {t, Adjust(m.generated), m.acquired}
  BY DEF MembersTime
<1>2. DOMAIN ms = 1 .. Len(ms) /\ Len(ms) \in Nat /\ \A i \in DOMAIN ms : ms[i] \in X \cup LevelNames
  BY LevelMembers
<1>3. f \in Seq(Seq(D))
  <2>1. \A i \in DOMAIN ms : messageDir(ms[i], u, g, m) \in Seq(D)
    <3> HIDE DEF u, D, ms
    <3> QED
      BY <1>1, <1>2, DirTyped DEF D
  <2> DEFINE h(i) == messageDir(ms[i], u, g, m)
             n == Len(ms)
  <2>2. f = [i \in 1 .. n |-> h(i)] /\ n \in Nat /\ \A i \in 1 .. n : h(i) \in Seq(D)
    BY <1>2, <2>1
  <2> HIDE DEF h, D, n
  <2> QED
    BY ONLY <2>2
<1>4. messageDirs(x, t, g, m) = FlattenSeq(f)
  BY DEF messageDirs
<1>5. messageDirs(x, t, g, m) \in Seq(D)
  <2> HIDE DEF f, D
  <2>1. <<>> \in Seq(D)
    OBVIOUS
  <2> QED
    BY <1>3, <1>4, <2>1, FlattenAppend
<1>6. messageDirs(Unset, t, g, m) = <<>>
  <2> DEFINE w == MembersTime(Unset, t, Adjust(m.generated), m.acquired)
             e == [i \in DOMAIN Members(Unset) |-> messageDir(Members(Unset)[i], w, g, m)]
  <2>1. Members(Unset) = <<Unset>>
    BY LevelMembers
  <2>5. messageDirs(Unset, t, g, m) = FlattenSeq(e)
    BY DEF messageDirs
  <2> HIDE DEF w
  <2>2. messageDir(Unset, w, g, m) = <<>>
    <3>1. ASSUME NEW y, y = Unset PROVE messageDir(y, w, g, m) = <<>>
      <4>1. /\ y \notin {"upi", "instance", "type", "mode", "source"}
            /\ y \notin ToSet(TimeLevel)
        BY <3>1, UnsetLevel DEF LevelNames, ToSet, TimeLevel
      <4> QED
        BY <3>1, <4>1 DEF messageDir
    <3> QED
      BY <3>1
  <2>3. e = << <<>> >>
    <3>1. e = [i \in DOMAIN <<Unset>> |-> messageDir(<<Unset>>[i], w, g, m)]
      BY <2>1
    <3>2. DOMAIN <<Unset>> = 1 .. 1 /\ <<Unset>>[1] = Unset /\ \A i \in 1 .. 1 : i = 1
      OBVIOUS
    <3>3. e = [i \in 1 .. 1 |-> <<>>]
      BY <2>2, <3>1, <3>2
    <3>4. [i \in 1 .. 1 |-> <<>>] = << <<>> >>
      OBVIOUS
    <3> QED
      BY <3>3, <3>4
  <2>4. FlattenSeq(<< <<>> >>) = <<>>
    <3>1. << <<>> >> = Append(<<>>, <<>>) /\ <<>> \in Seq(Seq({})) /\ <<>> \in Seq({})
      OBVIOUS
    <3>2. FlattenSeq(Append(<<>>, <<>>)) = FlattenSeq(<<>>) \o <<>> /\ FlattenSeq(<<>>) = <<>>
      BY <3>1, FlattenAppend
    <3>3. <<>> \o <<>> = <<>>
      OBVIOUS
    <3> QED
      BY <3>1, <3>2, <3>3
  <2> QED
    BY <2>3, <2>4, <2>5
<1> QED
  BY <1>5, <1>6 DEF D

\* The store and the forwarder compute the same path, if nothing in it has other
\* names for the two.
LEMMA SamePath ==
    ASSUME NEW c \in Configs, NEW m, NEW p, About(m, p), SameConfig(c), SameType(p),
           "upi" \in ToSet(c.levels) => SameName(p)
    PROVE  Reference(c, m) = Directory(c, p)
<1> DEFINE ls == c.levels
           g == c.interval
           mt == IF c.time = "acq" THEN m.acquired ELSE Adjust(m.generated)
           pt == IF c.time \in {"vmu", Unset} THEN Adjust(p.vmu) ELSE p.acq
           vs == FlattenSeq(Chosen(ls, Unset))
<1>1. mt = pt
  <2>1. m.acquired = p.acq /\ m.generated = p.vmu
    BY DEF About
  <2>2. c.time \in {"vmu", "acq", Unset} /\ Unset # "acq"
    BY UnsetLevel DEF SameConfig
  <2> QED
    BY <2>1, <2>2
<1>2. ls \in Seq(ToSet(ls)) /\ DOMAIN ls = 1 .. Len(ls) /\ Len(ls) \in Nat
  <2>1. ls \in Seq(STRING)
    BY ForwardAssumption
  <2> HIDE DEF ls
  <2>2. ls = [n \in 1 .. Len(ls) |-> ls[n]] /\ Len(ls) \in Nat /\ DOMAIN ls = 1 .. Len(ls)
    BY <2>1
  <2>3. \A n \in 1 .. Len(ls) : ls[n] \in ToSet(ls)
    BY <2>2 DEF ToSet
  <2> DEFINE T == ToSet(ls)
  <2> HIDE DEF T
  <2>4. ls \in Seq(T)
    BY <2>2, <2>3 DEF T
  <2> QED
    BY <2>2, <2>4 DEF T
<1>3. checkLevels(ls) = IF vs = <<>> THEN DefaultLevels ELSE vs
  BY DEF checkLevels, Chosen
<1>4. /\ Reference(c, m) = prepareReference(forwarderLevels(ls), m, g, mt)
      /\ Directory(c, p) = prepareDirectory(checkLevels(ls), g, p, pt)
  BY DEF Reference, Directory
<1>5. "upi" \in ToSet(ls) => SameName(p)
  OBVIOUS
<1>6. ls = <<>> \/ \E n \in DOMAIN ls : ls[n] # Unset
  BY DEF SameConfig
<1> DEFINE X == ToSet(ls)
           F == [l \in X |-> messageDirs(l, mt, g, m)]
           D == Dirs(X, mt, g, m)
<1> HIDE DEF ls, g, mt, pt
<1>7. ASSUME NEW l, l # Unset, l = "upi" => SameName(p)
      PROVE  messageDirs(l, mt, g, m) = packetDirs(l, pt, g, p)
  BY <1>1, <1>7, SameDirs
<1>8. /\ F \in [X -> Seq(D)]
      /\ Unset \in X => F[Unset] = <<>>
  <2>1. ASSUME NEW l \in X PROVE messageDirs(l, mt, g, m) \in Seq(D)
    <3> HIDE DEF X
    <3> QED
      BY DirsTyped DEF D
  <2>2. ASSUME NEW l \in X, l = Unset PROVE messageDirs(l, mt, g, m) = <<>>
    <3> HIDE DEF X, D
    <3> QED
      BY <2>2, DirsTyped
  <2> HIDE DEF X, D
  <2> QED
    BY <2>1, <2>2
<1>9. /\ vs \in Seq(X \ {Unset})
      /\ vs = <<>> => \A n \in DOMAIN ls : ls[n] = Unset
      /\ FlattenSeq(Mapped(F, ls)) = FlattenSeq(Mapped(F, vs))
  <2> HIDE DEF X, D, F
  <2>1. ls \in Seq(X)
    BY <1>2 DEF X
  <2>2. SameWithout(X, F, ls, Unset)
    BY ONLY <1>8, <2>1, FlattenChosen
  <2> QED
    BY <2>2 DEF SameWithout
<1>10. CASE ls = <<>>
  <2>1. vs = <<>>
    <3>1. Chosen(ls, Unset) = <<>>
      BY <1>10 DEF Chosen
    <3>2. FlattenSeq(<<>>) = <<>>
      <4>1. <<>> \in Seq(Seq({})) /\ <<>> \in Seq({})
        OBVIOUS
      <4> QED
        BY <4>1, FlattenAppend
    <3> QED
      BY <3>1, <3>2
  <2>2. checkLevels(ls) = DefaultLevels /\ forwarderLevels(ls) = DefaultLevels
    BY <1>3, <1>10, <2>1 DEF forwarderLevels
  <2>3. \A n \in DOMAIN DefaultLevels : DefaultLevels[n] \in {"classic", "vmu"}
    <3>1. /\ DOMAIN DefaultLevels = 1 .. 2
          /\ DefaultLevels[1] = "classic" /\ DefaultLevels[2] = "vmu"
      BY DEF DefaultLevels
    <3>2. \A n \in 1 .. 2 : n = 1 \/ n = 2
      OBVIOUS
    <3> QED
      BY <3>1, <3>2
  <2>4. \A n \in DOMAIN DefaultLevels :
            messageDirs(DefaultLevels[n], mt, g, m) = packetDirs(DefaultLevels[n], pt, g, p)
    BY <1>7, <2>3, UnsetLevel
  <2>5. prepareReference(DefaultLevels, m, g, mt) = prepareDirectory(DefaultLevels, g, p, pt)
    BY <2>4 DEF prepareReference, prepareDirectory
  <2> QED
    BY <1>4, <2>2, <2>5
<1>11. CASE ls # <<>>
  <2>1. vs # <<>>
    BY <1>6, <1>9, <1>11
  <2>2. checkLevels(ls) = vs /\ forwarderLevels(ls) = ls
    BY <1>3, <1>11, <2>1 DEF forwarderLevels
  <2> HIDE DEF vs
  <2>3. \A n \in DOMAIN ls : ls[n] \in X
    BY <1>2
  <2>4. \A n \in DOMAIN vs : vs[n] \in X /\ vs[n] # Unset
    <3> DEFINE Y == X \ {Unset}
    <3>1. \A y \in Y : y \in X /\ y # Unset
      OBVIOUS
    <3>2. vs \in Seq(Y)
      BY <1>9
    <3> HIDE DEF Y
    <3>3. \A n \in DOMAIN vs : vs[n] \in Y
      BY <3>2
    <3> QED
      BY <3>1, <3>3
  <2>5. Mapped(F, ls) = [n \in DOMAIN ls |-> messageDirs(ls[n], mt, g, m)]
    BY <2>3 DEF Mapped
  <2>6. Mapped(F, vs) = [n \in DOMAIN vs |-> packetDirs(vs[n], pt, g, p)]
    <3>1. ASSUME NEW n \in DOMAIN vs PROVE F[vs[n]] = packetDirs(vs[n], pt, g, p)
      <4>1. vs[n] \in X /\ vs[n] # Unset /\ (vs[n] = "upi" => SameName(p))
        BY <1>5, <2>4
      <4>2. messageDirs(vs[n], mt, g, m) = packetDirs(vs[n], pt, g, p)
        BY <1>7, <4>1
      <4> HIDE DEF X
      <4> QED
        BY <4>1, <4>2
    <3> HIDE DEF F
    <3> QED
      BY <3>1 DEF Mapped
  <2>7. prepareReference(ls, m, g, mt) = FlattenSeq(Mapped(F, ls))
    BY <2>5 DEF prepareReference
  <2>8. prepareDirectory(vs, g, p, pt) = FlattenSeq(Mapped(F, vs))
    BY <2>6 DEF prepareDirectory
  <2> HIDE DEF F
  <2> QED
    BY <1>4, <1>9, <2>2, <2>7, <2>8
<1> QED
  BY <1>10, <1>11

-----------------------------------------------------------------------------
(* The forwarder. *)

\* The reference is a sequence of directories.
LEMMA ReferenceTyped ==
    ASSUME NEW c \in Configs, NEW m
    PROVE  \E U : Reference(c, m) \in Seq(U)
<1> DEFINE ls == forwarderLevels(c.levels)
           g == c.interval
           t == IF c.time = "acq" THEN m.acquired ELSE Adjust(m.generated)
           X == {ls[n] : n \in DOMAIN ls}
           D == Dirs(X, t, g, m)
           f == [n \in DOMAIN ls |-> messageDirs(ls[n], t, g, m)]
<1>1. Reference(c, m) = FlattenSeq(f)
  BY DEF Reference, prepareReference
<1>2. DOMAIN ls = 1 .. Len(ls) /\ Len(ls) \in Nat
  <2> DEFINE k == c.levels
  <2>1. k \in Seq(STRING)
    BY ForwardAssumption
  <2> HIDE DEF k
  <2>2. DOMAIN k = 1 .. Len(k) /\ Len(k) \in Nat
    BY <2>1
  <2>3. DOMAIN DefaultLevels = 1 .. Len(DefaultLevels) /\ Len(DefaultLevels) \in Nat
    BY DEF DefaultLevels
  <2>4. forwarderLevels(k) = k \/ forwarderLevels(k) = DefaultLevels
    BY DEF forwarderLevels
  <2>5. ls = forwarderLevels(k)
    BY DEF k
  <2> QED
    BY <2>2, <2>3, <2>4, <2>5
<1> HIDE DEF ls, g, t
<1>3. \A n \in DOMAIN ls : messageDirs(ls[n], t, g, m) \in Seq(D)
  <2>1. \A n \in DOMAIN ls : ls[n] \in X
    OBVIOUS
  <2> HIDE DEF X
  <2> QED
    BY <2>1, DirsTyped DEF D
<1>4. f \in Seq(Seq(D))
  <2> DEFINE h(n) == messageDirs(ls[n], t, g, m)
             e == Len(ls)
  <2>1. f = [n \in 1 .. e |-> h(n)] /\ e \in Nat /\ \A n \in 1 .. e : h(n) \in Seq(D)
    BY <1>2, <1>3
  <2> HIDE DEF h, D, e
  <2> QED
    BY ONLY <2>1
<1>5. FlattenSeq(f) \in Seq(D)
  <2> HIDE DEF f, D
  <2>1. <<>> \in Seq(D)
    OBVIOUS
  <2> QED
    BY <1>4, <2>1, FlattenAppend
<1> QED
  BY <1>1, <1>5

\* A message or set of parameters n is about the packet p, and its reference is
\* the path of p as the forwarder computes it.
RefersTo(n, p) ==
    /\ n.realtime = p.realtime /\ n.origin = p.origin /\ n.instance = p.instance
    /\ n.sequence = p.seq
    /\ \E m : About(m, p) /\ n.reference = Append(Reference(config, m), p.name)

Refers(n) == \E p \in stored : RefersTo(n, p)

\* What the readers hold, what is queued and what was written refers to packets
\* that were stored.
Carried ==
    /\ config \in Configs
    /\ held = [g \in Groups |-> held[g]]
    /\ \A g \in Groups : \A n \in held[g] : Refers(n)
    /\ \E S : fq \in Seq(S) /\ \A n \in S : Refers(n)
    /\ \A n \in params : Refers(n)

\* The forwarder starts with nothing.
LEMMA InitCarried == Init => Carried
<1> SUFFICES ASSUME Init PROVE Carried
  OBVIOUS
<1>1. /\ config \in Configs /\ held = [g \in Groups |-> {}] /\ fq = <<>> /\ params = {}
  BY DEF Init, FwdInit
<1>2. fq \in Seq({}) /\ \A n \in {} : Refers(n)
  BY <1>1
<1>3. \E S : fq \in Seq(S) /\ \A n \in S : Refers(n)
  BY ONLY <1>2
<1>4. held = [g \in Groups |-> held[g]] /\ \A g \in Groups : held[g] = {}
  BY <1>1
<1> QED
  BY <1>1, <1>3, <1>4 DEF Carried

\* References stay true when more packets are stored.
LEMMA RefersStays ==
    ASSUME NEW n, Refers(n), stored \subseteq stored', config' = config
    PROVE  Refers(n)'
<1>1. PICK p \in stored : RefersTo(n, p)
  BY DEF Refers
<1>2. RefersTo(n, p)'
  <2>1. PICK m : About(m, p) /\ n.reference = Append(Reference(config, m), p.name)
    BY <1>1 DEF RefersTo
  <2>2. Reference(config', m) = Reference(config, m)
    OBVIOUS
  <2>3. \E k : About(k, p) /\ n.reference = Append(Reference(config', k), p.name)
    BY <2>1, <2>2
  <2> QED
    BY <1>1, <2>3 DEF RefersTo
<1> QED
  BY <1>1, <1>2 DEF Refers

\* A reader takes a notification and replaces its reference.
LEMMA ReadRefers ==
    ASSUME Sent, NEW g \in Groups, NEW d \in inbox[g]
    PROVE  Refers([DecodeMessage(d) EXCEPT !.reference = Prepare(DecodeMessage(d))])
<1>1. PICK m : d = Encode(m) /\ \E p \in stored : About(m, p)
  BY DEF Sent
<1>2. PICK p \in stored : About(m, p)
  BY <1>1
<1> DEFINE e == DecodeMessage(d)
           n == [e EXCEPT !.reference = Prepare(e)]
<1>3. e = [origin |-> m.origin, sequence |-> m.sequence, instance |-> m.instance,
           channel |-> m.channel, realtime |-> m.realtime, count |-> m.count,
           elapsed |-> m.elapsed, generated |-> m.generated, acquired |-> m.acquired,
           reference |-> m.reference, upi |-> m.upi]
  BY <1>1, Decoded
<1> HIDE DEF e
<1>4. About(e, p) /\ e.reference = p.name
  BY <1>2, <1>3 DEF About
<1>5. n.reference = Append(Reference(config, e), p.name)
  <2>1. Prepare(e) = Append(Reference(config, e), p.name)
    BY <1>4 DEF Prepare
  <2>2. n.reference = Prepare(e)
    BY <1>3
  <2> QED
    BY <2>1, <2>2
<1>6. n.realtime = e.realtime /\ n.origin = e.origin /\ n.instance = e.instance
      /\ n.sequence = e.sequence
  BY <1>3
<1>7. n.realtime = p.realtime /\ n.origin = p.origin /\ n.instance = p.instance
      /\ n.sequence = p.seq
  BY <1>4, <1>6 DEF About
<1> HIDE DEF n
<1>8. RefersTo(n, p)
  BY <1>4, <1>5, <1>7 DEF RefersTo
<1> QED
  BY <1>8 DEF Refers, n, e

\* A step of the pool or of the forwarder keeps what it carries.
LEMMA NextCarried == Pooled /\ Sent /\ Carried /\ [Next]_vars => Carried'
<1> SUFFICES ASSUME Pooled, Sent, Carried, [Next]_vars PROVE Carried'
  OBVIOUS
<1>0. /\ config \in Configs
      /\ held = [g \in Groups |-> held[g]]
      /\ \A g \in Groups : \A n \in held[g] : Refers(n)
      /\ \A n \in params : Refers(n)
  BY DEF Carried
<1>s. PICK S : fq \in Seq(S) /\ \A n \in S : Refers(n)
  BY DEF Carried
<1>1. ASSUME stored \subseteq stored', UNCHANGED <<config, held, fq, params>> PROVE Carried'
  <2>1. \A n : Refers(n) => Refers(n)'
    BY <1>1, RefersStays
  <2> QED
    BY <1>0, <1>1, <1>s, <2>1 DEF Carried
<1>2. CASE PoolNext /\ UNCHANGED <<fwdVars, monVars>>
  <2>1. stored \subseteq stored'
    BY <1>2 DEF PoolNext, NotifyQueue, NotifyDrop, CachePacket, Tick, Summarize, Post
  <2> QED
    BY <1>1, <1>2, <2>1
<1>3. CASE MonNext /\ UNCHANGED <<poolVars, fwdVars>>
  BY <1>1, <1>3
<1>4. CASE Quiet \/ UNCHANGED vars
  BY <1>1, <1>4 DEF Quiet, vars
<1>5. ASSUME FwdNext, UNCHANGED poolVars PROVE Carried'
  <2>0. stored' = stored /\ config' = config
    BY <1>5 DEF FwdNext, Subscribe, SubscribeFail, ReadNotification, Enqueue, EnqueueClosed, WriteParams
  <2>1. \A n : Refers(n) => Refers(n)'
    BY <2>0, RefersStays
  <2>2. ASSUME NEW g \in Groups, NEW d \in inbox[g], ReadNotification(g, d) PROVE Carried'
    <3> DEFINE n == [DecodeMessage(d) EXCEPT !.reference = Prepare(DecodeMessage(d))]
    <3>1. held' = [held EXCEPT ![g] = {n}] /\ UNCHANGED <<fq, params>>
      BY <2>2 DEF ReadNotification
    <3>2. Refers(n)
      BY ReadRefers
    <3> HIDE DEF n
    <3>3. /\ held' = [h \in Groups |-> held'[h]]
          /\ \A h \in Groups : held'[h] = IF h = g THEN {n} ELSE held[h]
      BY <1>0, <3>1
    <3>4. \A h \in Groups : \A k \in held'[h] : Refers(k)'
      BY <1>0, <2>1, <3>2, <3>3
    <3> QED
      BY <1>0, <1>s, <2>0, <2>1, <3>1, <3>3, <3>4 DEF Carried
  <2>3. ASSUME NEW g \in Groups, Enqueue(g) PROVE Carried'
    <3>1. PICK n \in held[g] : fq' = Append(fq, n)
      BY <2>3 DEF Enqueue
    <3>2. held' = [held EXCEPT ![g] = {}] /\ params' = params
      BY <2>3 DEF Enqueue
    <3>3. Refers(n)
      BY <1>0, <3>1
    <3>4. /\ held' = [h \in Groups |-> held'[h]]
          /\ \A h \in Groups : held'[h] \subseteq held[h]
      BY <1>0, <3>2
    <3> DEFINE T == S \cup {n}
    <3>5. fq \in Seq(S) /\ n \in T /\ S \subseteq T /\ \A k \in T : Refers(k)
      BY <1>s, <3>3
    <3> HIDE DEF T
    <3>6. fq' \in Seq(T)
      BY <3>1, <3>5
    <3>7. \A h \in Groups : \A k \in held'[h] : Refers(k)'
      BY <1>0, <2>1, <3>4
    <3> QED
      BY <1>0, <2>0, <2>1, <3>2, <3>4, <3>5, <3>6, <3>7 DEF Carried
  <2>4. CASE WriteParams
    <3> DEFINE m == Head(fq)
               n == marshal(m, num')
    <3>1. /\ fq # <<>> /\ fq' = Tail(fq) /\ held' = held
          /\ params' = params \cup {n} \/ params' = params
      BY <2>4 DEF WriteParams, connWrite
    <3>2. m \in S /\ fq' \in Seq(S)
      BY <1>s, <3>1
    <3>3. Refers(m)
      BY <1>s, <3>2
    <3>4. Refers(n)
      <4>1. n.realtime = m.realtime /\ n.origin = m.origin /\ n.instance = m.instance
            /\ n.sequence = m.sequence /\ n.reference = m.reference
        BY DEF marshal
      <4> HIDE DEF n, m
      <4>2. PICK p \in stored : RefersTo(m, p)
        BY <3>3 DEF Refers
      <4>3. RefersTo(n, p)
        BY <4>1, <4>2 DEF RefersTo
      <4> QED
        BY <4>3 DEF Refers
    <3> HIDE DEF m, n
    <3>5. \A k \in params' : Refers(k)'
      BY <1>0, <2>1, <3>1, <3>4
    <3> QED
      BY <1>0, <1>s, <2>0, <2>1, <3>1, <3>2, <3>5 DEF Carried
  <2>5. CASE UNCHANGED <<held, fq, params>>
    BY <1>1, <2>0, <2>5
  <2> QED
    BY <1>5, <2>2, <2>3, <2>4, <2>5 DEF FwdNext, Subscribe, SubscribeFail, EnqueueClosed
<1> QED
  BY <1>2, <1>3, <1>4, <1>5 DEF Next

\* The reference that the forwarder writes is the path under which the store has
\* the packet: the summary of a batch, the encoding of the datagram and
\* the second computation of the path, empty levels and all, do not change it.
THEOREM ReferencesStored == Spec => []ReferenceStored
<1>1. Init => Pooled /\ Sent /\ Carried
  BY InitPooled, InitSent, InitCarried
<1>2. Pooled /\ Sent /\ Carried /\ [Next]_vars => (Pooled /\ Sent /\ Carried)'
  BY NextPooled, NextSent, NextCarried
<1>3. Carried => ReferenceStored
  <2> SUFFICES ASSUME Carried, NEW n \in params
               PROVE  \E p \in stored :
                          /\ p.name = Last(n.reference)
                          /\ KeyOf(p) = <<n.realtime, n.origin, n.instance>>
                          /\ p.seq = n.sequence
                          /\ SameConfig(config) /\ SameType(p)
                             /\ ("upi" \in ToSet(config.levels) => SameName(p))
                                => n.reference = Path(p)
    BY DEF ReferenceStored
  <2>1. PICK p \in stored : RefersTo(n, p)
    BY DEF Carried, Refers
  <2>2. PICK m : About(m, p) /\ n.reference = Append(Reference(config, m), p.name)
    BY <2>1 DEF RefersTo
  <2>3. config \in Configs
    BY DEF Carried
  <2>4. p.name = Last(n.reference)
    <3>1. PICK U : Reference(config, m) \in Seq(U)
      BY <2>3, ReferenceTyped
    <3> DEFINE r == Reference(config, m)
               x == p.name
    <3> HIDE DEF r, x
    <3>2. Last(Append(r, x)) = x
      BY <3>1 DEF Last, r
    <3> QED
      BY <2>2, <3>2 DEF r, x
  <2>5. KeyOf(p) = <<n.realtime, n.origin, n.instance>> /\ p.seq = n.sequence
    BY <2>1 DEF RefersTo, KeyOf
  <2>6. ASSUME SameConfig(config), SameType(p), "upi" \in ToSet(config.levels) => SameName(p)
        PROVE  n.reference = Path(p)
    <3>1. Reference(config, m) = Directory(config, p)
      BY <2>2, <2>3, <2>6, SamePath
    <3> QED
      BY <2>2, <3>1 DEF Path
  <2> QED
    BY <2>4, <2>5, <2>6
<1> QED
  BY <1>1, <1>2, <1>3, PTL DEF Spec

=============================================================================
