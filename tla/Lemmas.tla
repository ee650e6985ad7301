------------------------------- MODULE Lemmas -------------------------------
(***************************************************************************)
(* Facts that the proofs about several components use: induction over the  *)
(* natural numbers, in terms of sets, the largest and the least element of *)
(* a set of numbers, the sum of a sequence as FoldLeft computes it, what   *)
(* the binary search finds, the sequence that FlattenSeq joins, and what   *)
(* Only leaves of a list.                                                  *)
(***************************************************************************)
EXTENDS Search, Lists, Integers, SequencesExt, FiniteSetsExt, WellFoundedInduction, TLAPS

-----------------------------------------------------------------------------
(* Natural numbers. *)

\* A set of natural numbers has a least element.
LEMMA LeastElement ==
    ASSUME NEW T, T \subseteq Nat, T # {}
    PROVE  \E x \in T : \A y \in T : x <= y
<1> DEFINE R == OpToRel(<, Nat)
<1>1. IsWellFoundedOn(R, Nat)
  BY NatLessThanWellFounded
<1>2. PICK x \in T : \A y \in T : ~(<<y, x>> \in R)
  <2> HIDE DEF R
  <2> QED
    BY <1>1, WFMin
<1>3. \A a, b \in Nat : a < b => <<a, b>> \in R
  BY DEF OpToRel
<1>4. \A y \in T : x <= y
  <2> TAKE y \in T
  <2>1. x \in Nat /\ y \in Nat
    OBVIOUS
  <2>2. ~(<<y, x>> \in R)
    BY <1>2
  <2>3. ~(y < x)
    <3> HIDE DEF R
    <3> QED
      BY <1>3, <2>1, <2>2
  <2> QED
    BY <2>1, <2>3
<1> QED
  BY <1>4

\* Induction: a set with 0 and the successor of each of its elements up to n
\* has all numbers up to n.
LEMMA Induct ==
    ASSUME NEW n \in Nat, NEW S, 0 \in S, \A i \in 0 .. n - 1 : i \in S => i + 1 \in S
    PROVE  \A i \in 0 .. n : i \in S
<1> DEFINE T == (0 .. n) \ S
<1> SUFFICES ASSUME T # {} PROVE FALSE
  OBVIOUS
<1>1. T \subseteq Nat
  OBVIOUS
<1>2. PICK x \in T : \A y \in T : x <= y
  <2> HIDE DEF T
  <2> QED
    BY <1>1, LeastElement
<1>3. x \in 1 .. n /\ x - 1 \in 0 .. n - 1 /\ x \notin S
  BY <1>2
<1>4. x - 1 \in S
  <2>1. ~(x <= x - 1) /\ x - 1 \in 0 .. n
    BY <1>3
  <2> QED
    BY <1>2, <2>1
<1> QED
  BY <1>3, <1>4

\* The largest element of a bounded set.
LEMMA Largest ==
    ASSUME NEW n \in Nat, NEW T, T \subseteq 1 .. n, T # {}
    PROVE  Max(T) \in T /\ \A y \in T : y <= Max(T)
<1> DEFINE U == {u \in Nat : \A y \in T : y <= u}
<1>1. U \subseteq Nat /\ n \in U
  OBVIOUS
<1>2. PICK u \in U : \A y \in U : u <= y
  <2> HIDE DEF U
  <2> QED
    BY <1>1, LeastElement
<1>3. u \in T
  <2> SUFFICES ASSUME u \notin T PROVE FALSE
    OBVIOUS
  <2>1. PICK t \in T : TRUE
    OBVIOUS
  <2>2. u - 1 \in U
    BY <2>1
  <2> QED
    BY <1>2, <2>2
<1>4. \E x \in T : \A y \in T : x >= y
  BY <1>3
<1>5. Max(T) \in T /\ \A y \in T : Max(T) >= y
  BY <1>4 DEF Max
<1> QED
  BY <1>5

\* It is the bound if that is an element.
LEMMA LargestIs ==
    ASSUME NEW m \in Nat, NEW T, T \subseteq 1 .. m, m \in T
    PROVE  Max(T) = m
<1>1. Max(T) \in T /\ m <= Max(T)
  BY Largest
<1>2. Max(T) \in 1 .. m
  BY <1>1
<1> QED
  BY ONLY <1>1, <1>2, m \in Nat

\* The numbers up to k are k and the numbers before it.
LEMMA Initial ==
    ASSUME NEW k \in Nat, k # 0
    PROVE  /\ k \in 1 .. k
           /\ Max(1 .. k) = k
           /\ (1 .. k) \ {k} = 1 .. k - 1
<1>1. k \in 1 .. k
  OBVIOUS
<1> QED
  BY <1>1, LargestIs

\* Two sequences with the same elements.
LEMMA SameSeq ==
    ASSUME NEW S, NEW a \in Seq(S), NEW b \in Seq(S), Len(a) = Len(b),
           \A n \in 1 .. Len(a) : a[n] = b[n]
    PROVE  a = b
<1>1. DOMAIN a = 1 .. Len(a) /\ DOMAIN b = 1 .. Len(b)
  OBVIOUS
<1>2. a = [n \in 1 .. Len(a) |-> a[n]] /\ b = [n \in 1 .. Len(b) |-> b[n]]
  BY <1>1
<1>3. [n \in 1 .. Len(a) |-> a[n]] = [n \in 1 .. Len(a) |-> b[n]]
  OBVIOUS
<1> QED
  BY ONLY <1>2, <1>3, Len(a) = Len(b), Zenon

-----------------------------------------------------------------------------
(* The sum of a sequence. *)

Sum(s) == FoldLeft(LAMBDA x, y : x + y, 0, s)

\* What the fold iterates, over subsets of the first n elements of s.
Adds(f, s, n) ==
    f = [T \in SUBSET (1 .. n) |->
            IF T = {} THEN 0 ELSE f[T \ {Max(T)}] + s[Max(T)]]

\* There is such a function.
LEMMA AddsExists ==
    ASSUME NEW s \in Seq(Nat)
    PROVE  \E f \in [SUBSET (1 .. Len(s)) -> Nat] : Adds(f, s, Len(s))
<1> DEFINE S == {n \in 0 .. Len(s) : \E f \in [SUBSET (1 .. n) -> Nat] : Adds(f, s, n)}
<1>1. 0 \in S
  <2>1. SUBSET (1 .. 0) = {{}}
    OBVIOUS
  <2> DEFINE f == [T \in SUBSET (1 .. 0) |-> 0]
  <2>2. f \in [SUBSET (1 .. 0) -> Nat]
    OBVIOUS
  <2>3. f = [T \in SUBSET (1 .. 0) |-> IF T = {} THEN 0 ELSE f[T \ {Max(T)}] + s[Max(T)]]
    BY <2>1
  <2>4. Adds(f, s, 0) /\ 0 \in 0 .. Len(s)
    BY <2>3 DEF Adds
  <2> HIDE DEF f
  <2> QED
    BY <2>2, <2>4
<1>2. ASSUME NEW n \in 0 .. Len(s) - 1, n \in S PROVE n + 1 \in S
  <2>1. PICK f \in [SUBSET (1 .. n) -> Nat] : Adds(f, s, n)
    BY <1>2
  <2> DEFINE m == n + 1
             g == [T \in SUBSET (1 .. m) |-> IF m \in T THEN f[T \ {m}] + s[m] ELSE f[T]]
  <2>2. \A T \in SUBSET (1 .. m) : T \ {m} \in SUBSET (1 .. n)
    OBVIOUS
  <2>3. \A T \in SUBSET (1 .. m) : m \notin T => T \in SUBSET (1 .. n)
    OBVIOUS
  <2>4. s[m] \in Nat /\ m \in Nat
    OBVIOUS
  <2>5. g \in [SUBSET (1 .. m) -> Nat]
    <3> HIDE DEF m
    <3> QED
      BY <2>2, <2>3, <2>4
  <2>6. ASSUME NEW T \in SUBSET (1 .. m)
        PROVE  g[T] = IF T = {} THEN 0 ELSE g[T \ {Max(T)}] + s[Max(T)]
    <3>1. CASE T = {}
      BY <3>1, <2>1 DEF Adds
    <3>2. CASE m \in T
      <4>2. Max(T) = m
        <5> HIDE DEF m
        <5> QED
          BY <3>2, <2>4, LargestIs
      <4>3. m \notin T \ {m} /\ T \ {m} \in SUBSET (1 .. m)
        OBVIOUS
      <4> HIDE DEF m
      <4> QED
        BY <3>2, <4>2, <4>3
    <3>3. CASE m \notin T /\ T # {}
      <4>1. T \in SUBSET (1 .. n)
        BY <3>3, <2>3
      <4>2. f[T] = f[T \ {Max(T)}] + s[Max(T)]
        BY <2>1, <3>3, <4>1 DEF Adds
      <4>3. m \notin T \ {Max(T)} /\ T \ {Max(T)} \in SUBSET (1 .. m)
        BY <3>3
      <4> HIDE DEF m
      <4> QED
        BY <3>3, <4>2, <4>3
    <3> QED
      BY <3>1, <3>2, <3>3
  <2>7. Adds(g, s, m)
    <3> HIDE DEF m
    <3>1. g = [T \in SUBSET (1 .. m) |-> g[T]]
      OBVIOUS
    <3> HIDE DEF g
    <3> QED
      BY <2>6, <3>1 DEF Adds
  <2>8. m \in 0 .. Len(s)
    OBVIOUS
  <2> HIDE DEF m, g
  <2> QED
    BY <2>5, <2>7, <2>8 DEF m
<1>3. \A i \in 0 .. Len(s) : i \in S
  <2> HIDE DEF S
  <2>1. Len(s) \in Nat
    OBVIOUS
  <2> QED
    BY <1>1, <1>2, <2>1, Induct
<1>4. Len(s) \in S
  <2> HIDE DEF S
  <2>1. Len(s) \in 0 .. Len(s)
    OBVIOUS
  <2> QED
    BY <1>3, <2>1, Zenon
<1> QED
  BY <1>4

\* It is the one that the fold uses.
LEMMA SumAdds ==
    ASSUME NEW s \in Seq(Nat)
    PROVE  \E f : Adds(f, s, Len(s)) /\ Sum(s) = f[1 .. Len(s)]
<1>1. PICK f : Adds(f, s, Len(s))
  BY AddsExists
<1>2. DOMAIN s = 1 .. Len(s)
  OBVIOUS
<1>3. Sum(s) = (CHOOSE g : Adds(g, s, Len(s)))[1 .. Len(s)]
  BY <1>2, Zenon DEF Sum, FoldLeft, MapThenFoldSet, Adds
<1>4. Adds(CHOOSE g : Adds(g, s, Len(s)), s, Len(s))
  BY <1>1, Zenon
<1> QED
  BY <1>3, <1>4, Zenon

SameFirst(s, t, k) == \A i \in 1 .. k : s[i] = t[i]

\* Two such functions agree on the initial segments, if the sequences do.
LEMMA AddsAgree ==
    ASSUME NEW s, NEW t, NEW m \in Nat, NEW n \in Nat, NEW f, NEW g,
           Adds(f, s, m), Adds(g, t, n), NEW k \in Nat, k <= m, k <= n,
           SameFirst(s, t, k)
    PROVE  f[1 .. k] = g[1 .. k]
<1> DEFINE S == {i \in 0 .. k : f[1 .. i] = g[1 .. i]}
<1>1. 0 \in S
  <2>1. 1 .. 0 = {} /\ {} \in SUBSET (1 .. m) /\ {} \in SUBSET (1 .. n)
    OBVIOUS
  <2>2. f[{}] = 0 /\ g[{}] = 0
    BY <2>1 DEF Adds
  <2> QED
    BY <2>1, <2>2
<1>2. ASSUME NEW i \in 0 .. k - 1, i \in S PROVE i + 1 \in S
  <2> DEFINE j == i + 1
  <2>1. j \in Nat /\ j # 0 /\ j - 1 = i
    OBVIOUS
  <2>2. j \in 1 .. j /\ Max(1 .. j) = j /\ (1 .. j) \ {j} = 1 .. i
    BY <2>1, Initial
  <2>3. 1 .. j # {} /\ 1 .. j \in SUBSET (1 .. m) /\ 1 .. j \in SUBSET (1 .. n)
    OBVIOUS
  <2>5. f[1 .. j] = f[1 .. i] + s[j] /\ g[1 .. j] = g[1 .. i] + t[j]
    <3> HIDE DEF j
    <3> QED
      BY <2>2, <2>3 DEF Adds
  <2>6. f[1 .. i] = g[1 .. i] /\ s[j] = t[j] /\ j \in 0 .. k
    BY <1>2 DEF SameFirst
  <2> QED
    BY <2>5, <2>6
<1>3. \A i \in 0 .. k : i \in S
  <2> HIDE DEF S
  <2> QED
    BY <1>1, <1>2, Induct
<1>4. k \in S
  BY <1>3
<1> QED
  BY <1>4

\* The sum of the first elements of a sequence, and of one more.
LEMMA SumFirst ==
    ASSUME NEW s \in Seq(Nat)
    PROVE  /\ Sum(SubSeq(s, 1, 0)) = 0
           /\ \A k \in 0 .. Len(s) : Sum(SubSeq(s, 1, k)) \in Nat
           /\ \A k \in 1 .. Len(s) :
                 Sum(SubSeq(s, 1, k)) = Sum(SubSeq(s, 1, k - 1)) + s[k]
<1>0. ASSUME NEW k \in 0 .. Len(s)
      PROVE  /\ SubSeq(s, 1, k) \in Seq(Nat)
             /\ Len(SubSeq(s, 1, k)) = k
             /\ \A i \in 1 .. k : SubSeq(s, 1, k)[i] = s[i]
  OBVIOUS
<1>1. ASSUME NEW k \in 1 .. Len(s)
      PROVE  Sum(SubSeq(s, 1, k)) = Sum(SubSeq(s, 1, k - 1)) + s[k]
  <2> DEFINE a == SubSeq(s, 1, k)
             b == SubSeq(s, 1, k - 1)
  <2>1. a \in Seq(Nat) /\ Len(a) = k /\ \A i \in 1 .. k : a[i] = s[i]
    BY <1>0
  <2>2. b \in Seq(Nat) /\ Len(b) = k - 1 /\ \A i \in 1 .. k - 1 : b[i] = s[i]
    BY <1>0
  <2> HIDE DEF a, b
  <2>3. PICK f : Adds(f, a, k) /\ Sum(a) = f[1 .. k]
    BY <2>1, SumAdds
  <2>4. PICK g : Adds(g, b, k - 1) /\ Sum(b) = g[1 .. k - 1]
    BY <2>2, SumAdds
  <2>5. f[1 .. k - 1] = g[1 .. k - 1]
    <3>0. k \in Nat /\ k # 0
      OBVIOUS
    <3>1. k - 1 \in Nat /\ k - 1 <= k /\ k \in Nat /\ k - 1 <= k - 1
      BY ONLY <3>0
    <3>2. \A i \in 1 .. k - 1 : a[i] = b[i]
      <4> TAKE i \in 1 .. k - 1
      <4>1. i \in 1 .. k
        BY ONLY <3>0, i \in 1 .. k - 1
      <4> QED
        BY <4>1, <2>1, <2>2
    <3> DEFINE j == k - 1
    <3>3. Adds(f, a, k) /\ Adds(g, b, j)
      BY <2>3, <2>4
    <3>4. j \in Nat /\ k \in Nat /\ j <= k /\ j <= j /\ SameFirst(a, b, j)
      BY <3>1, <3>2 DEF SameFirst
    <3> HIDE DEF j
    <3>5. f[1 .. j] = g[1 .. j]
      BY ONLY <3>3, <3>4, AddsAgree, SMTT(20)
    <3> QED
      BY <3>5 DEF j
  <2>6. f[1 .. k] = f[1 .. k - 1] + a[k]
    <3>1. k \in Nat /\ k # 0
      OBVIOUS
    <3>2. k \in 1 .. k /\ Max(1 .. k) = k /\ (1 .. k) \ {k} = 1 .. k - 1
      BY ONLY <3>1, Initial
    <3>3. 1 .. k # {} /\ 1 .. k \in SUBSET (1 .. k)
      BY ONLY <3>2
    <3> QED
      BY ONLY <2>3, <3>2, <3>3 DEF Adds
  <2>7. a[k] = s[k]
    BY <2>1
  <2> QED
    BY <2>3, <2>4, <2>5, <2>6, <2>7 DEF a, b
<1>2. Sum(SubSeq(s, 1, 0)) = 0
  <2> DEFINE a == SubSeq(s, 1, 0)
  <2>1. a \in Seq(Nat) /\ Len(a) = 0
    OBVIOUS
  <2> HIDE DEF a
  <2>2. PICK f : Adds(f, a, 0) /\ Sum(a) = f[1 .. 0]
    BY <2>1, SumAdds
  <2>3. 1 .. 0 = {} /\ {} \in SUBSET (1 .. 0)
    OBVIOUS
  <2>4. f[{}] = 0
    BY <2>2, <2>3 DEF Adds
  <2> QED
    BY <2>2, <2>3, <2>4 DEF a
<1>3. ASSUME NEW k \in 0 .. Len(s) PROVE Sum(SubSeq(s, 1, k)) \in Nat
  <2> DEFINE S == {i \in 0 .. k : Sum(SubSeq(s, 1, i)) \in Nat}
  <2>1. 0 \in S
    BY <1>2
  <2>2. ASSUME NEW i \in 0 .. k - 1, i \in S PROVE i + 1 \in S
    <3>1. i + 1 \in 1 .. Len(s) /\ (i + 1) - 1 = i /\ s[i + 1] \in Nat /\ i + 1 \in 0 .. k
      OBVIOUS
    <3>2. Sum(SubSeq(s, 1, i + 1)) = Sum(SubSeq(s, 1, i)) + s[i + 1]
      BY <1>1, <3>1
    <3>3. Sum(SubSeq(s, 1, i)) \in Nat
      BY <2>2
    <3> QED
      BY <3>1, <3>2, <3>3
  <2>3. k \in Nat
    OBVIOUS
  <2>4. \A i \in 0 .. k : i \in S
    <3> HIDE DEF S
    <3> QED
      BY <2>1, <2>2, <2>3, Induct
  <2>5. k \in S
    BY <2>4
  <2> QED
    BY <2>5
<1> QED
  BY <1>1, <1>2, <1>3

\* The sum of no numbers, and of one more.
LEMMA SumAppend ==
    ASSUME NEW s \in Seq(Nat), NEW x \in Nat
    PROVE  Sum(<<>>) = 0 /\ Sum(s) \in Nat /\ Sum(Append(s, x)) = Sum(s) + x
<1> DEFINE t == Append(s, x)
           n == Len(s)
<1>1. /\ t \in Seq(Nat) /\ Len(t) = n + 1 /\ n \in Nat /\ t[n + 1] = x
      /\ \A i \in 1 .. n : t[i] = s[i]
  OBVIOUS
<1>2. SubSeq(s, 1, 0) = <<>> /\ SubSeq(s, 1, n) = s
  OBVIOUS
<1> HIDE DEF t
<1>3. SubSeq(t, 1, n + 1) = t /\ SubSeq(t, 1, n) = s
  <2>1. SubSeq(t, 1, n + 1) = t
    BY <1>1
  <2>2. SubSeq(t, 1, n) \in Seq(Nat) /\ Len(SubSeq(t, 1, n)) = n
        /\ \A i \in 1 .. n : SubSeq(t, 1, n)[i] = s[i]
    BY <1>1
  <2> DEFINE u == SubSeq(t, 1, n)
  <2>3. u \in Seq(Nat) /\ Len(u) = Len(s) /\ \A i \in 1 .. Len(s) : u[i] = s[i]
    BY <2>2
  <2> HIDE DEF u
  <2>4. u = s
    BY <2>3, SameSeq
  <2> QED
    BY <2>1, <2>4 DEF u
<1>4. Sum(<<>>) = 0 /\ Sum(s) \in Nat
  <2>1. n \in 0 .. Len(s)
    BY <1>1
  <2> QED
    BY <1>2, <2>1, SumFirst
<1>5. Sum(t) = Sum(s) + x
  <2>1. n + 1 \in 1 .. Len(t) /\ (n + 1) - 1 = n
    BY <1>1
  <2>2. Sum(SubSeq(t, 1, n + 1)) = Sum(SubSeq(t, 1, (n + 1) - 1)) + t[n + 1]
    BY <1>1, <2>1, SumFirst
  <2> QED
    BY <1>1, <1>3, <2>1, <2>2
<1> QED
  BY <1>4, <1>5 DEF t

-----------------------------------------------------------------------------
(* The binary search. *)

\* What the loop of Search(n, T) has left after each of its first m turns.
Turns(g, n, m, T) ==
    g = [s \in 0 .. m |-> IF s = 0 THEN [i |-> 0, j |-> n] ELSE Halve(g[s - 1], T)]

\* There is such a function, and it is the one that Search uses.
LEMMA SearchTurns ==
    ASSUME NEW n \in Nat, NEW T
    PROVE  \E g : Turns(g, n, n, T) /\ Search(n, T) = g[n].i
<1> DEFINE S == {m \in 0 .. n : \E g : Turns(g, n, m, T)}
<1>1. 0 \in S
  <2> DEFINE g == [s \in 0 .. 0 |-> [i |-> 0, j |-> n]]
  <2>1. Turns(g, n, 0, T)
    BY DEF Turns
  <2> HIDE DEF g
  <2> QED
    BY <2>1
<1>2. ASSUME NEW m \in 0 .. n - 1, m \in S PROVE m + 1 \in S
  <2>1. PICK f : Turns(f, n, m, T)
    BY <1>2
  <2> DEFINE g == [s \in 0 .. m + 1 |-> IF s = m + 1 THEN Halve(f[m], T) ELSE f[s]]
  <2>2. ASSUME NEW s \in 0 .. m + 1
        PROVE  g[s] = IF s = 0 THEN [i |-> 0, j |-> n] ELSE Halve(g[s - 1], T)
    <3>1. CASE s = m + 1
      <4>1. s # 0 /\ s - 1 = m /\ m \in 0 .. m + 1 /\ m # m + 1
        BY <3>1
      <4>2. g[s] = Halve(f[m], T) /\ g[m] = f[m]
        BY <3>1, <4>1
      <4> HIDE DEF g
      <4> QED
        BY <4>1, <4>2
    <3>2. CASE s # m + 1
      <4>1. s \in 0 .. m /\ g[s] = f[s]
        BY <3>2
      <4>2. s # 0 => s - 1 \in 0 .. m + 1 /\ s - 1 # m + 1
        BY <4>1
      <4>3. s # 0 => g[s - 1] = f[s - 1]
        BY <4>2
      <4>4. f[s] = IF s = 0 THEN [i |-> 0, j |-> n] ELSE Halve(f[s - 1], T)
        BY <4>1, <2>1 DEF Turns
      <4> HIDE DEF g
      <4> QED
        BY <4>1, <4>3, <4>4
    <3> QED
      BY <3>1, <3>2
  <2>3. g = [s \in 0 .. m + 1 |-> g[s]]
    OBVIOUS
  <2> HIDE DEF g
  <2>4. Turns(g, n, m + 1, T)
    BY <2>2, <2>3 DEF Turns
  <2>5. m + 1 \in 0 .. n
    OBVIOUS
  <2> QED
    BY <2>4, <2>5
<1>3. n \in S
  <2> HIDE DEF S
  <2>1. n \in 0 .. n
    OBVIOUS
  <2> QED
    BY <1>1, <1>2, <2>1, Induct
<1>4. PICK f : Turns(f, n, n, T)
  BY <1>3
<1>5. Search(n, T) = (CHOOSE g : Turns(g, n, n, T))[n].i
  BY Zenon DEF Search, Turns
<1>6. Turns(CHOOSE g : Turns(g, n, n, T), n, n, T)
  BY <1>4, Zenon
<1> QED
  BY <1>5, <1>6, Zenon

\* After s turns: the indexes before r.i are not in T, those from r.j on are,
\* and at most n - s are left between the two.
Left(r, n, s, T) ==
    /\ r.i \in 0 .. n /\ r.j \in 0 .. n
    /\ r.i <= r.j /\ r.j - r.i <= n - s
    /\ \A k \in 0 .. n - 1 : (k < r.i => k \notin T) /\ (k >= r.j => k \in T)

\* A turn keeps that.
LEMMA HalveLeft ==
    ASSUME NEW n \in Nat, NEW s \in 0 .. n - 1, NEW T,
           \A a, b \in 0 .. n - 1 : a \in T /\ a <= b => b \in T,
           NEW r, Left(r, n, s, T)
    PROVE  Left(Halve(r, T), n, s + 1, T)
<1>1. CASE r.i >= r.j
  BY <1>1 DEF Halve, Left
<1>2. CASE ~(r.i >= r.j)
  <2> DEFINE h == (r.i + r.j) \div 2
  <2>1. r.i \in Nat /\ r.j \in Nat /\ r.i < r.j /\ r.j <= n /\ r.j - r.i <= n - s
    BY <1>2 DEF Left
  <2>2. h \in 0 .. n - 1 /\ r.i <= h /\ h < r.j
    BY ONLY <2>1, n \in Nat
  <2>3. Halve(r, T) = IF h \in T THEN [i |-> r.i, j |-> h] ELSE [i |-> h + 1, j |-> r.j]
    BY <1>2, Zenon DEF Halve
  <2> HIDE DEF h
  <2>4. CASE h \in T
    <3> DEFINE q == [i |-> r.i, j |-> h]
    <3>1. q.i = r.i /\ q.j = h /\ Halve(r, T) = q
      BY <2>3, <2>4
    <3> HIDE DEF q
    <3> QED
      BY <2>1, <2>2, <2>4, <3>1 DEF Left
  <2>5. CASE h \notin T
    <3> DEFINE q == [i |-> h + 1, j |-> r.j]
    <3>1. q.i = h + 1 /\ q.j = r.j /\ Halve(r, T) = q
      BY <2>3, <2>5
    <3> HIDE DEF q
    <3> QED
      BY <2>1, <2>2, <2>5, <3>1 DEF Left
  <2> QED
    BY <2>4, <2>5
<1> QED
  BY <1>1, <1>2

\* In a set that has all indexes after each of its own, the search finds where
\* it begins.
LEMMA SearchFinds ==
    ASSUME NEW n \in Nat, NEW T,
           \A a, b \in 0 .. n - 1 : a \in T /\ a <= b => b \in T
    PROVE  /\ Search(n, T) \in 0 .. n
           /\ \A k \in 0 .. n - 1 : k \in T <=> k >= Search(n, T)
<1>1. PICK g : Turns(g, n, n, T) /\ Search(n, T) = g[n].i
  BY SearchTurns
<1> DEFINE S == {s \in 0 .. n : Left(g[s], n, s, T)}
<1>2. 0 \in S
  <2>1. g[0] = [i |-> 0, j |-> n]
    BY <1>1 DEF Turns
  <2> QED
    BY <2>1 DEF Left
<1>3. ASSUME NEW s \in 0 .. n - 1, s \in S PROVE s + 1 \in S
  <2>1. s + 1 \in 0 .. n /\ s + 1 # 0 /\ (s + 1) - 1 = s
    OBVIOUS
  <2>2. g[s + 1] = Halve(g[s], T)
    BY <1>1, <2>1 DEF Turns
  <2>3. Left(g[s], n, s, T)
    BY <1>3
  <2>4. Left(Halve(g[s], T), n, s + 1, T)
    BY <2>3, HalveLeft
  <2> QED
    BY <2>1, <2>2, <2>4
<1>4. n \in S
  <2> HIDE DEF S
  <2>1. n \in 0 .. n
    OBVIOUS
  <2> QED
    BY <1>2, <1>3, <2>1, Induct
<1>5. Left(g[n], n, n, T)
  BY <1>4
<1> QED
  BY <1>1, <1>5 DEF Left

\* In a list in descending order the search finds what there is.
LEMMA DescendingFinds ==
    ASSUME NEW vs \in Seq(Int), NEW x \in Int,
           \A a, b \in 1 .. Len(vs) : a <= b => vs[a] >= vs[b]
    PROVE  FoundDescending(vs, x) <=> \E m \in 1 .. Len(vs) : vs[m] = x
<1> DEFINE n  == Len(vs)
           T  == {i \in 0 .. n - 1 : vs[i + 1] <= x}
           ix == Search(n, T)
<1>1. n \in Nat /\ \A a \in 1 .. n : vs[a] \in Int
  OBVIOUS
<1>2. \A a, b \in 0 .. n - 1 : a \in T /\ a <= b => b \in T
  <2> SUFFICES ASSUME NEW a \in 0 .. n - 1, NEW b \in 0 .. n - 1, vs[a + 1] <= x, a <= b
               PROVE  vs[b + 1] <= x
    OBVIOUS
  <2>1. a + 1 \in 1 .. n /\ b + 1 \in 1 .. n /\ a + 1 <= b + 1
    OBVIOUS
  <2>2. vs[a + 1] >= vs[b + 1] /\ vs[a + 1] \in Int /\ vs[b + 1] \in Int
    BY <2>1, <1>1
  <2> QED
    BY <2>2
<1>3. ix \in 0 .. n /\ \A k \in 0 .. n - 1 : k \in T <=> k >= ix
  <2> HIDE DEF T, n
  <2> QED
    BY <1>1, <1>2, SearchFinds
<1>4. FoundDescending(vs, x) <=> ix < n /\ vs[ix + 1] = x
  BY Zenon DEF FoundDescending
<1> HIDE DEF ix
<1>5. ASSUME NEW m \in 1 .. n, vs[m] = x PROVE ix < n /\ vs[ix + 1] = x
  <2>1. m - 1 \in 0 .. n - 1 /\ (m - 1) + 1 = m /\ x <= x
    OBVIOUS
  <2>2. m - 1 \in T
    BY <1>5, <2>1
  <2>3. m - 1 >= ix
    BY <1>3, <2>1, <2>2
  <2>4. ix < n /\ ix \in 0 .. n - 1 /\ ix + 1 \in 1 .. n /\ ix + 1 <= m /\ ix >= ix
    BY <1>1, <1>3, <2>3
  <2>5. vs[ix + 1] <= x
    BY <1>3, <2>4
  <2>6. vs[ix + 1] >= vs[m]
    BY <2>4
  <2>7. vs[ix + 1] \in Int
    BY <2>4, <1>1
  <2> QED
    BY <1>5, <2>4, <2>5, <2>6, <2>7
<1>6. ASSUME ix < n, vs[ix + 1] = x PROVE \E m \in 1 .. n : vs[m] = x
  <2>1. ix + 1 \in 1 .. n
    BY <1>1, <1>3, <1>6
  <2> QED
    BY <1>6, <2>1
<1> QED
  BY <1>4, <1>5, <1>6

\* In a list in ascending order the search finds what there is.
LEMMA AscendingFinds ==
    ASSUME NEW vs \in Seq(Int), NEW x \in Int,
           \A a, b \in 1 .. Len(vs) : a <= b => vs[a] <= vs[b]
    PROVE  FoundAscending(vs, x) <=> \E m \in 1 .. Len(vs) : vs[m] = x
<1> DEFINE n  == Len(vs)
           T  == {i \in 0 .. n - 1 : vs[i + 1] >= x}
           ix == Search(n, T)
<1>1. n \in Nat /\ \A a \in 1 .. n : vs[a] \in Int
  OBVIOUS
<1>2. \A a, b \in 0 .. n - 1 : a \in T /\ a <= b => b \in T
  <2> SUFFICES ASSUME NEW a \in 0 .. n - 1, NEW b \in 0 .. n - 1, vs[a + 1] >= x, a <= b
               PROVE  vs[b + 1] >= x
    OBVIOUS
  <2>1. a + 1 \in 1 .. n /\ b + 1 \in 1 .. n /\ a + 1 <= b + 1
    OBVIOUS
  <2>2. vs[a + 1] <= vs[b + 1] /\ vs[a + 1] \in Int /\ vs[b + 1] \in Int
    BY <2>1, <1>1
  <2> QED
    BY <2>2
<1>3. ix \in 0 .. n /\ \A k \in 0 .. n - 1 : k \in T <=> k >= ix
  <2> HIDE DEF T, n
  <2> QED
    BY <1>1, <1>2, SearchFinds
<1>4. FoundAscending(vs, x) <=> ix < n /\ vs[ix + 1] = x
  BY Zenon DEF FoundAscending
<1> HIDE DEF ix
<1>5. ASSUME NEW m \in 1 .. n, vs[m] = x PROVE ix < n /\ vs[ix + 1] = x
  <2>1. m - 1 \in 0 .. n - 1 /\ (m - 1) + 1 = m /\ x >= x
    OBVIOUS
  <2>2. m - 1 \in T
    BY <1>5, <2>1
  <2>3. m - 1 >= ix
    BY <1>3, <2>1, <2>2
  <2>4. ix < n /\ ix \in 0 .. n - 1 /\ ix + 1 \in 1 .. n /\ ix + 1 <= m /\ ix >= ix
    BY <1>1, <1>3, <2>3
  <2>5. vs[ix + 1] >= x
    BY <1>3, <2>4
  <2>6. vs[ix + 1] <= vs[m]
    BY <2>4
  <2>7. vs[ix + 1] \in Int
    BY <2>4, <1>1
  <2> QED
    BY <1>5, <2>4, <2>5, <2>6, <2>7
<1>6. ASSUME ix < n, vs[ix + 1] = x PROVE \E m \in 1 .. n : vs[m] = x
  <2>1. ix + 1 \in 1 .. n
    BY <1>1, <1>3, <1>6
  <2> QED
    BY <1>6, <2>1
<1> QED
  BY <1>4, <1>5, <1>6

-----------------------------------------------------------------------------
(* Sequences joined by FlattenSeq. *)

\* f[k] joins the first k elements of s, up to k = n.
JoinsTo(f, s, n) ==
    /\ f[0] = <<>>
    /\ \A k \in 1 .. n : f[k] = f[k - 1] \o s[k]

Joins(f, s) == JoinsTo(f, s, Len(s))

\* The function that FlattenSeq uses.
Flattens(f, s) ==
    f = [i \in 1 .. Len(s) |-> IF i = 1 THEN s[i] ELSE f[i - 1] \o s[i]]

\* There is a function that joins the elements.
LEMMA JoinsExists ==
    ASSUME NEW U, NEW s \in Seq(Seq(U))
    PROVE  \E f \in [0 .. Len(s) -> Seq(U)] : Joins(f, s)
<1> DEFINE n == Len(s)
           S == {m \in 0 .. n : \E f \in [0 .. m -> Seq(U)] : JoinsTo(f, s, m)}
<1>0. n \in Nat /\ \A k \in 1 .. n : s[k] \in Seq(U)
  OBVIOUS
<1>1. 0 \in S
  <2> DEFINE f == [k \in 0 .. 0 |-> <<>>]
  <2>1. f \in [0 .. 0 -> Seq(U)] /\ JoinsTo(f, s, 0)
    BY DEF JoinsTo
  <2> HIDE DEF f
  <2> QED
    BY <1>0, <2>1
<1>2. ASSUME NEW m \in 0 .. n - 1, m \in S PROVE m + 1 \in S
  <2>1. PICK f \in [0 .. m -> Seq(U)] : JoinsTo(f, s, m)
    BY <1>2
  <2>2. m + 1 \in 1 .. n /\ m + 1 \in 0 .. n /\ m \in 0 .. m /\ m \in Nat
    BY <1>0
  <2> DEFINE x == f[m] \o s[m + 1]
             g == [k \in 0 .. m + 1 |-> IF k = m + 1 THEN x ELSE f[k]]
  <2>3. x \in Seq(U)
    <3>1. f[m] \in Seq(U) /\ s[m + 1] \in Seq(U)
      BY <1>0, <2>2
    <3> QED
      BY <3>1
  <2> HIDE DEF x, n
  <2>4. g \in [0 .. m + 1 -> Seq(U)]
    BY <2>2, <2>3
  <2>5. g[0] = f[0] /\ g[m + 1] = x /\ \A k \in 0 .. m : g[k] = f[k]
    BY <2>2
  <2> HIDE DEF g
  <2>6. ASSUME NEW k \in 1 .. m + 1 PROVE g[k] = g[k - 1] \o s[k]
    <3>1. CASE k = m + 1
      <4>1. k - 1 = m
        BY <3>1, <2>2
      <4> QED
        BY <3>1, <4>1, <2>2, <2>5 DEF x
    <3>2. CASE k # m + 1
      <4>1. k \in 1 .. m /\ k \in 0 .. m /\ k - 1 \in 0 .. m
        BY <3>2, <2>2
      <4>2. f[k] = f[k - 1] \o s[k]
        BY <2>1, <4>1 DEF JoinsTo
      <4> QED
        BY <4>1, <4>2, <2>5
    <3> QED
      BY <3>1, <3>2
  <2>7. JoinsTo(g, s, m + 1)
    BY <2>1, <2>5, <2>6 DEF JoinsTo
  <2> QED
    BY <2>2, <2>4, <2>7
<1>3. n \in S
  <2> HIDE DEF S
  <2>1. n \in 0 .. n
    BY <1>0
  <2> QED
    BY <1>0, <1>1, <1>2, <2>1, Induct
<1> QED
  BY <1>3 DEF Joins

\* Two functions that join agree where the sequences do.
LEMMA JoinsAgree ==
    ASSUME NEW s, NEW t, NEW n \in Nat, NEW f, NEW g,
           SameFirst(s, t, n), JoinsTo(f, s, n), JoinsTo(g, t, n)
    PROVE  \A k \in 0 .. n : f[k] = g[k]
<1> DEFINE S == {k \in 0 .. n : f[k] = g[k]}
<1>1. 0 \in S
  BY DEF JoinsTo
<1>2. ASSUME NEW k \in 0 .. n - 1, k \in S PROVE k + 1 \in S
  <2>1. k + 1 \in 1 .. n /\ (k + 1) - 1 = k /\ k + 1 \in 0 .. n /\ f[k] = g[k]
    BY <1>2
  <2>2. f[k + 1] = f[k] \o s[k + 1] /\ g[k + 1] = g[k] \o t[k + 1] /\ s[k + 1] = t[k + 1]
    BY <2>1 DEF SameFirst, JoinsTo
  <2> QED
    BY <2>1, <2>2
<1>3. \A k \in 0 .. n : k \in S
  <2> HIDE DEF S
  <2> QED
    BY <1>1, <1>2, Induct
<1> QED
  BY <1>3

\* What FlattenSeq computes.
LEMMA FlattenJoins ==
    ASSUME NEW U, NEW s \in Seq(Seq(U)), NEW f \in [0 .. Len(s) -> Seq(U)], Joins(f, s)
    PROVE  FlattenSeq(s) = f[Len(s)] /\ FlattenSeq(s) \in Seq(U)
<1> DEFINE n == Len(s)
<1>0. n \in Nat /\ \A k \in 1 .. n : s[k] \in Seq(U)
  OBVIOUS
<1>1. CASE n = 0
  <2>1. s = <<>>
    BY <1>1
  <2> QED
    BY <1>1, <2>1 DEF FlattenSeq, Joins, JoinsTo
<1>2. CASE n # 0
  <2> DEFINE g == [k \in 1 .. n |-> f[k]]
  <2>1. ASSUME NEW k \in 1 .. n PROVE g[k] = IF k = 1 THEN s[k] ELSE g[k - 1] \o s[k]
    <3>1. g[k] = f[k] /\ f[k] = f[k - 1] \o s[k]
      BY DEF Joins, JoinsTo
    <3>2. CASE k = 1
      <4>1. f[k - 1] = <<>> /\ s[k] \in Seq(U)
        BY <3>2, <1>0 DEF Joins, JoinsTo
      <4> QED
        BY <3>1, <3>2, <4>1
    <3>3. CASE k # 1
      <4>1. k - 1 \in 1 .. n
        BY <3>3, <1>0
      <4>2. g[k - 1] = f[k - 1]
        BY <4>1
      <4> QED
        BY <3>1, <3>3, <4>2
    <3> QED
      BY <3>2, <3>3
  <2>2. g = [k \in 1 .. n |-> g[k]]
    OBVIOUS
  <2>3. Flattens(g, s)
    <3> HIDE DEF g
    <3> QED
      BY <2>1, <2>2 DEF Flattens
  <2> HIDE DEF g
  <2> DEFINE h == CHOOSE e : Flattens(e, s)
  <2>4. Flattens(h, s)
    BY <2>3, Zenon
  <2>5. FlattenSeq(s) = h[n]
    BY <1>2, Zenon DEF FlattenSeq, Flattens
  <2> HIDE DEF h
  <2>6. \A k \in 1 .. n : h[k] = IF k = 1 THEN s[k] ELSE h[k - 1] \o s[k]
    BY <2>4 DEF Flattens
  <2> DEFINE S == {k \in 0 .. n : k = 0 \/ h[k] = f[k]}
  <2>7. 0 \in S
    BY <1>0
  <2>8. ASSUME NEW k \in 0 .. n - 1, k \in S PROVE k + 1 \in S
    <3>1. k + 1 \in 1 .. n /\ k + 1 \in 0 .. n /\ (k + 1) - 1 = k /\ k \in Nat
      BY <1>0
    <3>2. f[k + 1] = f[k] \o s[k + 1]
      BY <3>1 DEF Joins, JoinsTo
    <3>3. CASE k = 0
      <4>1. f[k] = <<>> /\ s[k + 1] \in Seq(U) /\ k + 1 = 1
        BY <1>0, <3>1, <3>3 DEF Joins, JoinsTo
      <4>2. f[k + 1] = s[k + 1]
        BY <3>2, <4>1
      <4> QED
        BY <3>1, <4>1, <4>2, <2>6
    <3>4. CASE k # 0
      <4>1. h[k] = f[k] /\ k + 1 # 1
        BY <3>1, <3>4, <2>8
      <4> QED
        BY <3>1, <3>2, <4>1, <2>6
    <3> QED
      BY <3>3, <3>4
  <2>9. n \in S
    <3> HIDE DEF S, n
    <3>1. n \in 0 .. n
      BY <1>0
    <3> QED
      BY <1>0, <2>7, <2>8, <3>1, Induct
  <2>10. h[n] = f[n] /\ f[n] \in Seq(U)
    BY <2>9, <1>0, <1>2
  <2> QED
    BY <2>5, <2>10
<1> QED
  BY <1>1, <1>2

\* FlattenSeq of no sequences, and of one more.
LEMMA FlattenAppend ==
    ASSUME NEW U, NEW s \in Seq(Seq(U)), NEW x \in Seq(U)
    PROVE  /\ FlattenSeq(<<>>) = <<>>
           /\ FlattenSeq(s) \in Seq(U)
           /\ FlattenSeq(Append(s, x)) = FlattenSeq(s) \o x
<1> DEFINE t == Append(s, x)
           n == Len(s)
<1>1. /\ t \in Seq(Seq(U)) /\ Len(t) = n + 1 /\ t[n + 1] = x /\ n \in Nat
      /\ \A k \in 1 .. n : t[k] = s[k]
  OBVIOUS
<1>2. PICK f \in [0 .. Len(s) -> Seq(U)] : Joins(f, s)
  BY JoinsExists
<1> HIDE DEF t
<1>3. PICK g \in [0 .. Len(t) -> Seq(U)] : Joins(g, t)
  BY <1>1, JoinsExists
<1>4. FlattenSeq(s) = f[n] /\ FlattenSeq(s) \in Seq(U)
  BY <1>2, FlattenJoins
<1>5. FlattenSeq(t) = g[n + 1]
  BY <1>1, <1>3, FlattenJoins
<1>6. g[n + 1] = g[n] \o x
  <2>1. n + 1 \in 1 .. Len(t) /\ (n + 1) - 1 = n
    BY <1>1
  <2>2. g[n + 1] = g[(n + 1) - 1] \o t[n + 1]
    BY <1>3, <2>1 DEF Joins, JoinsTo
  <2> QED
    BY <1>1, <2>1, <2>2
<1>7. f[n] = g[n]
  <2>1. \A k \in 1 .. n : k \in 1 .. Len(t)
    BY <1>1
  <2>2. JoinsTo(f, s, n)
    BY <1>2 DEF Joins
  <2>3. JoinsTo(g, t, n)
    BY <1>3, <2>1 DEF Joins, JoinsTo
  <2>5. SameFirst(s, t, n) /\ n \in 0 .. n
    BY <1>1 DEF SameFirst
  <2> HIDE DEF n
  <2> QED
    BY <1>1, <2>2, <2>3, <2>5, JoinsAgree
<1>8. FlattenSeq(<<>>) = <<>>
  BY DEF FlattenSeq
<1> QED
  BY <1>4, <1>5, <1>6, <1>7, <1>8 DEF t

-----------------------------------------------------------------------------
(* A list without some element, and the sequences its elements stand for. *)

\* The elements other than e, each in a sequence.
Chosen(ls, e) == [n \in DOMAIN ls |-> IF ls[n] = e THEN <<>> ELSE <<ls[n]>>]

\* The sequences F[l] of the elements of a list.
Mapped(F, ls) == [n \in DOMAIN ls |-> F[ls[n]]]

MapsLast(U, F, v, x) ==
    /\ Mapped(F, v) \in Seq(Seq(U))
    /\ F[x] \in Seq(U)
    /\ Mapped(F, Append(v, x)) = Append(Mapped(F, v), F[x])

\* The sequences of a list with one more element.
LEMMA MappedAppend ==
    ASSUME NEW U, NEW L, NEW F \in [L -> Seq(U)], NEW v \in Seq(L), NEW x \in L
    PROVE  MapsLast(U, F, v, x)
<1> DEFINE w == Append(v, x)
           a == Mapped(F, v)
           b == Mapped(F, w)
<1>1. /\ DOMAIN v = 1 .. Len(v) /\ Len(v) \in Nat /\ DOMAIN w = 1 .. Len(v) + 1
      /\ w[Len(v) + 1] = x /\ \A n \in 1 .. Len(v) : w[n] = v[n] /\ v[n] \in L
  OBVIOUS
<1> HIDE DEF w
<1>2. a = [n \in 1 .. Len(v) |-> F[v[n]]] /\ b = [n \in 1 .. Len(v) + 1 |-> F[w[n]]]
  BY <1>1 DEF Mapped
<1>3. F[x] \in Seq(U) /\ \A n \in 1 .. Len(v) : F[v[n]] \in Seq(U)
  BY <1>1
<1>4. a \in Seq(Seq(U)) /\ Len(a) = Len(v)
  BY <1>1, <1>2, <1>3
<1> DEFINE c == Append(a, F[x])
<1>5. /\ c \in Seq(Seq(U)) /\ Len(c) = Len(v) + 1 /\ c[Len(v) + 1] = F[x]
      /\ \A n \in 1 .. Len(v) : c[n] = a[n]
  BY <1>3, <1>4
<1>6. b \in Seq(Seq(U)) /\ Len(b) = Len(v) + 1
  <2>1. \A n \in 1 .. Len(v) + 1 : n = Len(v) + 1 \/ n \in 1 .. Len(v)
    BY <1>1
  <2>2. \A n \in 1 .. Len(v) + 1 : F[w[n]] \in Seq(U)
    BY <1>1, <1>3, <2>1
  <2>3. Len(v) + 1 \in Nat
    BY <1>1
  <2> QED
    BY <1>2, <2>2, <2>3
<1>7. \A n \in 1 .. Len(v) + 1 : b[n] = c[n]
  BY <1>1, <1>2, <1>5
<1> HIDE DEF a, b, c
<1>8. b = c
  BY <1>5, <1>6, <1>7
<1> QED
  BY <1>3, <1>4, <1>8 DEF a, b, c, w, MapsLast

\* A sequence of one element at the end of another appends the element.
LEMMA SingleLast ==
    ASSUME NEW T, NEW v \in Seq(T), NEW x \in T
    PROVE  /\ <<x>> \in Seq(T) /\ <<>> \in Seq(T)
           /\ v \o <<x>> = Append(v, x)
           /\ Append(v, x) # <<>>
<1>1. <<x>> \in Seq(T) /\ <<>> \in Seq(T)
  OBVIOUS
<1>2. v \o <<x>> = Append(v, x)
  <2> DEFINE a == v \o <<x>>
             b == Append(v, x)
  <2>1. /\ a \in Seq(T) /\ Len(a) = Len(v) + 1
        /\ b \in Seq(T) /\ Len(b) = Len(v) + 1
        /\ \A n \in 1 .. Len(v) + 1 : a[n] = b[n]
    OBVIOUS
  <2> HIDE DEF a, b
  <2>2. a = b
    BY <2>1
  <2> QED
    BY <2>2 DEF a, b
<1>3. Append(v, x) # <<>>
  <2>1. Len(Append(v, x)) = Len(v) + 1 /\ Len(v) \in Nat /\ Len(<<>>) = 0
    OBVIOUS
  <2> QED
    BY <2>1
<1> QED
  BY <1>1, <1>2, <1>3

\* A list without e stands for what the list does.
SameWithout(L, F, ls, e) ==
    LET vs == FlattenSeq(Chosen(ls, e))
    IN  /\ vs \in Seq(L \ {e})
        /\ vs = <<>> => \A n \in DOMAIN ls : ls[n] = e
        /\ FlattenSeq(Mapped(F, ls)) = FlattenSeq(Mapped(F, vs))

\* Dropping an element that stands for nothing changes nothing.
LEMMA FlattenChosen ==
    ASSUME NEW U, NEW L, NEW ls \in Seq(L), NEW e, NEW F \in [L -> Seq(U)], e \in L => F[e] = <<>>
    PROVE  SameWithout(L, F, ls, e)
<1> DEFINE M == L \ {e}
           c == Chosen(ls, e)
           d == Mapped(F, ls)
           n == Len(ls)
<1>1. n \in Nat /\ DOMAIN ls = 1 .. n /\ \A k \in 1 .. n : ls[k] \in L
  OBVIOUS
<1>2. /\ c \in Seq(Seq(M)) /\ Len(c) = n
      /\ \A k \in 1 .. n : c[k] = IF ls[k] = e THEN <<>> ELSE <<ls[k]>>
  <2>1. c = [k \in 1 .. n |-> IF ls[k] = e THEN <<>> ELSE <<ls[k]>>]
    BY <1>1 DEF Chosen
  <2>2. ASSUME NEW k \in 1 .. n PROVE (IF ls[k] = e THEN <<>> ELSE <<ls[k]>>) \in Seq(M)
    <3> DEFINE l == ls[k]
    <3>1. l \in L
      BY <1>1
    <3> HIDE DEF l
    <3>2. CASE l = e
      BY <3>2 DEF l
    <3>3. CASE l # e
      <4>1. l \in M
        BY <3>1, <3>3
      <4> HIDE DEF M
      <4>2. <<l>> \in Seq(M)
        BY <4>1
      <4> QED
        BY <3>3, <4>2 DEF l
    <3> QED
      BY <3>2, <3>3
  <2> HIDE DEF M, n, c
  <2> QED
    BY <1>1, <2>1, <2>2
<1>3. /\ d \in Seq(Seq(U)) /\ Len(d) = n /\ \A k \in 1 .. n : d[k] = F[ls[k]] /\ F[ls[k]] \in Seq(U)
  <2>1. d = [k \in 1 .. n |-> F[ls[k]]]
    BY <1>1 DEF Mapped
  <2>2. \A k \in 1 .. n : F[ls[k]] \in Seq(U)
    BY <1>1
  <2> HIDE DEF n, d
  <2> QED
    BY <1>1, <2>1, <2>2
<1> HIDE DEF n, c, d
<1>4. PICK v \in [0 .. n -> Seq(M)] : Joins(v, c)
  <2> HIDE DEF M
  <2> QED
    BY <1>2, JoinsExists
<1>5. PICK r \in [0 .. n -> Seq(U)] : Joins(r, d)
  BY <1>3, JoinsExists
<1>6. FlattenSeq(c) = v[n] /\ FlattenSeq(c) \in Seq(M)
  <2> HIDE DEF M
  <2> QED
    BY <1>2, <1>4, FlattenJoins
<1>7. FlattenSeq(d) = r[n]
  BY <1>3, <1>5, FlattenJoins
<1>8. FlattenSeq(<<>>) = <<>>
  BY FlattenAppend, <1>3
<1> DEFINE Q(k) == /\ r[k] = FlattenSeq(Mapped(F, v[k]))
                   /\ v[k] = <<>> => \A i \in 1 .. k : ls[i] = e
           S == {k \in 0 .. n : Q(k)}
<1>9. Q(0)
  <2>1. v[0] = <<>> /\ r[0] = <<>>
    BY <1>4, <1>5 DEF Joins, JoinsTo
  <2>2. Mapped(F, <<>>) = <<>>
    BY DEF Mapped
  <2> QED
    BY <1>8, <2>1, <2>2
<1>10. ASSUME NEW k \in 0 .. n - 1, Q(k) PROVE Q(k + 1)
  <2> DEFINE m == k + 1
             l == ls[m]
  <2>1. m \in 1 .. n /\ m - 1 = k /\ k \in 0 .. n /\ k \in Nat
    BY <1>1
  <2>2. v[m] = v[k] \o c[m] /\ r[m] = r[k] \o d[m]
    BY <1>2, <1>3, <1>4, <1>5, <2>1 DEF Joins, JoinsTo
  <2>3. v[k] \in Seq(M) /\ r[k] \in Seq(U) /\ v[k] \in Seq(L)
    BY <2>1
  <2>4. l \in L
    BY <1>1, <2>1
  <2>5. \A i \in 1 .. m : i = m \/ i \in 1 .. k
    BY <2>1
  <2>0. /\ r[k] = FlattenSeq(Mapped(F, v[k]))
        /\ v[k] = <<>> => \A i \in 1 .. k : ls[i] = e
    BY <1>10
  <2> HIDE DEF m
  <2>6. CASE l = e
    <3>1. c[m] = <<>> /\ d[m] = <<>>
      BY <1>2, <1>3, <2>1, <2>4, <2>6
    <3>2. v[m] = v[k] /\ r[m] = r[k]
      BY <2>2, <2>3, <3>1
    <3>3. r[m] = FlattenSeq(Mapped(F, v[m]))
      BY <2>0, <3>2
    <3>4. v[m] = <<>> => \A i \in 1 .. m : ls[i] = e
      BY <2>0, <2>5, <2>6, <3>2
    <3> QED
      BY <3>3, <3>4 DEF m
  <2>7. CASE l # e
    <3>1. c[m] = <<l>> /\ d[m] = F[l]
      BY <1>2, <1>3, <2>1, <2>7
    <3> HIDE DEF l
    <3>2. v[m] = Append(v[k], l) /\ v[m] # <<>>
      <4>1. v[k] \o <<l>> = Append(v[k], l) /\ Append(v[k], l) # <<>>
        BY <2>3, <2>4, SingleLast
      <4> QED
        BY <2>2, <3>1, <4>1
    <3>3. Mapped(F, v[m]) = Append(Mapped(F, v[k]), F[l]) /\ Mapped(F, v[k]) \in Seq(Seq(U))
          /\ F[l] \in Seq(U)
      <4> DEFINE w == v[k]
      <4>1. w \in Seq(L) /\ F \in [L -> Seq(U)]
        BY <2>3
      <4> HIDE DEF w
      <4>2. MapsLast(U, F, w, l)
        BY ONLY <2>4, <4>1, MappedAppend
      <4> QED
        BY <3>2, <4>2 DEF w, MapsLast
    <3>4. FlattenSeq(Mapped(F, v[m])) = FlattenSeq(Mapped(F, v[k])) \o F[l]
      BY <3>3, FlattenAppend
    <3>5. r[m] = FlattenSeq(Mapped(F, v[m]))
      BY <2>0, <2>2, <3>1, <3>4
    <3> QED
      BY <3>2, <3>5 DEF m
  <2> QED
    BY <2>6, <2>7
<1>11. Q(n)
  <2> HIDE DEF Q
  <2>1. 0 \in S /\ n \in 0 .. n
    BY <1>1, <1>9
  <2>2. ASSUME NEW k \in 0 .. n - 1, k \in S PROVE k + 1 \in S
    <3>1. k + 1 \in 0 .. n
      BY <1>1
    <3> QED
      BY <1>10, <2>2, <3>1
  <2>3. n \in S
    <3> HIDE DEF S
    <3> QED
      BY <1>1, <2>1, <2>2, Induct
  <2> QED
    BY <2>3
<1> QED
  BY <1>1, <1>6, <1>7, <1>11 DEF c, d, SameWithout

-----------------------------------------------------------------------------
(* The elements of a list that are in a set. *)

\* The first elements of a sequence, and one more.
LEMMA SubSeqMore ==
    ASSUME NEW T, NEW s \in Seq(T), NEW k \in 0 .. Len(s) - 1
    PROVE  /\ SubSeq(s, 1, k) \in Seq(T) /\ s[k + 1] \in T
           /\ SubSeq(s, 1, k + 1) = Append(SubSeq(s, 1, k), s[k + 1])
<1> DEFINE a == SubSeq(s, 1, k + 1)
           v == SubSeq(s, 1, k)
           b == Append(v, s[k + 1])
<1>1. k \in Nat /\ k + 1 \in 1 .. Len(s) /\ \A i \in 1 .. k : i \in 1 .. Len(s)
  OBVIOUS
<1>2. /\ a \in Seq(T) /\ Len(a) = k + 1 /\ \A i \in 1 .. k + 1 : a[i] = s[i]
      /\ v \in Seq(T) /\ Len(v) = k /\ \A i \in 1 .. k : v[i] = s[i]
      /\ s[k + 1] \in T
  BY <1>1
<1> HIDE DEF a, v
<1>3. b \in Seq(T) /\ Len(b) = k + 1 /\ b[k + 1] = s[k + 1] /\ \A i \in 1 .. k : b[i] = s[i]
  BY <1>1, <1>2
<1> HIDE DEF b
<1>4. \A i \in 1 .. k + 1 : a[i] = b[i]
  <2>1. \A i \in 1 .. k + 1 : i = k + 1 \/ i \in 1 .. k
    BY ONLY <1>1
  <2> QED
    BY <1>2, <1>3, <2>1
<1>5. a = b
  BY ONLY <1>2, <1>3, <1>4
<1> QED
  BY <1>2, <1>5 DEF a, b, v

\* One element more.
LEMMA OnlyAppend ==
    ASSUME NEW T, NEW s \in Seq(T), NEW x \in T, NEW S
    PROVE  /\ Only(<<>>, S) = <<>>
           /\ Only(s, S) \in Seq(T)
           /\ Only(Append(s, x), S) = IF x \in S THEN Append(Only(s, S), x) ELSE Only(s, S)
<1> DEFINE F == [y \in T |-> IF y \in S THEN <<y>> ELSE <<>>]
<1>1. F \in [T -> Seq(T)]
  <2>1. ASSUME NEW y \in T PROVE (IF y \in S THEN <<y>> ELSE <<>>) \in Seq(T)
    OBVIOUS
  <2> QED
    BY <2>1
<1>2. ASSUME NEW v \in Seq(T) PROVE Only(v, S) = FlattenSeq(Mapped(F, v))
  <2>1. \A n \in DOMAIN v : v[n] \in T
    OBVIOUS
  <2>2. Mapped(F, v) = [n \in DOMAIN v |-> IF v[n] \in S THEN <<v[n]>> ELSE <<>>]
    BY <2>1 DEF Mapped
  <2> QED
    BY <2>2 DEF Only
<1>3. F[x] = IF x \in S THEN <<x>> ELSE <<>>
  OBVIOUS
<1> HIDE DEF F
<1>4. MapsLast(T, F, s, x)
  BY <1>1, MappedAppend
<1>5. /\ Mapped(F, s) \in Seq(Seq(T)) /\ F[x] \in Seq(T)
      /\ Mapped(F, Append(s, x)) = Append(Mapped(F, s), F[x])
  BY <1>4 DEF MapsLast
<1>6. /\ FlattenSeq(Mapped(F, s)) \in Seq(T)
      /\ FlattenSeq(Append(Mapped(F, s), F[x])) = FlattenSeq(Mapped(F, s)) \o F[x]
      /\ FlattenSeq(<<>>) = <<>>
  BY <1>5, FlattenAppend
<1>7. Append(s, x) \in Seq(T)
  OBVIOUS
<1> DEFINE o == Only(s, S)
<1>8. o \in Seq(T) /\ Only(Append(s, x), S) = o \o F[x]
  BY <1>2, <1>5, <1>6, <1>7
<1> HIDE DEF o
<1>9. o \o <<x>> = Append(o, x) /\ o \o <<>> = o
  BY <1>8, SingleLast
<1>10. Only(<<>>, S) = <<>>
  <2>1. Mapped(F, <<>>) = <<>>
    BY DEF Mapped
  <2>2. <<>> \in Seq(T)
    OBVIOUS
  <2>3. Only(<<>>, S) = FlattenSeq(Mapped(F, <<>>))
    BY <1>2, <2>2
  <2> QED
    BY <1>6, <2>1, <2>3
<1>11. Only(Append(s, x), S) = IF x \in S THEN Append(o, x) ELSE o
  BY <1>3, <1>8, <1>9
<1> QED
  BY <1>8, <1>10, <1>11 DEF o

\* The set of the elements of a sequence with one more.
LEMMA ToSetAppend ==
    ASSUME NEW T, NEW s \in Seq(T), NEW x \in T
    PROVE  ToSet(Append(s, x)) = ToSet(s) \cup {x}
<1> DEFINE y == Append(s, x)
           l == Len(s) + 1
<1>1. /\ l \in Nat /\ l # 0 /\ DOMAIN s = 1 .. l - 1 /\ DOMAIN y = 1 .. l
      /\ y[l] = x /\ \A i \in 1 .. l - 1 : y[i] = s[i]
  OBVIOUS
<1> HIDE DEF y, l
<1>2. l \in 1 .. l /\ \A i \in 1 .. l : i = l \/ i \in 1 .. l - 1
  BY <1>1
<1>3. \A i \in 1 .. l - 1 : i \in 1 .. l
  BY <1>1
<1>4. ToSet(y) = ToSet(s) \cup {x}
  <2>1. \A i \in DOMAIN s : i \in DOMAIN y /\ y[i] = s[i]
    BY <1>1, <1>3
  <2>2. \A i \in DOMAIN y : y[i] = x \/ (i \in DOMAIN s /\ y[i] = s[i])
    BY <1>1, <1>2
  <2>3. l \in DOMAIN y /\ y[l] = x
    BY <1>1, <1>2
  <2> QED
    BY ONLY <2>1, <2>2, <2>3 DEF ToSet
<1> QED
  BY <1>4 DEF y

\* They are the elements of the list that are in the set.
LEMMA OnlyElements ==
    ASSUME NEW T, NEW s \in Seq(T), NEW S
    PROVE  Only(s, S) \in Seq(T) /\ ToSet(Only(s, S)) = ToSet(s) \cap S
<1> DEFINE n == Len(s)
           Q(k) == LET v == SubSeq(s, 1, k)
                   IN  v \in Seq(T) /\ Only(v, S) \in Seq(T) /\ ToSet(Only(v, S)) = ToSet(v) \cap S
           K == {k \in 0 .. n : Q(k)}
<1>1. n \in Nat
  OBVIOUS
<1>2. Q(0)
  <2>1. SubSeq(s, 1, 0) = <<>> /\ <<>> \in Seq(T) /\ ToSet(<<>>) = {}
    BY DEF ToSet
  <2>2. FlattenSeq(<<>>) = <<>>
    BY DEF FlattenSeq
  <2>3. Only(<<>>, S) = <<>>
    <3>1. [i \in DOMAIN <<>> |-> IF <<>>[i] \in S THEN << <<>>[i] >> ELSE <<>>] = <<>>
      OBVIOUS
    <3> QED
      BY <2>2, <3>1 DEF Only
  <2> QED
    BY <2>1, <2>3
<1>3. ASSUME NEW k \in 0 .. n - 1, Q(k) PROVE Q(k + 1)
  <2> DEFINE v == SubSeq(s, 1, k)
             x == s[k + 1]
             o == Only(v, S)
  <2>1. v \in Seq(T) /\ x \in T /\ SubSeq(s, 1, k + 1) = Append(v, x)
    BY SubSeqMore
  <2>2. o \in Seq(T) /\ ToSet(o) = ToSet(v) \cap S
    BY <1>3
  <2> HIDE DEF v, x
  <2>3. Only(Append(v, x), S) = IF x \in S THEN Append(o, x) ELSE o
    BY <2>1, OnlyAppend
  <2> HIDE DEF o
  <2>4. ToSet(Append(v, x)) = ToSet(v) \cup {x} /\ ToSet(Append(o, x)) = ToSet(o) \cup {x}
    BY <2>1, <2>2, ToSetAppend
  <2>5. Append(v, x) \in Seq(T) /\ Append(o, x) \in Seq(T)
    BY <2>1, <2>2
  <2>6. Only(Append(v, x), S) \in Seq(T) /\ ToSet(Only(Append(v, x), S)) = ToSet(Append(v, x)) \cap S
    BY <2>2, <2>3, <2>4, <2>5
  <2> QED
    BY <2>1, <2>5, <2>6
<1>4. Q(n)
  <2> HIDE DEF Q
  <2>1. 0 \in K /\ n \in 0 .. n
    BY <1>1, <1>2
  <2>2. ASSUME NEW k \in 0 .. n - 1, k \in K PROVE k + 1 \in K
    <3>1. k + 1 \in 0 .. n
      BY <1>1
    <3> QED
      BY <1>3, <2>2, <3>1
  <2>3. n \in K
    <3> HIDE DEF K, n
    <3> QED
      BY <1>1, <2>1, <2>2, Induct
  <2> QED
    BY <2>3
<1>5. SubSeq(s, 1, n) = s
  OBVIOUS
<1> QED
  BY <1>4, <1>5

\* The elements of o come in the order of the first k of s.
Follows(o, s, k) ==
    \A i, j \in DOMAIN o : i < j => \E a, b \in 1 .. k : a < b /\ s[a] = o[i] /\ s[b] = o[j]

\* They come in the order of the list.
LEMMA OnlyOrdered ==
    ASSUME NEW T, NEW s \in Seq(T), NEW S
    PROVE  Follows(Only(s, S), s, Len(s))
<1> DEFINE n == Len(s)
           Q(k) == Follows(Only(SubSeq(s, 1, k), S), s, k)
           K == {k \in 0 .. n : Q(k)}
<1>1. n \in Nat
  OBVIOUS
<1>2. Q(0)
  <2>1. SubSeq(s, 1, 0) = <<>> /\ <<>> \in Seq(T) /\ ToSet(<<>>) = {}
    BY DEF ToSet
  <2>2. ToSet(Only(<<>>, S)) = {}
    <3> DEFINE e == <<>>
    <3>1. e \in Seq(T) /\ ToSet(e) = {}
      BY <2>1
    <3> HIDE DEF e
    <3>2. ToSet(Only(e, S)) = {}
      BY <3>1, OnlyElements
    <3> QED
      BY <3>2 DEF e
  <2>3. DOMAIN Only(<<>>, S) = {}
    BY <2>2 DEF ToSet
  <2> QED
    BY <2>1, <2>3 DEF Follows
<1>3. ASSUME NEW k \in 0 .. n - 1, Q(k) PROVE Q(k + 1)
  <2> DEFINE v == SubSeq(s, 1, k)
             x == s[k + 1]
             o == Only(v, S)
             m == Len(o)
             p == Only(Append(v, x), S)
  <2>1. v \in Seq(T) /\ x \in T /\ SubSeq(s, 1, k + 1) = Append(v, x)
    BY SubSeqMore
  <2>2. DOMAIN v = 1 .. k /\ \A a \in 1 .. k : v[a] = s[a]
    BY <1>1
  <2>3. \A i, j \in DOMAIN o : i < j => \E a, b \in 1 .. k : a < b /\ s[a] = o[i] /\ s[b] = o[j]
    BY <1>3 DEF Follows
  <2> HIDE DEF v
  <2>4. o \in Seq(T) /\ ToSet(o) = ToSet(v) \cap S
    BY <2>1, OnlyElements
  <2>5. \A i \in DOMAIN o : \E a \in 1 .. k : s[a] = o[i]
    <3> SUFFICES ASSUME NEW i \in DOMAIN o PROVE \E a \in 1 .. k : s[a] = o[i]
      OBVIOUS
    <3>1. o[i] \in ToSet(v)
      <4>1. o[i] \in ToSet(o)
        BY DEF ToSet
      <4> QED
        BY <2>4, <4>1
    <3>2. PICK a \in DOMAIN v : o[i] = v[a]
      BY <3>1 DEF ToSet
    <3> QED
      BY <2>2, <3>2
  <2>6. p = IF x \in S THEN Append(o, x) ELSE o
    <3> HIDE DEF x
    <3> QED
      BY <2>1, OnlyAppend
  <2>7. k \in Nat /\ k + 1 \in 1 .. k + 1 /\ \A a \in 1 .. k : a \in 1 .. k + 1 /\ a < k + 1
    BY <1>1
  <2>10. Only(SubSeq(s, 1, k + 1), S) = p
    BY <2>1
  <2> HIDE DEF o, p
  <2> SUFFICES \A i, j \in DOMAIN p : i < j =>
                  \E a, b \in 1 .. k + 1 : a < b /\ s[a] = p[i] /\ s[b] = p[j]
    BY <2>10 DEF Follows
  <2>8. CASE x \notin S
    <3>1. p = o
      BY <2>6, <2>8
    <3> QED
      BY <2>3, <2>7, <3>1
  <2>9. CASE x \in S
    <3>1. /\ m \in Nat /\ DOMAIN o = 1 .. m /\ DOMAIN Append(o, x) = 1 .. m + 1
          /\ Append(o, x)[m + 1] = x /\ \A i \in 1 .. m : Append(o, x)[i] = o[i]
      <4> HIDE DEF x
      <4> QED
        BY <2>1, <2>4
    <3>2. p = Append(o, x)
      BY <2>6, <2>9
    <3>3. ASSUME NEW i \in DOMAIN p, NEW j \in DOMAIN p, i < j
          PROVE  \E a, b \in 1 .. k + 1 : a < b /\ s[a] = p[i] /\ s[b] = p[j]
      <4>1. i \in 1 .. m /\ p[i] = o[i]
        BY <3>1, <3>2, <3>3
      <4>2. CASE j \in 1 .. m
        <5>1. p[j] = o[j]
          BY <3>1, <3>2, <4>2
        <5>2. PICK a \in 1 .. k, b \in 1 .. k : a < b /\ s[a] = o[i] /\ s[b] = o[j]
          BY <2>3, <3>1, <3>3, <4>1, <4>2
        <5> QED
          BY <2>7, <4>1, <5>1, <5>2
      <4>3. CASE j = m + 1
        <5>1. p[j] = s[k + 1]
          BY <3>1, <3>2, <4>3
        <5>2. PICK a \in 1 .. k : s[a] = o[i]
          BY <2>5, <3>1, <4>1
        <5> QED
          BY <2>7, <4>1, <5>1, <5>2
      <4> QED
        BY <3>1, <3>2, <3>3, <4>2, <4>3
    <3> QED
      BY <3>3
  <2> QED
    BY <2>8, <2>9
<1>4. Q(n)
  <2> HIDE DEF Q
  <2>1. 0 \in K /\ n \in 0 .. n
    BY <1>1, <1>2
  <2>2. ASSUME NEW k \in 0 .. n - 1, k \in K PROVE k + 1 \in K
    <3>1. k + 1 \in 0 .. n
      BY <1>1
    <3> QED
      BY <1>3, <2>2, <3>1
  <2>3. n \in K
    <3> HIDE DEF K, n
    <3> QED
      BY <1>1, <2>1, <2>2, Induct
  <2> QED
    BY <2>3
<1>5. SubSeq(s, 1, n) = s
  OBVIOUS
<1> QED
  BY <1>4, <1>5
=============================================================================
