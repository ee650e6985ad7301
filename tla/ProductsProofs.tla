--------------------------- MODULE ProductsProofs ---------------------------
(***************************************************************************)
(* Proofs about Products and the Limiter in front of it, for any number of *)
(* connections, files and requests and any size of the buckets: what the   *)
(* limiter grants, and what an answer of browse or fetch holds.            *)
(***************************************************************************)
EXTENDS Products, Lemmas, TLAPS

-----------------------------------------------------------------------------
(* The limiter. *)

\* What a connection was granted and what its bucket still holds, less what the
\* clock earned it: one bucket's worth while purge is about to delete its entry,
\* two at most otherwise.
Metered ==
    /\ bucket \in [Conns -> 0 .. Burst]
    /\ granted \in [Conns -> Nat]
    /\ earned \in [Conns -> Nat]
    /\ doomed \subseteq visitors
    /\ \A c \in Conns :
          /\ c \in old => granted[c] = 0 /\ bucket[c] = Burst
          /\ c \in doomed => granted[c] + bucket[c] <= Burst + earned[c]
          /\ c \in visitors => granted[c] + bucket[c] <= 2 * Burst + earned[c]
          /\ c \notin visitors => granted[c] <= Burst + earned[c]

\* At first no request was let through.
LEMMA MeteredInit == LimiterInit => Metered
  BY LimiterAssumption DEF LimiterInit, Metered

\* The token that Allow takes is counted.
LEMMA AllowMetered ==
    ASSUME Metered, NEW c \in Conns, NEW allowed \in BOOLEAN, Allow(c, allowed)
    PROVE  Metered'
<1> DEFINE left == IF c \in visitors THEN bucket[c] ELSE Burst
<1>0. /\ bucket \in [Conns -> 0 .. Burst] /\ granted \in [Conns -> Nat]
      /\ earned \in [Conns -> Nat]
      /\ doomed \subseteq visitors /\ Burst \in Nat \ {0}
      /\ left \in 0 .. Burst
  BY LimiterAssumption DEF Metered
<1>1. /\ visitors' = visitors \cup {c} /\ old' = old \ {c} /\ doomed' = doomed
      /\ earned' = earned
      /\ allowed <=> left > 0
      /\ bucket' = [bucket EXCEPT ![c] = IF allowed THEN left - 1 ELSE left]
      /\ granted' = [granted EXCEPT ![c] = IF allowed THEN @ + 1 ELSE @]
  BY DEF Allow, Enter
<1> HIDE DEF left
<1>2. bucket' \in [Conns -> 0 .. Burst] /\ granted' \in [Conns -> Nat]
  BY <1>0, <1>1
<1>3. \/ allowed /\ bucket'[c] = left - 1 /\ granted'[c] = granted[c] + 1
      \/ ~allowed /\ bucket'[c] = left /\ granted'[c] = granted[c]
  BY <1>0, <1>1
<1>4. bucket'[c] + granted'[c] = left + granted[c]
  BY <1>0, <1>3
<1>5. ASSUME NEW d \in Conns
      PROVE  /\ d \in old' => granted'[d] = 0 /\ bucket'[d] = Burst
             /\ d \in doomed' => granted'[d] + bucket'[d] <= Burst + earned'[d]
             /\ d \in visitors' => granted'[d] + bucket'[d] <= 2 * Burst + earned'[d]
             /\ d \notin visitors' => granted'[d] <= Burst + earned'[d]
  <2>1. CASE d = c
    <3>1. CASE c \in visitors
      <4>1. left = bucket[c]
        BY <3>1 DEF left
      <4> QED
        BY <1>0, <1>1, <1>2, <1>4, <2>1, <3>1, <4>1 DEF Metered
    <3>2. CASE c \notin visitors
      <4>1. left = Burst /\ granted[c] <= Burst + earned[c]
        BY <3>2 DEF left, Metered
      <4> QED
        BY <1>0, <1>1, <1>2, <1>4, <2>1, <3>2, <4>1
    <3> QED
      BY <3>1, <3>2
  <2>2. CASE d # c
    <3>1. bucket'[d] = bucket[d] /\ granted'[d] = granted[d]
      BY <1>0, <1>1, <2>2
    <3> QED
      BY <1>1, <2>2, <3>1 DEF Metered
  <2> QED
    BY <2>1, <2>2
<1>6. doomed' \subseteq visitors'
  BY <1>0, <1>1
<1> QED
  BY <1>0, <1>1, <1>2, <1>5, <1>6 DEF Metered

\* Every step of the limiter keeps the counts within two buckets.
LEMMA LimiterStep ==
    ASSUME Metered, LimiterNext
    PROVE  Metered'
<1>0. Burst \in Nat \ {0}
  BY LimiterAssumption
<1>1. ASSUME NEW c \in Conns, Idle(c) PROVE Metered'
  <2>1. /\ bucket' = [bucket EXCEPT ![c] = Burst] /\ granted' = [granted EXCEPT ![c] = 0]
        /\ earned' = [earned EXCEPT ![c] = 0]
        /\ old' = old \cup {c} /\ UNCHANGED <<visitors, doomed>>
    BY <1>1 DEF Idle
  <2> QED
    BY <1>0, <2>1 DEF Metered
<1>2. CASE Collect
  <2>1. doomed' = visitors \cap old /\ UNCHANGED <<visitors, bucket, old, granted, earned>>
    BY <1>2 DEF Collect, TooOld
  <2> QED
    BY <1>0, <2>1 DEF Metered
<1>3. CASE Purge
  <2>1. /\ visitors' = visitors \ doomed /\ doomed' = {}
        /\ UNCHANGED <<bucket, old, granted, earned>>
    BY <1>3 DEF Purge
  <2>2. ASSUME NEW c \in Conns, c \in doomed PROVE granted[c] <= Burst + earned[c]
    BY <1>0, <2>2 DEF Metered
  <2> QED
    BY <1>0, <2>1, <2>2 DEF Metered
<1>4. ASSUME NEW c \in Conns, Refill(c) PROVE Metered'
  <2>1. /\ bucket' = [bucket EXCEPT ![c] = @ + 1] /\ earned' = [earned EXCEPT ![c] = @ + 1]
        /\ c \in visitors /\ bucket[c] < Burst /\ UNCHANGED <<visitors, old, doomed, granted>>
    BY <1>4 DEF Refill
  <2> QED
    BY <1>0, <2>1 DEF Metered
<1> QED
  BY <1>1, <1>2, <1>3, <1>4 DEF LimiterNext

\* The handlers leave the limiter alone.
LEMMA MeteredStep == Metered /\ [Next]_vars => Metered'
<1> SUFFICES ASSUME Metered, [Next]_vars PROVE Metered'
  OBVIOUS
<1>1. ASSUME UNCHANGED limiterVars PROVE Metered'
  BY <1>1 DEF Metered, limiterVars
<1>2. ASSUME NEW c \in Conns, NEW f \in Name, NEW a \in Accepts, AskProduct(c, f, a)
      PROVE  Metered'
  <2>1. PICK allowed \in BOOLEAN : Limit(c, allowed)
    BY <1>2 DEF AskProduct
  <2> QED
    BY <1>1, <2>1, AllowMetered DEF Limit
<1>3. ASSUME NEW c \in Conns, Serve(c) PROVE Metered'
  <2>1. UNCHANGED limiterVars
    BY <1>3 DEF Serve, Open, ReadHeader, ReadBody, ReadRemoved, Send, List, Visit,
       Entered, Copy, Close
  <2> QED
    BY <1>1, <2>1
<1>4. ASSUME NEW c \in Conns, Asks(c) PROVE Metered'
  <2>1. CASE \E f \in Name, a \in Accepts : AskProduct(c, f, a)
    BY <1>2, <2>1
  <2>2. CASE \E t \in {"tar", "zip", "rar"}, m \in BOOLEAN : AskArchive(c, t, m)
    BY <1>1, <2>2 DEF AskArchive
  <2>3. CASE \E a \in Accepts, found \in BOOLEAN : Browse(c, a, found)
    BY <1>1, <2>3 DEF Browse
  <2> QED
    BY <1>4, <2>1, <2>2, <2>3 DEF Asks
<1>5. ASSUME NEW f \in Name, Writer(f) PROVE Metered'
  <2>1. UNCHANGED limiterVars
    BY <1>5 DEF Writer, Create, Fill, Unlink
  <2> QED
    BY <1>1, <2>1
<1>6. CASE UNCHANGED vars
  BY <1>1, <1>6 DEF vars
<1> QED
  BY <1>3, <1>4, <1>5, <1>6, LimiterStep DEF Next, Quiet

\* Since a connection was last idle it got no more requests than two buckets hold
\* and the clock earned it, whenever purge runs beside its requests.
THEOREM RateLimited == Spec => []RateHeld
<1>1. Init => Metered
  BY MeteredInit DEF Init
<1>2. Metered => RateHeld
  <2> SUFFICES ASSUME Metered, NEW c \in Conns PROVE granted[c] <= 2 * Burst + earned[c]
    BY DEF RateHeld
  <2>1. /\ granted[c] \in Nat /\ bucket[c] \in Nat /\ Burst \in Nat /\ earned[c] \in Nat
        /\ \/ granted[c] + bucket[c] <= 2 * Burst + earned[c]
           \/ granted[c] <= Burst + earned[c]
    BY LimiterAssumption DEF Metered
  <2> QED
    BY <2>1
<1> QED
  BY <1>1, <1>2, MeteredStep, PTL DEF Spec
-----------------------------------------------------------------------------
(* The files and the requests for products. *)

\* A file that is there is the beginning of its newest copy.
Holds(f) ==
    /\ disk[f] \in Seq(Nat) /\ Len(disk[f]) <= Pieces /\ copies[f] >= 1
    /\ \A n \in DOMAIN disk[f] : disk[f][n] = copies[f]

Disked ==
    /\ copies \in [Name -> Nat]
    /\ disk = [f \in Name |-> disk[f]]
    /\ \A f \in Name : disk[f] # Absent => Holds(f)

\* The fields of a request.
Shaped(r) ==
    r = [pc |-> r.pc, kind |-> r.kind, file |-> r.file, accept |-> r.accept, meta |-> r.meta,
         data |-> r.data, todo |-> r.todo, size |-> r.size, out |-> r.out, code |-> r.code,
         end |-> r.end]

\* The data d was read from copies up to v, never from an older one after a
\* newer one.
Ascends(d, v) ==
    /\ d \in Seq(Nat)
    /\ \A i, j \in DOMAIN d : i < j => d[i] <= d[j]
    /\ \A n \in DOMAIN d : d[n] <= v

Whole(d, v) == \E u \in 1 .. v : d = [n \in 1 .. Pieces |-> u]

\* The handler has read all it will.
HasRead(r) == r.pc = "send" \/ (r.pc = "done" /\ r.code = 200)

\* A request r for a product, with t the files touched since it was made, dk
\* the contents of the files and cp the numbers of their copies: what
\* it has read is in order; if its file was left alone, the file is complete, and
\* what was read is the beginning of it, and all of it in the end.
Fetches(r, t, dk, cp) ==
    r.kind = "product" =>
        /\ r.pc \in {"open", "read", "send", "done"}
        /\ r.file \in Name
        /\ r.pc = "open" =>
              /\ r.data = <<>>
              /\ r.file \notin t => dk[r.file] = Absent \/ Len(dk[r.file]) = Pieces
        /\ r.pc = "read" \/ HasRead(r) => Ascends(r.data, cp[r.file])
        /\ r.pc = "read" /\ r.file \notin t =>
              /\ dk[r.file] # Absent /\ Len(dk[r.file]) = Pieces /\ Len(r.data) <= Pieces
              /\ \A n \in DOMAIN r.data : r.data[n] = cp[r.file]
        /\ HasRead(r) /\ r.file \notin t => Whole(r.data, cp[r.file])

Fetched ==
    /\ Disked
    /\ req = [c \in Conns |-> req[c]]
    /\ touched = [c \in Conns |-> touched[c]]
    /\ \A c \in Conns : Shaped(req[c]) /\ Fetches(req[c], touched[c], disk, copies)

\* The server starts with complete files and without requests.
LEMMA InitFetched == Init => Fetched
<1> SUFFICES ASSUME Init PROVE Fetched
  OBVIOUS
<1>1. /\ disk = [f \in Name |-> IF f \in Present THEN [n \in 1 .. Pieces |-> 1] ELSE Absent]
      /\ copies = [f \in Name |-> IF f \in Present THEN 1 ELSE 0]
      /\ req = [c \in Conns |-> Idling] /\ touched = [c \in Conns |-> {}]
  BY DEF Init
<1>2. Pieces \in Nat
  BY ProductsAssumption
<1>3. ASSUME NEW f \in Name, disk[f] # Absent PROVE Holds(f)
  <2>1. disk[f] = [n \in 1 .. Pieces |-> 1] /\ copies[f] = 1
    BY <1>1, <1>3
  <2> QED
    BY <1>2, <2>1 DEF Holds
<1>4. Disked
  BY <1>1, <1>3 DEF Disked
<1>5. Shaped(Idling) /\ Idling.kind = Blank /\ Blank # "product"
  <2>1. Blank # "product"
    BY Zenon DEF Blank
  <2> QED
    BY <2>1 DEF Shaped, Idling
<1>6. \A c \in Conns : req[c] = Idling
  BY <1>1
<1>7. \A c \in Conns : Shaped(req[c]) /\ Fetches(req[c], touched[c], disk, copies)
  BY <1>5, <1>6 DEF Fetches
<1> QED
  BY <1>1, <1>4, <1>7 DEF Fetched

\* Only the file f changes from dk to dl and from cp to cq.
Changes(f, dk, dl, cp, cq) ==
    /\ \A h \in Name : cp[h] <= cq[h] /\ cp[h] \in Nat /\ cq[h] \in Nat
    /\ \A h \in Name : h # f => dl[h] = dk[h] /\ cq[h] = cp[h]

\* Of a file that changes a request knows that it was touched.
LEMMA FetchesStays ==
    ASSUME NEW r, NEW t, NEW f, NEW dk, NEW dl, NEW cp, NEW cq,
           Fetches(r, t, dk, cp), Changes(f, dk, dl, cp, cq)
    PROVE  Fetches(r, t \cup {f}, dl, cq)
<1> SUFFICES ASSUME r.kind = "product" PROVE Fetches(r, t \cup {f}, dl, cq)
  BY DEF Fetches
<1>2. /\ r.pc \in {"open", "read", "send", "done"} /\ r.file \in Name
      /\ r.pc = "open" => r.data = <<>>
  BY DEF Fetches
<1>3. ASSUME r.pc = "read" \/ HasRead(r) PROVE Ascends(r.data, cq[r.file])
  <2> DEFINE d == r.data
             h == r.file
  <2>1. Ascends(d, cp[h])
    BY <1>3 DEF Fetches
  <2>2. cp[h] <= cq[h] /\ cp[h] \in Nat /\ cq[h] \in Nat
    BY <1>2 DEF Changes
  <2> HIDE DEF d, h
  <2>3. Ascends(d, cq[h])
    BY ONLY <2>1, <2>2 DEF Ascends
  <2> QED
    BY <2>3 DEF d, h
<1>4. ASSUME r.file \notin t \cup {f}
      PROVE  r.file \notin t /\ dl[r.file] = dk[r.file] /\ cq[r.file] = cp[r.file]
  BY <1>2, <1>4 DEF Changes
<1>5. /\ r.pc = "open" /\ r.file \notin t \cup {f} => dl[r.file] = Absent \/ Len(dl[r.file]) = Pieces
      /\ r.pc = "read" /\ r.file \notin t \cup {f} =>
            /\ dl[r.file] # Absent /\ Len(dl[r.file]) = Pieces /\ Len(r.data) <= Pieces
            /\ \A n \in DOMAIN r.data : r.data[n] = cq[r.file]
      /\ HasRead(r) /\ r.file \notin t \cup {f} => Whole(r.data, cq[r.file])
  BY <1>4 DEF Fetches
<1> QED
  BY <1>2, <1>3, <1>5 DEF Fetches

\* A file is written or removed: who reads it is told.
LEMMA WriterFetched ==
    ASSUME Fetched, NEW f \in Name, Writer(f)
    PROVE  Fetched'
<1>0. /\ copies \in [Name -> Nat] /\ disk = [h \in Name |-> disk[h]] /\ Pieces \in Nat
      /\ \A h \in Name : disk[h] # Absent => Holds(h)
      /\ req = [c \in Conns |-> req[c]]
      /\ \A c \in Conns : Shaped(req[c]) /\ Fetches(req[c], touched[c], disk, copies)
  BY ProductsAssumption DEF Fetched, Disked
<1>1. /\ touched' = [c \in Conns |-> touched[c] \cup {f}] /\ req' = req
      /\ \A h \in Name : h # f => disk'[h] = disk[h] /\ copies'[h] = copies[h]
      /\ disk' = [h \in Name |-> disk'[h]] /\ copies' \in [Name -> Nat]
      /\ copies[f] <= copies'[f]
      /\ disk'[f] # Absent => Holds(f)'
  <2>1. CASE Create(f)
    <3>1. disk' = [disk EXCEPT ![f] = <<>>] /\ copies' = [copies EXCEPT ![f] = copies[f] + 1]
          /\ touched' = [c \in Conns |-> touched[c] \cup {f}] /\ req' = req
      BY <2>1 DEF Create, Touch
    <3>2. disk'[f] = <<>> /\ copies'[f] = copies[f] + 1 /\ copies[f] \in Nat
      BY <1>0, <3>1
    <3>3. Holds(f)'
      BY <1>0, <3>2 DEF Holds
    <3>4. /\ \A h \in Name : h # f => disk'[h] = disk[h] /\ copies'[h] = copies[h]
          /\ disk' = [h \in Name |-> disk'[h]] /\ copies' \in [Name -> Nat]
      <4>1. \A h \in Name : h # f => disk'[h] = disk[h] /\ copies'[h] = copies[h]
        BY <1>0, <3>1
      <4>2. disk' = [h \in Name |-> disk'[h]]
        <5> DEFINE x == <<>>
        <5>1. disk' = [disk EXCEPT ![f] = x]
          BY <3>1
        <5> HIDE DEF x
        <5> QED
          BY <1>0, <5>1
      <4>3. copies' \in [Name -> Nat]
        BY <1>0, <3>1, <3>2
      <4> QED
        BY <4>1, <4>2, <4>3
    <3>5. copies[f] <= copies'[f]
      BY <3>2
    <3> QED
      BY <3>1, <3>3, <3>4, <3>5
  <2>2. CASE Fill(f)
    <3>1. disk' = [disk EXCEPT ![f] = Append(disk[f], copies[f])] /\ copies' = copies
          /\ touched' = [c \in Conns |-> touched[c] \cup {f}] /\ req' = req
          /\ disk[f] # Absent /\ Len(disk[f]) < Pieces
      BY <2>2 DEF Fill, Touch
    <3>2. disk'[f] = Append(disk[f], copies[f]) /\ copies[f] \in Nat /\ copies'[f] = copies[f]
      BY <1>0, <3>1
    <3>3. Holds(f)
      BY <1>0, <3>1
    <3>4. Holds(f)'
      <4> DEFINE s == disk[f]
                 v == copies[f]
      <4>1. s \in Seq(Nat) /\ Len(s) < Pieces /\ v \in Nat /\ v >= 1 /\ \A n \in DOMAIN s : s[n] = v
        BY <3>1, <3>2, <3>3 DEF Holds
      <4> HIDE DEF s, v
      <4>2. /\ Append(s, v) \in Seq(Nat) /\ Len(Append(s, v)) <= Pieces
            /\ \A n \in DOMAIN Append(s, v) : Append(s, v)[n] = v
        BY <1>0, <4>1
      <4> QED
        BY <3>2, <4>1, <4>2 DEF Holds, s, v
    <3>5. /\ \A h \in Name : h # f => disk'[h] = disk[h] /\ copies'[h] = copies[h]
          /\ disk' = [h \in Name |-> disk'[h]] /\ copies' \in [Name -> Nat]
      BY <1>0, <3>1
    <3>6. copies[f] <= copies'[f]
      BY <3>2
    <3> QED
      BY <3>1, <3>4, <3>5, <3>6
  <2>3. CASE Unlink(f)
    <3>1. disk' = [disk EXCEPT ![f] = Absent] /\ copies' = copies
          /\ touched' = [c \in Conns |-> touched[c] \cup {f}] /\ req' = req
      BY <2>3 DEF Unlink, Touch
    <3> QED
      BY <1>0, <3>1
  <2> QED
    BY <2>1, <2>2, <2>3 DEF Writer
<1>2. Disked'
  <2>1. ASSUME NEW h \in Name, disk'[h] # Absent PROVE Holds(h)'
    <3>1. CASE h = f
      BY <1>1, <2>1, <3>1
    <3>2. CASE h # f
      BY <1>0, <1>1, <2>1, <3>2 DEF Holds
    <3> QED
      BY <3>1, <3>2
  <2> QED
    BY <1>1, <2>1 DEF Disked
<1>3. \A h \in Name : copies[h] <= copies'[h] /\ copies[h] \in Nat /\ copies'[h] \in Nat
  BY <1>0, <1>1
<1>4. ASSUME NEW c \in Conns PROVE Fetches(req'[c], touched'[c], disk', copies')
  <2>1. Fetches(req[c], touched[c], disk, copies) /\ req'[c] = req[c]
        /\ touched'[c] = touched[c] \cup {f}
    BY <1>0, <1>1
  <2>2. Changes(f, disk, disk', copies, copies')
    BY <1>1, <1>3 DEF Changes
  <2>3. Fetches(req[c], touched[c] \cup {f}, disk', copies')
    BY ONLY <2>1, <2>2, FetchesStays
  <2> QED
    BY <2>1, <2>3
<1>5. \A c \in Conns : Shaped(req[c])'
  BY <1>0, <1>1 DEF Shaped
<1> QED
  BY <1>0, <1>1, <1>2, <1>4, <1>5 DEF Fetched

\* A connection changes its request.
LEMMA UpdateFetched ==
    ASSUME Fetched, NEW c \in Conns, NEW s, NEW t, Update(c, s), UNCHANGED <<disk, copies>>,
           touched' = [touched EXCEPT ![c] = t], Shaped(s), Fetches(s, t, disk, copies)
    PROVE  Fetched'
<1>0. /\ Disked /\ req = [x \in Conns |-> req[x]] /\ touched = [x \in Conns |-> touched[x]]
      /\ \A x \in Conns : Shaped(req[x]) /\ Fetches(req[x], touched[x], disk, copies)
  BY DEF Fetched
<1>1. Disked'
  BY <1>0 DEF Disked, Holds
<1>2. /\ req' = [req EXCEPT ![c] = s] /\ disk' = disk /\ copies' = copies
  BY DEF Update
<1>3. /\ req' = [x \in Conns |-> req'[x]] /\ touched' = [x \in Conns |-> touched'[x]]
      /\ req'[c] = s /\ touched'[c] = t
      /\ \A x \in Conns : x # c => req'[x] = req[x] /\ touched'[x] = touched[x]
  BY <1>0, <1>2
<1>4. ASSUME NEW x \in Conns PROVE Shaped(req'[x]) /\ Fetches(req'[x], touched'[x], disk', copies')
  <2>1. CASE x = c
    BY <1>2, <1>3, <2>1
  <2>2. CASE x # c
    BY <1>0, <1>2, <1>3, <2>2
  <2> QED
    BY <2>1, <2>2
<1> QED
  BY <1>1, <1>3, <1>4 DEF Fetched

\* Reading in order: nothing, a piece more, the rest of the newest copy.
LEMMA AscendsEmpty ==
    ASSUME NEW v PROVE Ascends(<<>>, v)
<1>1. <<>> \in Seq(Nat) /\ DOMAIN <<>> = {}
  OBVIOUS
<1> QED
  BY <1>1 DEF Ascends

Continues(d, k, v) ==
    LET e == d \o [n \in 1 .. k |-> v]
    IN  /\ Ascends(e, v)
        /\ (\A n \in DOMAIN d : d[n] = v) => \A n \in DOMAIN e : e[n] = v

\* Data that ascends still does with pieces of the newest copy behind it.
LEMMA AscendsMore ==
    ASSUME NEW d, NEW v \in Nat, NEW k \in Nat, Ascends(d, v)
    PROVE  Continues(d, k, v)
<1> DEFINE x == [n \in 1 .. k |-> v]
           e == d \o x
<1>1. d \in Seq(Nat) /\ DOMAIN d = 1 .. Len(d) /\ Len(d) \in Nat
  BY DEF Ascends
<1>2. x \in Seq(Nat) /\ Len(x) = k /\ \A n \in 1 .. k : x[n] = v
  OBVIOUS
<1> HIDE DEF x
<1>3. /\ e \in Seq(Nat) /\ Len(e) = Len(d) + k /\ DOMAIN e = 1 .. Len(d) + k
      /\ \A n \in 1 .. Len(d) : e[n] = d[n]
      /\ \A n \in Len(d) + 1 .. Len(d) + k : e[n] = x[n - Len(d)]
  BY <1>1, <1>2
<1> HIDE DEF e
<1>4. \A n \in 1 .. Len(d) + k : n \in 1 .. Len(d) \/ e[n] = v
  <2> SUFFICES ASSUME NEW n \in 1 .. Len(d) + k, n \notin 1 .. Len(d) PROVE e[n] = v
    OBVIOUS
  <2>1. n \in Len(d) + 1 .. Len(d) + k /\ n - Len(d) \in 1 .. k
    BY <1>1
  <2> QED
    BY <1>2, <1>3, <2>1
<1>5. \A n \in 1 .. Len(d) : d[n] <= v /\ d[n] \in Nat
  BY <1>1 DEF Ascends
<1>6. \A n \in DOMAIN e : e[n] <= v
  BY <1>3, <1>4, <1>5
<1>7. ASSUME NEW i \in DOMAIN e, NEW j \in DOMAIN e, i < j PROVE e[i] <= e[j]
  <2>1. CASE j \in 1 .. Len(d)
    <3>1. i \in 1 .. Len(d)
      BY <1>1, <1>3, <1>7, <2>1
    <3>2. d[i] <= d[j]
      BY <1>1, <1>7, <2>1, <3>1 DEF Ascends
    <3> QED
      BY <1>3, <2>1, <3>1, <3>2
  <2>2. CASE e[j] = v
    BY <1>6, <2>2
  <2> QED
    BY <1>3, <1>4, <2>1, <2>2
<1>8. Ascends(e, v)
  BY <1>3, <1>6, <1>7 DEF Ascends
<1>9. (\A n \in DOMAIN d : d[n] = v) => \A n \in DOMAIN e : e[n] = v
  BY <1>1, <1>3, <1>4
<1> QED
  BY <1>8, <1>9 DEF e, x, Continues

\* One value as often as there are pieces is a whole copy.
LEMMA AllWhole ==
    ASSUME NEW d \in Seq(Nat), Len(d) = Pieces, NEW v \in Nat, v >= 1, \A n \in DOMAIN d : d[n] = v
    PROVE  Whole(d, v)
<1>1. d = [n \in 1 .. Pieces |-> v]
  OBVIOUS
<1>2. v \in 1 .. v
  OBVIOUS
<1> QED
  BY <1>1, <1>2, Zenon DEF Whole

\* The piece that a reader finds in a file that is there.
LEMMA PieceThere ==
    ASSUME Disked, NEW f \in Name, disk[f] # Absent, NEW n \in Nat, n >= 1
    PROVE  /\ copies[f] \in Nat /\ copies[f] >= 1 /\ Len(disk[f]) \in Nat /\ Len(disk[f]) <= Pieces
           /\ PieceAt(f, n) = IF n <= Len(disk[f]) THEN <<copies[f]>> ELSE <<>>
<1>1. Holds(f) /\ copies[f] \in Nat
  BY DEF Disked
<1>2. n <= Len(disk[f]) => disk[f][n] = copies[f]
  BY <1>1 DEF Holds
<1>3. Len(disk[f]) \in Nat
  BY <1>1 DEF Holds
<1> QED
  BY <1>1, <1>2, <1>3 DEF PieceAt, Holds

\* What a request for a product knows of its data in each step of the handler.
Fetching(r, t) ==
    /\ Shaped(r) /\ r.kind = "product" /\ r.file \in Name
    /\ Fetches(r, t, disk, copies)

\* A request that goes on reading.
LEMMA ReadsOn ==
    ASSUME NEW s, NEW t, Shaped(s), s.pc = "read", s.file \in Name,
           Ascends(s.data, copies[s.file]),
           s.file \notin t =>
               /\ disk[s.file] # Absent /\ Len(disk[s.file]) = Pieces /\ Len(s.data) <= Pieces
               /\ \A n \in DOMAIN s.data : s.data[n] = copies[s.file]
    PROVE  Fetches(s, t, disk, copies)
BY DEF Fetches, HasRead

\* A request that has read all.
LEMMA ReadsAll ==
    ASSUME NEW s, NEW t, Shaped(s), HasRead(s), s.file \in Name,
           Ascends(s.data, copies[s.file]),
           s.file \notin t => Whole(s.data, copies[s.file])
    PROVE  Fetches(s, t, disk, copies)
BY DEF Fetches, HasRead

\* A request that was refused.
LEMMA ReadsNone ==
    ASSUME NEW s, NEW t, Shaped(s), s.pc = "done", s.code # 200, s.file \in Name
    PROVE  Fetches(s, t, disk, copies)
BY DEF Fetches, HasRead

\* A request whose fields are those of r, other than the ones given.
Becomes(s, r, p, d, k) ==
    /\ Shaped(s) /\ s.kind = r.kind /\ s.file = r.file
    /\ s.pc = p /\ s.data = d /\ s.code = k

\* One field of a request changes.
LEMMA SetField ==
    ASSUME NEW r, Shaped(r), NEW x
    PROVE  /\ Becomes([r EXCEPT !.pc = x], r, x, r.data, r.code)
           /\ Becomes([r EXCEPT !.data = x], r, r.pc, x, r.code)
           /\ Becomes([r EXCEPT !.code = x], r, r.pc, r.data, x)
           /\ Becomes([r EXCEPT !.accept = x], r, r.pc, r.data, r.code)
           /\ Becomes([r EXCEPT !.todo = x], r, r.pc, r.data, r.code)
           /\ Becomes([r EXCEPT !.out = x], r, r.pc, r.data, r.code)
           /\ Becomes([r EXCEPT !.end = x], r, r.pc, r.data, r.code)
<1>1. Becomes([r EXCEPT !.pc = x], r, x, r.data, r.code)
  BY DEF Shaped, Becomes
<1>2. Becomes([r EXCEPT !.data = x], r, r.pc, x, r.code)
  BY DEF Shaped, Becomes
<1>3. Becomes([r EXCEPT !.code = x], r, r.pc, r.data, x)
  BY DEF Shaped, Becomes
<1>4. Becomes([r EXCEPT !.accept = x], r, r.pc, r.data, r.code)
  BY DEF Shaped, Becomes
<1>5. Becomes([r EXCEPT !.todo = x], r, r.pc, r.data, r.code)
  BY DEF Shaped, Becomes
<1>6. Becomes([r EXCEPT !.out = x], r, r.pc, r.data, r.code)
  BY DEF Shaped, Becomes
<1>7. Becomes([r EXCEPT !.end = x], r, r.pc, r.data, r.code)
  BY DEF Shaped, Becomes
<1> QED
  BY <1>1, <1>2, <1>3, <1>4, <1>5, <1>6, <1>7

\* The handler returns: with an error, or with what was read.
LEMMA AnswerFetched ==
    ASSUME Fetched, NEW c \in Conns, NEW code, Answer(c, code), req[c].kind = "product",
           code = 200 => req[c].pc = "send", UNCHANGED <<disk, copies, touched>>
    PROVE  Fetched'
<1> DEFINE r == req[c]
           t == touched[c]
           y == IF code = 200 THEN r.data ELSE <<>>
           s == [r EXCEPT !.pc = "done", !.code = code, !.accept = {}, !.data = y]
<1>0. Fetched
  OBVIOUS
<1>1. Shaped(r) /\ Fetches(r, t, disk, copies) /\ touched = [touched EXCEPT ![c] = t]
  BY DEF Fetched
<1>2. Update(c, s)
  BY DEF Answer
<1>3. r.file \in Name
  BY <1>1 DEF Fetches
<1>4. ASSUME code = 200
      PROVE  Ascends(r.data, copies[r.file]) /\ (r.file \notin t => Whole(r.data, copies[r.file]))
  <2>1. HasRead(r)
    BY <1>4 DEF HasRead
  <2> QED
    BY <1>1, <2>1 DEF Fetches
<1>5. code = 200 => y = r.data
  OBVIOUS
<1> HIDE DEF r, t, y
<1>6. Shaped(s) /\ s.pc = "done" /\ s.code = code /\ s.file = r.file /\ s.data = y
  <2> DEFINE a == [r EXCEPT !.pc = "done"]
             b == [a EXCEPT !.code = code]
             e == [b EXCEPT !.accept = {}]
  <2>1. Becomes(a, r, "done", r.data, r.code)
    BY <1>1, SetField
  <2>2. Shaped(a) /\ a.pc = "done" /\ a.data = r.data
    BY <2>1 DEF Becomes
  <2> HIDE DEF a
  <2>3. Becomes(b, a, a.pc, a.data, code)
    BY <2>2, SetField
  <2>4. Shaped(b) /\ b.pc = "done" /\ b.code = code
    BY <2>2, <2>3 DEF Becomes
  <2> HIDE DEF b
  <2>5. Becomes(e, b, b.pc, b.data, b.code)
    BY <2>4, SetField
  <2>6. Shaped(e) /\ e.pc = "done" /\ e.code = code
    BY <2>4, <2>5 DEF Becomes
  <2>7. s = [e EXCEPT !.data = y]
    BY DEF a, b
  <2> HIDE DEF e, s
  <2>8. Becomes(s, e, e.pc, y, e.code)
    BY <2>6, <2>7, SetField
  <2> QED
    BY <2>1, <2>3, <2>5, <2>6, <2>8 DEF Becomes
<1> HIDE DEF s
<1>7. Fetches(s, t, disk, copies)
  <2>1. CASE code = 200
    <3>1. HasRead(s) /\ s.data = r.data
      BY <1>5, <1>6, <2>1 DEF HasRead
    <3> QED
      BY <1>3, <1>4, <1>6, <2>1, <3>1, ReadsAll
  <2>2. CASE code # 200
    BY <1>3, <1>6, <2>2, ReadsNone
  <2> QED
    BY <2>1, <2>2
<1>8. touched' = [touched EXCEPT ![c] = t] /\ UNCHANGED <<disk, copies>>
  BY <1>1
<1> QED
  BY ONLY <1>0, <1>2, <1>6, <1>7, <1>8, UpdateFetched

\* The handler opens the file of a product.
LEMMA OpenFetched ==
    ASSUME Fetched, NEW c \in Conns, Open(c), req[c].kind = "product"
    PROVE  Fetched'
<1> DEFINE r == req[c]
           t == touched[c]
<1>1. Shaped(r) /\ Fetches(r, t, disk, copies) /\ touched = [touched EXCEPT ![c] = t]
  BY DEF Fetched
<1>2. r.pc = "open" /\ r.file \in Name /\ r.data = <<>>
      /\ (r.file \notin t => disk[r.file] = Absent \/ Len(disk[r.file]) = Pieces)
  BY <1>1 DEF Open, Fetches
<1>3. touched' = touched /\ UNCHANGED <<disk, copies>>
  BY DEF Open
<1>4. CASE disk[r.file] = Absent
  <2>1. Answer(c, 404)
    BY <1>4 DEF Open
  <2>2. 404 # 200
    OBVIOUS
  <2> QED
    BY <1>3, <2>1, <2>2, AnswerFetched
<1>5. CASE disk[r.file] # Absent
  <2> DEFINE s == [r EXCEPT !.pc = "read"]
  <2>1. Update(c, s)
    BY <1>5 DEF Open
  <2> HIDE DEF r
  <2>2. Shaped(s) /\ s.pc = "read" /\ s.data = <<>> /\ s.file = r.file
    BY <1>1, <1>2 DEF Shaped
  <2> HIDE DEF s, t
  <2>3. Len(s.data) <= Pieces /\ \A n \in DOMAIN s.data : s.data[n] = copies[s.file]
    BY <2>2, ProductsAssumption
  <2>4. Fetches(s, t, disk, copies)
    BY <1>2, <1>5, <2>2, <2>3, AscendsEmpty, ReadsOn
  <2> QED
    BY <1>1, <1>3, <2>1, <2>2, <2>4, UpdateFetched
<1> QED
  BY <1>4, <1>5

\* The handler reads the header.
LEMMA HeaderFetched ==
    ASSUME Fetched, NEW c \in Conns, ReadHeader(c), req[c].kind = "product"
    PROVE  Fetched'
<1> DEFINE r == req[c]
           t == touched[c]
           f == r.file
           piece == PieceAt(f, 1)
           xml == "xml" \in r.accept
<1>0. Fetched
  OBVIOUS
<1>1. Shaped(r) /\ Fetches(r, t, disk, copies) /\ touched = [touched EXCEPT ![c] = t] /\ Disked
  BY DEF Fetched
<1>2. /\ r.pc = "read" /\ disk[f] # Absent /\ touched' = touched /\ UNCHANGED <<disk, copies>>
  BY DEF ReadHeader
<1>3. f \in Name /\ (f \notin t => Len(disk[f]) = Pieces)
  BY <1>1, <1>2 DEF Fetches
<1>4. Pieces \in Nat /\ Pieces >= 2
  BY ProductsAssumption
<1>5. /\ copies[f] \in Nat /\ copies[f] >= 1 /\ Len(disk[f]) \in Nat
      /\ piece = IF 1 <= Len(disk[f]) THEN <<copies[f]>> ELSE <<>>
  BY <1>1, <1>2, <1>3, PieceThere
<1>6. f \notin t => piece = <<copies[f]>>
  BY <1>3, <1>4, <1>5
<1>7. \A v \in Nat : v <= copies[f] => Ascends(<<v>>, copies[f])
  <2> DEFINE k == copies[f]
  <2>1. k \in Nat
    BY <1>5
  <2> HIDE DEF k
  <2>2. \A v \in Nat : v <= k => Ascends(<<v>>, k)
    BY <1>4, <2>1 DEF Ascends
  <2> QED
    BY <2>2 DEF k
<1>8. \A x : x = <<>> \/ x = <<0>> \/ x = <<copies[f]>> => Ascends(x, copies[f])
  BY <1>5, <1>7, AscendsEmpty
<1> DEFINE y == IF xml THEN piece ELSE IF piece = <<>> THEN <<0>> ELSE piece
           w == IF xml /\ piece = <<>> THEN "send" ELSE "read"
           s == [r EXCEPT !.data = y, !.pc = w]
<1>9. Update(c, s)
  <2>1. IF xml THEN Update(c, [r EXCEPT !.data = piece,
                                         !.pc = IF piece = <<>> THEN "send" ELSE "read"])
               ELSE Update(c, [r EXCEPT !.data = IF piece = <<>> THEN <<0>> ELSE piece])
    BY DEF ReadHeader
  <2> HIDE DEF piece, xml
  <2>2. CASE xml
    BY <2>1, <2>2
  <2>3. CASE ~xml
    <3> DEFINE z == IF piece = <<>> THEN <<0>> ELSE piece
    <3>1. [r EXCEPT !.data = z] = [r EXCEPT !.data = z, !.pc = "read"]
      <4> HIDE DEF r, z
      <4> QED
        BY <1>1, <1>2 DEF Shaped, r
    <3> QED
      BY <2>1, <2>3, <3>1
  <2> QED
    BY <2>2, <2>3
<1>10. (y = <<>> \/ y = <<0>> \/ y = <<copies[f]>>) /\ (f \notin t => y = <<copies[f]>> /\ w = "read")
  <2> DEFINE x == <<copies[f]>>
  <2>1. x # <<>>
    OBVIOUS
  <2>2. (piece = x \/ piece = <<>>) /\ (f \notin t => piece = x)
    BY <1>5, <1>6
  <2> HIDE DEF x, piece, xml
  <2>3. (y = <<>> \/ y = <<0>> \/ y = x) /\ (f \notin t => y = x /\ w = "read")
    BY <2>1, <2>2
  <2> QED
    BY <2>3 DEF x
<1>11. w = "send" \/ w = "read"
  OBVIOUS
<1> HIDE DEF y, w, piece, xml, r
<1>12. Shaped(s) /\ s.pc = w /\ s.data = y /\ s.file = f
  <2> DEFINE a == [r EXCEPT !.data = y]
  <2>1. Becomes(a, r, r.pc, y, r.code)
    BY <1>1, SetField
  <2>2. s = [a EXCEPT !.pc = w]
    OBVIOUS
  <2> HIDE DEF a, s
  <2>3. Shaped(a) /\ a.data = y
    BY <2>1 DEF Becomes
  <2>4. Becomes(s, a, w, a.data, a.code)
    BY <2>2, <2>3, SetField
  <2> QED
    BY <2>1, <2>3, <2>4 DEF Becomes
<1> HIDE DEF s, t, f
<1>13. Ascends(y, copies[f])
  BY <1>8, <1>10
<1>14. f \notin t => /\ disk[f] # Absent /\ Len(disk[f]) = Pieces /\ Len(y) <= Pieces
                     /\ \A n \in DOMAIN y : y[n] = copies[f]
  <2>1. \A v : y = <<v>> => Len(y) <= Pieces /\ \A n \in DOMAIN y : y[n] = v
    BY <1>4
  <2> QED
    BY <1>2, <1>3, <1>10, <2>1
<1>15. Fetches(s, t, disk, copies)
  <2>1. CASE w = "read"
    BY <1>3, <1>12, <1>13, <1>14, <2>1, ReadsOn
  <2>2. CASE w = "send"
    <3>1. f \in t /\ HasRead(s)
      BY <1>10, <1>12, <2>2 DEF HasRead
    <3> QED
      BY <1>3, <1>12, <1>13, <3>1, ReadsAll
  <2> QED
    BY <1>11, <2>1, <2>2
<1>16. touched' = [touched EXCEPT ![c] = t] /\ UNCHANGED <<disk, copies>>
  BY <1>1, <1>2
<1> QED
  BY ONLY <1>0, <1>9, <1>12, <1>15, <1>16, UpdateFetched

\* The handler reads a piece more, or finds the end of the file.
LEMMA BodyFetched ==
    ASSUME Fetched, NEW c \in Conns, ReadBody(c), req[c].kind = "product"
    PROVE  Fetched'
<1> DEFINE r == req[c]
           t == touched[c]
           f == r.file
           d == r.data
           v == copies[f]
           at == Offset(d) + 1
           piece == PieceAt(f, at)
<1>0. Fetched
  OBVIOUS
<1>1. Shaped(r) /\ Fetches(r, t, disk, copies) /\ touched = [touched EXCEPT ![c] = t] /\ Disked
  BY DEF Fetched
<1>2. /\ r.pc = "read" /\ d # <<>> /\ disk[f] # Absent /\ touched' = touched /\ UNCHANGED <<disk, copies>>
  BY DEF ReadBody
<1>3. /\ f \in Name /\ Ascends(d, v)
      /\ f \notin t => Len(disk[f]) = Pieces /\ Len(d) <= Pieces /\ \A n \in DOMAIN d : d[n] = v
  BY <1>1, <1>2 DEF Fetches
<1>4. d \in Seq(Nat) /\ Len(d) \in Nat /\ 1 \in DOMAIN d /\ at \in Nat /\ at >= 1
  <2> HIDE DEF d
  <2>1. d \in Seq(Nat)
    BY <1>3 DEF Ascends
  <2>2. Len(d) \in Nat /\ 1 \in DOMAIN d /\ Len(d) >= 1
    BY <1>2, <2>1
  <2> QED
    BY <2>1, <2>2 DEF Offset
<1>5. /\ v \in Nat /\ v >= 1 /\ Len(disk[f]) \in Nat /\ Len(disk[f]) <= Pieces /\ Pieces \in Nat
      /\ piece = IF at <= Len(disk[f]) THEN <<v>> ELSE <<>>
  <2> HIDE DEF at
  <2> QED
    BY <1>1, <1>2, <1>3, <1>4, PieceThere, ProductsAssumption
<1>6. touched' = [touched EXCEPT ![c] = t] /\ UNCHANGED <<disk, copies>>
  BY <1>1, <1>2
<1>9. f \notin t => at = Len(d) + 1
  <2> SUFFICES ASSUME f \notin t PROVE at = Len(d) + 1
    OBVIOUS
  <2>1. d[1] = v
    BY <1>3, <1>4
  <2> HIDE DEF d, v
  <2> QED
    BY <1>5, <2>1 DEF Offset
<1> HIDE DEF at
<1>7. CASE at <= Len(disk[f])
  <2> DEFINE e == d \o piece
             s == [r EXCEPT !.data = e]
  <2>1. piece = <<v>> /\ piece # <<>>
    <3>1. piece = <<v>>
      BY <1>5, <1>7
    <3>2. ASSUME NEW x PROVE <<x>> # <<>>
      OBVIOUS
    <3> HIDE DEF piece, v
    <3> QED
      BY <3>1, <3>2
  <2>2. Update(c, s)
    <3>1. Update(c, IF piece = <<>> THEN [r EXCEPT !.pc = "send"] ELSE [r EXCEPT !.data = d \o piece])
      BY DEF ReadBody, at
    <3> HIDE DEF piece, r
    <3> QED
      BY <2>1, <3>1
  <2>3. Ascends(e, v) /\ (f \notin t => Len(e) <= Pieces /\ \A n \in DOMAIN e : e[n] = v)
    <3>1. <<v>> = [n \in 1 .. 1 |-> v]
      OBVIOUS
    <3>2. f \notin t => Len(d) + 1 <= Pieces
      BY <1>3, <1>5, <1>7, <1>9
    <3> HIDE DEF d, v
    <3> DEFINE x == d \o [n \in 1 .. 1 |-> v]
    <3>3. Ascends(x, v) /\ ((\A n \in DOMAIN d : d[n] = v) => \A n \in DOMAIN x : x[n] = v)
      <4>1. 1 \in Nat /\ v \in Nat /\ Ascends(d, v)
        BY <1>3, <1>5
      <4>2. Continues(d, 1, v)
        BY ONLY <4>1, AscendsMore
      <4> QED
        BY <4>2 DEF Continues
    <3>4. e = x
      BY <2>1, <3>1
    <3>5. Len(x) = Len(d) + 1
      BY <1>4
    <3> HIDE DEF x
    <3> QED
      BY <1>3, <3>2, <3>3, <3>4, <3>5
  <2> HIDE DEF e
  <2>4. Shaped(s) /\ s.pc = "read" /\ s.data = e /\ s.file = f
    <3> HIDE DEF r
    <3>1. Becomes(s, r, r.pc, e, r.code)
      BY <1>1, SetField
    <3> QED
      BY <1>2, <3>1 DEF Becomes
  <2> HIDE DEF s, t, r, f, v
  <2>5. Fetches(s, t, disk, copies)
    BY <1>2, <1>3, <2>3, <2>4, ReadsOn DEF v
  <2> QED
    BY ONLY <1>0, <1>6, <2>2, <2>4, <2>5, UpdateFetched
<1>8. CASE ~(at <= Len(disk[f]))
  <2> DEFINE s == [r EXCEPT !.pc = "send"]
  <2>1. piece = <<>>
    BY <1>5, <1>8
  <2>2. Update(c, s)
    <3>1. Update(c, IF piece = <<>> THEN [r EXCEPT !.pc = "send"] ELSE [r EXCEPT !.data = d \o piece])
      BY DEF ReadBody, at
    <3> HIDE DEF piece, r
    <3> QED
      BY <2>1, <3>1
  <2>3. f \notin t => Whole(d, v)
    <3>1. ASSUME f \notin t PROVE Len(d) = Pieces /\ \A n \in DOMAIN d : d[n] = v
      BY <1>3, <1>4, <1>5, <1>8, <1>9, <3>1
    <3> HIDE DEF d, v, t, f
    <3> QED
      BY <1>4, <1>5, <3>1, AllWhole
  <2>4. Shaped(s) /\ s.pc = "send" /\ s.data = d /\ s.file = f
    <3> HIDE DEF r
    <3>1. Becomes(s, r, "send", r.data, r.code)
      BY <1>1, SetField
    <3> QED
      BY <1>2, <3>1 DEF Becomes
  <2>5. HasRead(s)
    BY <2>4 DEF HasRead
  <2> HIDE DEF s, t, r, f, v, d
  <2>6. Fetches(s, t, disk, copies)
    BY <1>3, <2>3, <2>4, <2>5, ReadsAll DEF v
  <2> QED
    BY ONLY <1>0, <1>6, <2>2, <2>4, <2>6, UpdateFetched
<1> QED
  BY <1>7, <1>8

\* The file is removed under the handler.
LEMMA RemovedFetched ==
    ASSUME Fetched, NEW c \in Conns, ReadRemoved(c), req[c].kind = "product"
    PROVE  Fetched'
<1> DEFINE r == req[c]
           t == touched[c]
           f == r.file
           d == r.data
           v == copies[f]
           k == Pieces - Offset(d)
           e == d \o [n \in 1 .. k |-> v]
           s == [r EXCEPT !.pc = "send", !.data = e]
<1>0. Fetched
  OBVIOUS
<1>1. Shaped(r) /\ Fetches(r, t, disk, copies) /\ touched = [touched EXCEPT ![c] = t] /\ Disked
  BY DEF Fetched
<1>2. /\ r.pc = "read" /\ disk[f] = Absent /\ touched' = touched /\ UNCHANGED <<disk, copies>>
  BY DEF ReadRemoved
<1>3. f \in Name /\ Ascends(d, v) /\ f \in t
  BY <1>1, <1>2 DEF Fetches
<1>4. v \in Nat /\ k \in Int
  <2>1. d \in Seq(Nat) /\ Len(d) \in Nat /\ Pieces \in Nat
    BY <1>3, ProductsAssumption DEF Ascends
  <2>2. v \in Nat
    BY <1>1, <1>3 DEF Disked
  <2>3. Offset(d) \in Int
    BY <2>1 DEF Offset
  <2> QED
    BY <2>1, <2>2, <2>3
<1>5. Update(c, s)
  BY DEF ReadRemoved
<1>6. touched' = [touched EXCEPT ![c] = t] /\ UNCHANGED <<disk, copies>>
  BY <1>1, <1>2
<1>7. Ascends(e, v)
  <2> HIDE DEF d, v, k
  <2>1. Ascends(d, v)
    BY <1>3
  <2> DEFINE m == IF k >= 0 THEN k ELSE 0
  <2>2. m \in Nat /\ 1 .. k = 1 .. m
    BY <1>4
  <2>3. [n \in 1 .. k |-> v] = [n \in 1 .. m |-> v]
    BY <2>2
  <2> HIDE DEF m
  <2>4. Continues(d, m, v)
    BY <1>4, <2>1, <2>2, AscendsMore
  <2> QED
    BY <2>3, <2>4 DEF Continues
<1> HIDE DEF e, r
<1>8. Shaped(s) /\ s.pc = "send" /\ s.data = e /\ s.file = f
  <2> DEFINE a == [r EXCEPT !.pc = "send"]
  <2>1. Becomes(a, r, "send", r.data, r.code)
    BY <1>1, SetField
  <2>2. s = [a EXCEPT !.data = e]
    OBVIOUS
  <2> HIDE DEF a, s
  <2>3. Shaped(a) /\ a.pc = "send"
    BY <2>1 DEF Becomes
  <2>4. Becomes(s, a, a.pc, e, a.code)
    BY <2>2, <2>3, SetField
  <2> QED
    BY <2>1, <2>3, <2>4 DEF Becomes
<1>9. HasRead(s)
  BY <1>8 DEF HasRead
<1> HIDE DEF s, t, f, v
<1>10. Fetches(s, t, disk, copies)
  BY <1>3, <1>7, <1>8, <1>9, ReadsAll DEF v
<1> QED
  BY ONLY <1>0, <1>5, <1>6, <1>8, <1>10, UpdateFetched

\* The handler converts what it read and answers.
LEMMA SendFetched ==
    ASSUME Fetched, NEW c \in Conns, Send(c), req[c].kind = "product"
    PROVE  Fetched'
<1>1. req[c].pc = "send" /\ UNCHANGED <<disk, copies, touched>>
  BY DEF Send
<1>2. PICK code : Answer(c, code)
  BY DEF Send
<1> QED
  BY <1>1, <1>2, AnswerFetched

\* Requests of another kind keep their kind, and nothing is said of them.
LEMMA OtherFetched ==
    ASSUME Fetched, NEW c \in Conns, NEW s, Update(c, s), Shaped(s), s.kind # "product",
           UNCHANGED <<disk, copies, touched>>
    PROVE  Fetched'
<1>0. Fetched /\ Update(c, s) /\ Shaped(s)
  OBVIOUS
<1> DEFINE t == touched[c]
<1>1. touched' = [touched EXCEPT ![c] = t] /\ UNCHANGED <<disk, copies>>
  BY DEF Fetched
<1>2. Fetches(s, t, disk, copies)
  BY DEF Fetches
<1> HIDE DEF t
<1> QED
  BY ONLY <1>0, <1>1, <1>2, UpdateFetched

\* The request s has the shape and the kind of r.
Kept(s, r) == Shaped(s) /\ s.kind = r.kind

\* Another value of a field leaves shape and kind.
LEMMA KeptField ==
    ASSUME NEW r, NEW q, Kept(q, r), NEW x
    PROVE  /\ Kept([q EXCEPT !.pc = x], r)
           /\ Kept([q EXCEPT !.data = x], r)
           /\ Kept([q EXCEPT !.code = x], r)
           /\ Kept([q EXCEPT !.accept = x], r)
           /\ Kept([q EXCEPT !.todo = x], r)
           /\ Kept([q EXCEPT !.size = x], r)
           /\ Kept([q EXCEPT !.out = x], r)
           /\ Kept([q EXCEPT !.end = x], r)
           /\ Kept([q EXCEPT !.file = x], r)
           /\ Kept([q EXCEPT !.meta = x], r)
<1>0. Shaped(q) /\ q.kind = r.kind
  BY DEF Kept
<1>1. Shaped([q EXCEPT !.pc = x]) /\ [q EXCEPT !.pc = x].kind = q.kind
  BY <1>0 DEF Shaped
<1>2. Shaped([q EXCEPT !.data = x]) /\ [q EXCEPT !.data = x].kind = q.kind
  BY <1>0 DEF Shaped
<1>3. Shaped([q EXCEPT !.code = x]) /\ [q EXCEPT !.code = x].kind = q.kind
  BY <1>0 DEF Shaped
<1>4. Shaped([q EXCEPT !.accept = x]) /\ [q EXCEPT !.accept = x].kind = q.kind
  BY <1>0 DEF Shaped
<1>5. Shaped([q EXCEPT !.todo = x]) /\ [q EXCEPT !.todo = x].kind = q.kind
  BY <1>0 DEF Shaped
<1>6. Shaped([q EXCEPT !.size = x]) /\ [q EXCEPT !.size = x].kind = q.kind
  BY <1>0 DEF Shaped
<1>7. Shaped([q EXCEPT !.out = x]) /\ [q EXCEPT !.out = x].kind = q.kind
  BY <1>0 DEF Shaped
<1>8. Shaped([q EXCEPT !.end = x]) /\ [q EXCEPT !.end = x].kind = q.kind
  BY <1>0 DEF Shaped
<1>9. Shaped([q EXCEPT !.file = x]) /\ [q EXCEPT !.file = x].kind = q.kind
  BY <1>0 DEF Shaped
<1>10. Shaped([q EXCEPT !.meta = x]) /\ [q EXCEPT !.meta = x].kind = q.kind
  BY <1>0 DEF Shaped
<1> QED
  BY <1>0, <1>1, <1>2, <1>3, <1>4, <1>5, <1>6, <1>7, <1>8, <1>9, <1>10 DEF Kept

\* The updates of the handlers leave shape and kind.
LEMMA KeptFields ==
    ASSUME NEW r, Shaped(r), NEW v, NEW w, NEW x, NEW y, NEW z
    PROVE  /\ Kept([r EXCEPT !.pc = v, !.code = w, !.accept = x, !.data = y], r)
           /\ Kept([r EXCEPT !.data = v, !.pc = w], r)
           /\ Kept([r EXCEPT !.pc = v, !.data = w], r)
           /\ Kept([r EXCEPT !.todo = v, !.pc = w], r)
           /\ Kept([r EXCEPT !.file = v, !.size = w, !.todo = x, !.data = y, !.pc = z], r)
           /\ Kept([r EXCEPT !.out = v, !.pc = w], r)
           /\ Kept([r EXCEPT !.pc = v, !.end = w], r)
<1>0. Kept(r, r)
  BY DEF Kept
<1>1. Kept([r EXCEPT !.pc = v, !.code = w, !.accept = x, !.data = y], r)
  <2> DEFINE a == [r EXCEPT !.pc = v]
             b == [a EXCEPT !.code = w]
             c == [b EXCEPT !.accept = x]
             d == [c EXCEPT !.data = y]
  <2>1. Kept(a, r)
    BY <1>0, KeptField
  <2> HIDE DEF a
  <2>2. Kept(b, r)
    BY <2>1, KeptField
  <2> HIDE DEF b
  <2>3. Kept(c, r)
    BY <2>2, KeptField
  <2> HIDE DEF c
  <2>4. Kept(d, r)
    BY <2>3, KeptField
  <2> QED
    BY <2>4 DEF a, b, c
<1>2. Kept([r EXCEPT !.data = v, !.pc = w], r)
  <2> DEFINE a == [r EXCEPT !.data = v]
             b == [a EXCEPT !.pc = w]
  <2>1. Kept(a, r)
    BY <1>0, KeptField
  <2> HIDE DEF a
  <2>2. Kept(b, r)
    BY <2>1, KeptField
  <2> QED
    BY <2>2 DEF a
<1>3. Kept([r EXCEPT !.pc = v, !.data = w], r)
  <2> DEFINE a == [r EXCEPT !.pc = v]
             b == [a EXCEPT !.data = w]
  <2>1. Kept(a, r)
    BY <1>0, KeptField
  <2> HIDE DEF a
  <2>2. Kept(b, r)
    BY <2>1, KeptField
  <2> QED
    BY <2>2 DEF a
<1>4. Kept([r EXCEPT !.todo = v, !.pc = w], r)
  <2> DEFINE a == [r EXCEPT !.todo = v]
             b == [a EXCEPT !.pc = w]
  <2>1. Kept(a, r)
    BY <1>0, KeptField
  <2> HIDE DEF a
  <2>2. Kept(b, r)
    BY <2>1, KeptField
  <2> QED
    BY <2>2 DEF a
<1>5. Kept([r EXCEPT !.file = v, !.size = w, !.todo = x, !.data = y, !.pc = z], r)
  <2> DEFINE a == [r EXCEPT !.file = v]
             b == [a EXCEPT !.size = w]
             c == [b EXCEPT !.todo = x]
             d == [c EXCEPT !.data = y]
             e == [d EXCEPT !.pc = z]
  <2>1. Kept(a, r)
    BY <1>0, KeptField
  <2> HIDE DEF a
  <2>2. Kept(b, r)
    BY <2>1, KeptField
  <2> HIDE DEF b
  <2>3. Kept(c, r)
    BY <2>2, KeptField
  <2> HIDE DEF c
  <2>4. Kept(d, r)
    BY <2>3, KeptField
  <2> HIDE DEF d
  <2>5. Kept(e, r)
    BY <2>4, KeptField
  <2> QED
    BY <2>5 DEF a, b, c, d
<1>6. Kept([r EXCEPT !.out = v, !.pc = w], r)
  <2> DEFINE a == [r EXCEPT !.out = v]
             b == [a EXCEPT !.pc = w]
  <2>1. Kept(a, r)
    BY <1>0, KeptField
  <2> HIDE DEF a
  <2>2. Kept(b, r)
    BY <2>1, KeptField
  <2> QED
    BY <2>2 DEF a
<1>7. Kept([r EXCEPT !.pc = v, !.end = w], r)
  <2> DEFINE a == [r EXCEPT !.pc = v]
             b == [a EXCEPT !.end = w]
  <2>1. Kept(a, r)
    BY <1>0, KeptField
  <2> HIDE DEF a
  <2>2. Kept(b, r)
    BY <2>1, KeptField
  <2> QED
    BY <2>2 DEF a
<1> QED
  BY <1>1, <1>2, <1>3, <1>4, <1>5, <1>6, <1>7

\* Every step of a handler leaves the kind of the request and its shape.
LEMMA ServeKeeps ==
    ASSUME Fetched, NEW c \in Conns, Serve(c)
    PROVE  /\ \E s : Update(c, s) /\ Kept(s, req[c])
           /\ UNCHANGED <<disk, copies, touched>>
<1> DEFINE r == req[c]
           ok == \E s : Update(c, s) /\ Kept(s, r)
<1>0. Shaped(r) /\ Kept(r, r)
  BY DEF Fetched, Kept
<1>1. UNCHANGED <<disk, copies, touched>>
  BY DEF Serve, Open, ReadHeader, ReadBody, ReadRemoved, Send, List, Visit, Entered, Copy, Close
<1> SUFFICES ok
  BY <1>1
<1>2. ASSUME NEW code, Answer(c, code) PROVE ok
  <2> DEFINE y == IF code = 200 THEN r.data ELSE <<>>
             s == [r EXCEPT !.pc = "done", !.code = code, !.accept = {}, !.data = y]
  <2>1. Update(c, s)
    BY <1>2 DEF Answer
  <2> HIDE DEF r, y
  <2>2. Kept(s, r)
    BY <1>0, KeptFields
  <2> QED
    BY <2>1, <2>2
<1>3. ASSUME NEW x, Update(c, [r EXCEPT !.pc = x]) PROVE ok
  <2>1. Kept([r EXCEPT !.pc = x], r)
    <3> HIDE DEF r
    <3> QED
      BY <1>0, KeptField
  <2> QED
    BY <1>3, <2>1
<1>4. ASSUME NEW x, Update(c, [r EXCEPT !.data = x]) PROVE ok
  <2>1. Kept([r EXCEPT !.data = x], r)
    <3> HIDE DEF r
    <3> QED
      BY <1>0, KeptField
  <2> QED
    BY <1>4, <2>1
<1>5. CASE Open(c)
  <2>1. Answer(c, 404) \/ Update(c, [r EXCEPT !.pc = "read"])
    BY <1>5 DEF Open
  <2> HIDE DEF ok
  <2> QED
    BY <1>2, <1>3, <2>1
<1>6. CASE ReadHeader(c)
  <2> DEFINE x == PieceAt(r.file, 1)
             y == IF x = <<>> THEN "send" ELSE "read"
             z == IF x = <<>> THEN <<0>> ELSE x
             s == [r EXCEPT !.data = x, !.pc = y]
  <2>1. Update(c, s) \/ Update(c, [r EXCEPT !.data = z])
    BY <1>6 DEF ReadHeader
  <2>2. Kept(s, r)
    <3> HIDE DEF r, x, y
    <3> QED
      BY <1>0, KeptFields
  <2> HIDE DEF s
  <2>3. CASE Update(c, s)
    BY <2>2, <2>3
  <2> HIDE DEF ok, z, r
  <2> QED
    BY <1>4, <2>1, <2>3
<1>7. CASE ReadBody(c)
  <2> DEFINE x == PieceAt(r.file, Offset(r.data) + 1)
             e == r.data \o x
  <2>1. Update(c, IF x = <<>> THEN [r EXCEPT !.pc = "send"] ELSE [r EXCEPT !.data = e])
    BY <1>7 DEF ReadBody
  <2> HIDE DEF ok, r, x, e
  <2> QED
    BY <1>3, <1>4, <2>1
<1>8. CASE ReadRemoved(c)
  <2> DEFINE e == r.data \o [n \in 1 .. Pieces - Offset(r.data) |-> copies[r.file]]
             s == [r EXCEPT !.pc = "send", !.data = e]
  <2>1. Update(c, s)
    BY <1>8 DEF ReadRemoved
  <2>2. Kept(s, r)
    <3> HIDE DEF r, e
    <3> QED
      BY <1>0, KeptFields
  <2> HIDE DEF s, r
  <2> QED
    BY <2>1, <2>2
<1>9. CASE Send(c)
  <2>1. PICK code : Answer(c, code)
    BY <1>9 DEF Send
  <2> QED
    BY <1>2, <2>1
<1>10. CASE List(c)
  <2> DEFINE x == Names
             s == [r EXCEPT !.todo = x, !.pc = "visit"]
  <2>1. Update(c, s)
    BY <1>10 DEF List
  <2>2. Kept(s, r)
    <3> HIDE DEF r, x
    <3> QED
      BY <1>0, KeptFields
  <2> HIDE DEF s, r
  <2> QED
    BY <2>1, <2>2
<1>11. CASE Visit(c)
  <2> DEFINE f == Head(r.todo)
             x == Tail(r.todo)
             y == Len(disk[f])
             a == [r EXCEPT !.todo = x]
             s == [r EXCEPT !.file = f, !.size = y, !.todo = x, !.data = <<>>, !.pc = "enter"]
  <2>1. Update(c, IF disk[f] = Absent THEN [r EXCEPT !.pc = "vanished"]
                  ELSE IF Skipped(r, f) THEN a ELSE s)
    BY <1>11 DEF Visit
  <2>2. Kept(s, r)
    <3> HIDE DEF r, f, x, y
    <3> QED
      BY <1>0, KeptFields
  <2>3. Kept(a, r)
    <3> HIDE DEF r, x
    <3> QED
      BY <1>0, KeptField
  <2> HIDE DEF s, a, r, f
  <2>4. Update(c, [r EXCEPT !.pc = "vanished"]) \/ Update(c, a) \/ Update(c, s)
    BY <2>1
  <2>5. (Update(c, a) \/ Update(c, s)) => ok
    BY <2>2, <2>3
  <2> HIDE DEF ok
  <2> QED
    BY <1>3, <2>4, <2>5
<1>12. CASE Entered(c)
  <2> DEFINE x == IF disk[r.file] = Absent THEN "visit" ELSE IF Short(r) THEN "short" ELSE "copy"
  <2>1. Update(c, [r EXCEPT !.pc = x])
    BY <1>12 DEF Entered
  <2> HIDE DEF r, ok, x
  <2> QED
    BY <1>3, <2>1
<1>13. CASE Copy(c)
  <2> DEFINE rest == IF disk[r.file] = Absent
                     THEN [n \in 1 .. Pieces - Len(r.data) |-> copies[r.file]]
                     ELSE PieceAt(r.file, Len(r.data) + 1)
             x == Append(r.data, rest[1])
             y == Append(r.out, Entry(r))
             p == rest # <<>>
             q == rest # <<>> /\ TooLong(r)
             t == IF q THEN "grown" ELSE "visit"
             s == [r EXCEPT !.out = y, !.pc = t]
  <2>1. Update(c, IF p /\ ~q THEN [r EXCEPT !.data = x] ELSE s)
    BY <1>13 DEF Copy
  <2>2. Kept(s, r)
    <3> HIDE DEF r, y, t
    <3> QED
      BY <1>0, KeptFields
  <2> HIDE DEF s, r, rest, x, y, p, q, t
  <2>3. Update(c, s) => ok
    BY <2>2
  <2> HIDE DEF ok
  <2> QED
    BY <1>3, <1>4, <2>1, <2>3
<1>14. CASE Close(c)
  <2> DEFINE x == IF Short(r) THEN "short" ELSE r.pc
             s == [r EXCEPT !.pc = "done", !.end = x]
  <2>1. Update(c, s)
    BY <1>14 DEF Close
  <2>2. Kept(s, r)
    <3> HIDE DEF r, x
    <3> QED
      BY <1>0, KeptFields
  <2> HIDE DEF s, r
  <2> QED
    BY <2>1, <2>2
<1> QED
  BY <1>5, <1>6, <1>7, <1>8, <1>9, <1>10, <1>11, <1>12, <1>13, <1>14 DEF Serve

\* A step of a handler.
LEMMA ServeFetched ==
    ASSUME Fetched, NEW c \in Conns, Serve(c)
    PROVE  Fetched'
<1>1. CASE req[c].kind # "product"
  <2>1. PICK s : Update(c, s) /\ Kept(s, req[c])
    BY ServeKeeps
  <2>2. UNCHANGED <<disk, copies, touched>>
    BY ServeKeeps
  <2> QED
    BY <1>1, <2>1, <2>2, OtherFetched DEF Kept
<1>2. CASE req[c].kind = "product"
  <2>1. req[c].pc \in {"open", "read", "send", "done"}
    BY <1>2 DEF Fetched, Fetches
  <2>2. ~(List(c) \/ Visit(c) \/ Entered(c) \/ Copy(c) \/ Close(c))
    BY <2>1 DEF List, Visit, Entered, Copy, Close
  <2> QED
    BY <1>2, <2>2, OpenFetched, HeaderFetched, BodyFetched, RemovedFetched, SendFetched DEF Serve
<1> QED
  BY <1>1, <1>2

\* A request: the files that are being written count as touched.
LEMMA AskFetched ==
    ASSUME Fetched, NEW c \in Conns, NEW s, Ask(c, s), Shaped(s),
           s.kind = "product" =>
               /\ s.file \in Name /\ s.data = <<>>
               /\ s.pc = "open" \/ (s.pc = "done" /\ s.code # 200)
    PROVE  Fetched'
<1> DEFINE t == {f \in Name : disk[f] # Absent /\ Len(disk[f]) < Pieces}
<1>0. Fetched /\ Shaped(s)
  OBVIOUS
<1>1. Update(c, s) /\ touched' = [touched EXCEPT ![c] = t] /\ UNCHANGED <<disk, copies>>
  BY DEF Ask
<1>2. Fetches(s, t, disk, copies)
  <2>1. CASE s.kind # "product"
    BY <2>1 DEF Fetches
  <2>2. CASE s.kind = "product" /\ s.pc = "open"
    <3>1. ASSUME s.file \notin t PROVE disk[s.file] = Absent \/ Len(disk[s.file]) = Pieces
      <4>1. disk[s.file] # Absent => Holds(s.file)
        BY <2>2 DEF Fetched, Disked
      <4>2. disk[s.file] # Absent => Len(disk[s.file]) \in Nat /\ Len(disk[s.file]) <= Pieces
        BY <4>1 DEF Holds
      <4>3. disk[s.file] # Absent => ~(Len(disk[s.file]) < Pieces)
        BY <2>2, <3>1
      <4>4. Pieces \in Nat
        BY ProductsAssumption
      <4> QED
        BY <4>2, <4>3, <4>4
    <3> HIDE DEF t
    <3> QED
      BY <2>2, <3>1 DEF Fetches, HasRead
  <2>3. CASE s.kind = "product" /\ s.pc # "open"
    <3> HIDE DEF t
    <3> QED
      BY <2>3, ReadsNone
  <2> QED
    BY <2>1, <2>2, <2>3
<1> HIDE DEF t
<1> QED
  BY ONLY <1>0, <1>1, <1>2, UpdateFetched

\* A new request has the shape of none.
LEMMA IdlingShaped == Shaped(Idling) /\ Idling.data = <<>>
BY DEF Idling, Shaped

\* The requests that a client may make.
LEMMA AsksFetched ==
    ASSUME Fetched, NEW c \in Conns, Asks(c)
    PROVE  Fetched'
<1>1. ASSUME NEW f \in Name, NEW m \in Accepts, AskProduct(c, f, m) PROVE Fetched'
  <2>1. PICK allowed \in BOOLEAN :
            Ask(c, [Idling EXCEPT !.kind = "product", !.file = f, !.accept = m,
                                  !.pc = IF allowed THEN "open" ELSE "done",
                                  !.code = IF allowed THEN 0 ELSE 429])
    BY <1>1 DEF AskProduct
  <2> DEFINE p == IF allowed THEN "open" ELSE "done"
             k == IF allowed THEN 0 ELSE 429
             a == [Idling EXCEPT !.kind = "product"]
             b == [a EXCEPT !.file = f]
             d == [b EXCEPT !.accept = m]
             e == [d EXCEPT !.pc = p]
             s == [e EXCEPT !.code = k]
  <2>2. Ask(c, s)
    BY <2>1
  <2>3. p = "open" \/ (p = "done" /\ k # 200)
    OBVIOUS
  <2> HIDE DEF p, k
  <2>4. Shaped(a) /\ a.kind = "product" /\ a.data = <<>>
    BY IdlingShaped DEF Shaped
  <2> HIDE DEF a
  <2>5. Shaped(b) /\ b.kind = "product" /\ b.data = <<>> /\ b.file = f
    BY <2>4 DEF Shaped
  <2> HIDE DEF b
  <2>6. Shaped(d) /\ d.kind = "product" /\ d.data = <<>> /\ d.file = f
    BY <2>5 DEF Shaped
  <2> HIDE DEF d
  <2>7. Shaped(e) /\ e.kind = "product" /\ e.data = <<>> /\ e.file = f /\ e.pc = p
    BY <2>6 DEF Shaped
  <2> HIDE DEF e
  <2>8. Shaped(s) /\ s.kind = "product" /\ s.data = <<>> /\ s.file = f /\ s.pc = p /\ s.code = k
    BY <2>7 DEF Shaped
  <2> HIDE DEF s
  <2> QED
    BY <1>1, <2>2, <2>3, <2>8, AskFetched
<1>2. ASSUME NEW k, k # "product" PROVE Kept([Idling EXCEPT !.kind = k], [kind |-> k])
  BY <1>2, IdlingShaped DEF Kept, Shaped
<1>3. ASSUME NEW k, k # "product", NEW s, Kept(s, [kind |-> k]), Ask(c, s) PROVE Fetched'
  BY <1>3, AskFetched DEF Kept
<1>4. ASSUME NEW t \in {"tar", "zip", "rar"}, NEW m \in BOOLEAN, AskArchive(c, t, m) PROVE Fetched'
  <2> DEFINE p == IF t \in {"tar", "zip"} THEN "list" ELSE "done"
             k == IF t \in {"tar", "zip"} THEN 200 ELSE 400
             r == [kind |-> t]
             a == [Idling EXCEPT !.kind = t]
             b == [a EXCEPT !.meta = m]
             d == [b EXCEPT !.pc = p]
             s == [d EXCEPT !.code = k]
  <2>1. Ask(c, s)
    BY <1>4 DEF AskArchive
  <2> HIDE DEF p, k
  <2>2. t # "product"
    BY <1>4
  <2>3. Kept(a, r)
    BY <1>2, <2>2
  <2> HIDE DEF a, r
  <2>4. Kept(b, r)
    BY <2>3, KeptField
  <2> HIDE DEF b
  <2>5. Kept(d, r)
    BY <2>4, KeptField
  <2> HIDE DEF d
  <2>6. Kept(s, r)
    BY <2>5, KeptField
  <2> HIDE DEF s
  <2> QED
    BY <1>3, <2>1, <2>2, <2>6 DEF r
<1>5. ASSUME NEW m \in Accepts, NEW found \in BOOLEAN, Browse(c, m, found) PROVE Fetched'
  <2> DEFINE none == ~found \/ accept(m, Listings) = Blank
             o == IF none THEN <<>> ELSE readDir
             k == IF ~found THEN 404 ELSE IF none THEN 406 ELSE 200
             r == [kind |-> "browse"]
             a == [Idling EXCEPT !.kind = "browse"]
             b == [a EXCEPT !.accept = m]
             d == [b EXCEPT !.pc = "done"]
             e == [d EXCEPT !.out = o]
             s == [e EXCEPT !.code = k]
  <2>1. Ask(c, s)
    BY <1>5 DEF Browse
  <2> HIDE DEF o, k
  <2>2. "browse" # "product"
    OBVIOUS
  <2>3. Kept(a, r)
    BY <1>2, <2>2
  <2> HIDE DEF a, r
  <2>4. Kept(b, r)
    BY <2>3, KeptField
  <2> HIDE DEF b
  <2>5. Kept(d, r)
    BY <2>4, KeptField
  <2> HIDE DEF d
  <2>6. Kept(e, r)
    BY <2>5, KeptField
  <2> HIDE DEF e
  <2>7. Kept(s, r)
    BY <2>6, KeptField
  <2> HIDE DEF s
  <2> QED
    BY <1>3, <2>1, <2>2, <2>7 DEF r
<1> QED
  BY <1>1, <1>4, <1>5 DEF Asks

\* Every step keeps what is known of the requests for products.
LEMMA NextFetched == Fetched /\ [Next]_vars => Fetched'
<1> SUFFICES ASSUME Fetched, [Next]_vars PROVE Fetched'
  OBVIOUS
<1>1. ASSUME UNCHANGED productVars PROVE Fetched'
  BY <1>1 DEF Fetched, Disked, Holds, productVars
<1>2. CASE Quiet \/ UNCHANGED vars
  <2>1. UNCHANGED productVars
    BY <1>2 DEF Quiet, vars
  <2> QED
    BY <1>1, <2>1
<1> QED
  BY <1>1, <1>2, ServeFetched, AsksFetched, WriterFetched DEF Next

\* A product is served whole and from one copy if its file was left alone while
\* the request was served; whatever the store does meanwhile, the data of a newer
\* copy is never followed by that of an older one.
THEOREM ProductsWhole == Spec => []ServedWhole
<1>1. Fetched => ServedWhole
  <2> SUFFICES ASSUME Fetched, NEW c \in Conns, Served(c)
               PROVE  /\ req[c].file \notin touched[c] =>
                           \E v \in 1 .. copies[req[c].file] : req[c].data = [n \in 1 .. Pieces |-> v]
                      /\ \A i, j \in DOMAIN req[c].data : i < j => req[c].data[i] <= req[c].data[j]
    BY DEF ServedWhole
  <2>1. HasRead(req[c]) /\ req[c].kind = "product"
    BY DEF Served, HasRead
  <2>2. Fetches(req[c], touched[c], disk, copies)
    BY DEF Fetched
  <2>3. Ascends(req[c].data, copies[req[c].file])
        /\ (req[c].file \notin touched[c] => Whole(req[c].data, copies[req[c].file]))
    BY <2>1, <2>2 DEF Fetches
  <2> QED
    BY <2>3 DEF Ascends, Whole
<1> QED
  BY <1>1, InitFetched, NextFetched, PTL DEF Spec

-----------------------------------------------------------------------------
(* The downloads. *)

Entries == [file : Name, size : Nat, data : Seq(Nat)]

IsArchive(r) == r.kind \in {"tar", "zip"}

\* The entry of file f in the archive o has contents d.
Held(o, f, d) == \E e \in ToSet(o) : e.file = f /\ e.data = d

\* No entry is there that was not asked for.
Proper(r, e) == r.meta \/ e.file \notin Metas

Listing(r) ==
    /\ r.pc \in {"list", "visit", "enter", "copy", "vanished", "grown", "short", "done"}
    /\ r.meta \in BOOLEAN
    /\ r.todo \in Seq(Name)
    /\ r.out \in Seq(Entries)
    /\ \A e \in ToSet(r.out) : Proper(r, e)
    /\ r.pc = "list" => r.out = <<>>

\* The file that is being copied: what was read is its beginning, if it was
\* left alone.
Copying(r, t, dk) ==
    r.pc \in {"enter", "copy"} =>
        /\ r.file \in Name /\ r.size \in Nat /\ r.data \in Seq(Nat)
        /\ r.meta \/ r.file \notin Metas
        /\ r.kind = "tar" => Len(r.data) <= r.size
        /\ r.file \notin t =>
              /\ dk[r.file] # Absent /\ Len(dk[r.file]) = r.size
              /\ Len(r.data) <= Len(dk[r.file])
              /\ \A n \in DOMAIN r.data : r.data[n] = dk[r.file][n]

\* The walk goes on, or went to its end.
Walks(r) == r.pc \in {"visit", "enter", "copy"} \/ (r.pc = "done" /\ r.end = "visit")

\* File f is not wanted, still ahead, being copied or in the archive.
Reached(r, f, d) ==
    \/ ~r.meta /\ f \in Metas
    \/ f \in ToSet(r.todo)
    \/ r.pc \in {"enter", "copy"} /\ f = r.file
    \/ Held(r.out, f, d)

\* The walk ended early.
Lost(r) == r.pc \in {"vanished", "grown", "short"} \/ (r.pc = "done" /\ r.end # "visit")

\* File f, with contents d, is not wanted, in the archive or behind a file that
\* was changed.
Excused(r, t, f, d) ==
    \/ ~r.meta /\ f \in Metas
    \/ Held(r.out, f, d)
    \/ \E g \in t : Before(g, f)

Covers(r, t, dk) ==
    \A f \in Name \ t : dk[f] # Absent =>
        /\ Walks(r) => Reached(r, f, dk[f])
        /\ Lost(r) => Excused(r, t, f, dk[f])

Sorted(l) == \A i, j \in DOMAIN l : i < j => Before(l[i], l[j])

\* The names in l come behind file f.
Ahead(f, l) == \A g \in ToSet(l) : Before(f, g)

\* An entry has as many pieces as its header says, at most or exactly.
Fits(e) == Len(e.data) <= e.size

Filled(e) == Len(e.data) = e.size

\* The names the walk still has are in order, behind the file it is at, and there
\* unless they were changed.  Only the last entry of a tar is short: its file
\* was changed and is behind none of those names, and no entry follows it.
Ordering(r, t, dk) ==
    /\ Sorted(r.todo)
    /\ \A f \in ToSet(r.todo) \ t : dk[f] # Absent
    /\ r.pc \in {"enter", "copy"} => Ahead(r.file, r.todo)
    /\ Short(r) =>
          /\ Last(r.out).file \in t /\ Ahead(Last(r.out).file, r.todo)
          /\ r.pc = "enter" => Before(Last(r.out).file, r.file)
          /\ r.pc # "copy"
          /\ r.pc = "done" => r.end = "short"
    /\ r.kind = "tar" =>
          \A n \in DOMAIN r.out : Fits(r.out[n]) /\ (n = Len(r.out) \/ Filled(r.out[n]))

Gathers(r, t, dk) ==
    IsArchive(r) =>
        /\ Listing(r) /\ Copying(r, t, dk) /\ Covers(r, t, dk) /\ Ordering(r, t, dk)
        /\ r.pc = "done" /\ r.end = "visit" => r.todo = <<>>

Gathered == \A c \in Conns : Gathers(req[c], touched[c], disk)

\* A request whose fields are those of r, other than the ones given.
Looks(s, r, p, f, d, l, z, o, e) ==
    /\ Shaped(s) /\ s.kind = r.kind /\ s.meta = r.meta
    /\ s.pc = p /\ s.file = f /\ s.data = d /\ s.todo = l /\ s.size = z /\ s.out = o /\ s.end = e

\* One field of a download changes.
LEMMA LooksField ==
    ASSUME NEW r, Shaped(r), NEW x
    PROVE  /\ Looks([r EXCEPT !.pc = x], r, x, r.file, r.data, r.todo, r.size, r.out, r.end)
           /\ Looks([r EXCEPT !.file = x], r, r.pc, x, r.data, r.todo, r.size, r.out, r.end)
           /\ Looks([r EXCEPT !.data = x], r, r.pc, r.file, x, r.todo, r.size, r.out, r.end)
           /\ Looks([r EXCEPT !.todo = x], r, r.pc, r.file, r.data, x, r.size, r.out, r.end)
           /\ Looks([r EXCEPT !.size = x], r, r.pc, r.file, r.data, r.todo, x, r.out, r.end)
           /\ Looks([r EXCEPT !.out = x], r, r.pc, r.file, r.data, r.todo, r.size, x, r.end)
           /\ Looks([r EXCEPT !.end = x], r, r.pc, r.file, r.data, r.todo, r.size, r.out, x)
<1>1. Looks([r EXCEPT !.pc = x], r, x, r.file, r.data, r.todo, r.size, r.out, r.end)
  BY DEF Shaped, Looks
<1>2. Looks([r EXCEPT !.file = x], r, r.pc, x, r.data, r.todo, r.size, r.out, r.end)
  BY DEF Shaped, Looks
<1>3. Looks([r EXCEPT !.data = x], r, r.pc, r.file, x, r.todo, r.size, r.out, r.end)
  BY DEF Shaped, Looks
<1>4. Looks([r EXCEPT !.todo = x], r, r.pc, r.file, r.data, x, r.size, r.out, r.end)
  BY DEF Shaped, Looks
<1>5. Looks([r EXCEPT !.size = x], r, r.pc, r.file, r.data, r.todo, x, r.out, r.end)
  BY DEF Shaped, Looks
<1>6. Looks([r EXCEPT !.out = x], r, r.pc, r.file, r.data, r.todo, r.size, x, r.end)
  BY DEF Shaped, Looks
<1>7. Looks([r EXCEPT !.end = x], r, r.pc, r.file, r.data, r.todo, r.size, r.out, x)
  BY DEF Shaped, Looks
<1> QED
  BY <1>1, <1>2, <1>3, <1>4, <1>5, <1>6, <1>7

\* Two of them change.
LEMMA LooksFields ==
    ASSUME NEW r, Shaped(r), NEW x, NEW y
    PROVE  /\ Looks([r EXCEPT !.todo = x, !.pc = y], r, y, r.file, r.data, x, r.size, r.out, r.end)
           /\ Looks([r EXCEPT !.out = x, !.pc = y], r, y, r.file, r.data, r.todo, r.size, x, r.end)
           /\ Looks([r EXCEPT !.pc = x, !.end = y], r, x, r.file, r.data, r.todo, r.size, r.out, y)
<1>1. Looks([r EXCEPT !.todo = x, !.pc = y], r, y, r.file, r.data, x, r.size, r.out, r.end)
  <2> DEFINE a == [r EXCEPT !.todo = x]
             s == [a EXCEPT !.pc = y]
  <2>1. Looks(a, r, r.pc, r.file, r.data, x, r.size, r.out, r.end)
    BY LooksField
  <2> HIDE DEF a
  <2>2. Shaped(a)
    BY <2>1 DEF Looks
  <2>3. Looks(s, a, y, a.file, a.data, a.todo, a.size, a.out, a.end)
    BY <2>2, LooksField
  <2> HIDE DEF s
  <2>4. Looks(s, r, y, r.file, r.data, x, r.size, r.out, r.end)
    BY <2>1, <2>3 DEF Looks
  <2> QED
    BY <2>4 DEF s, a
<1>2. Looks([r EXCEPT !.out = x, !.pc = y], r, y, r.file, r.data, r.todo, r.size, x, r.end)
  <2> DEFINE a == [r EXCEPT !.out = x]
             s == [a EXCEPT !.pc = y]
  <2>1. Looks(a, r, r.pc, r.file, r.data, r.todo, r.size, x, r.end)
    BY LooksField
  <2> HIDE DEF a
  <2>2. Shaped(a)
    BY <2>1 DEF Looks
  <2>3. Looks(s, a, y, a.file, a.data, a.todo, a.size, a.out, a.end)
    BY <2>2, LooksField
  <2> HIDE DEF s
  <2>4. Looks(s, r, y, r.file, r.data, r.todo, r.size, x, r.end)
    BY <2>1, <2>3 DEF Looks
  <2> QED
    BY <2>4 DEF s, a
<1>3. Looks([r EXCEPT !.pc = x, !.end = y], r, x, r.file, r.data, r.todo, r.size, r.out, y)
  <2> DEFINE a == [r EXCEPT !.pc = x]
             s == [a EXCEPT !.end = y]
  <2>1. Looks(a, r, x, r.file, r.data, r.todo, r.size, r.out, r.end)
    BY LooksField
  <2> HIDE DEF a
  <2>2. Shaped(a)
    BY <2>1 DEF Looks
  <2>3. Looks(s, a, a.pc, a.file, a.data, a.todo, a.size, a.out, y)
    BY <2>2, LooksField
  <2> HIDE DEF s
  <2>4. Looks(s, r, x, r.file, r.data, r.todo, r.size, r.out, y)
    BY <2>1, <2>3 DEF Looks
  <2> QED
    BY <2>4 DEF s, a
<1> QED
  BY <1>1, <1>2, <1>3

\* The walk goes to a file.
LEMMA LooksVisit ==
    ASSUME NEW r, Shaped(r), NEW f, NEW z, NEW l
    PROVE  Looks([r EXCEPT !.file = f, !.size = z, !.todo = l, !.data = <<>>, !.pc = "enter"],
                 r, "enter", f, <<>>, l, z, r.out, r.end)
<1> DEFINE a == [r EXCEPT !.file = f]
           b == [a EXCEPT !.size = z]
           c == [b EXCEPT !.todo = l]
           d == [c EXCEPT !.data = <<>>]
           s == [d EXCEPT !.pc = "enter"]
<1>1. Looks(a, r, r.pc, f, r.data, r.todo, r.size, r.out, r.end)
  BY LooksField
<1>2. Shaped(a)
  BY <1>1 DEF Looks
<1> HIDE DEF a
<1>3. Looks(b, a, a.pc, a.file, a.data, a.todo, z, a.out, a.end)
  BY <1>2, LooksField
<1>4. Shaped(b)
  BY <1>3 DEF Looks
<1> HIDE DEF b
<1>5. Looks(c, b, b.pc, b.file, b.data, l, b.size, b.out, b.end)
  BY <1>4, LooksField
<1>6. Shaped(c)
  BY <1>5 DEF Looks
<1> HIDE DEF c
<1>7. Looks(d, c, c.pc, c.file, <<>>, c.todo, c.size, c.out, c.end)
  BY <1>6, LooksField
<1>8. Shaped(d)
  BY <1>7 DEF Looks
<1> HIDE DEF d
<1>9. Looks(s, d, "enter", d.file, d.data, d.todo, d.size, d.out, d.end)
  BY <1>8, LooksField
<1> HIDE DEF s
<1>10. Looks(s, r, "enter", f, <<>>, l, z, r.out, r.end)
  BY <1>1, <1>3, <1>5, <1>7, <1>9 DEF Looks
<1> QED
  BY <1>10 DEF s, d, c, b, a

\* A connection changes its request.
LEMMA UpdateGathered ==
    ASSUME Fetched, Gathered, NEW c \in Conns, NEW s, NEW t, Update(c, s), disk' = disk,
           touched' = [touched EXCEPT ![c] = t], Gathers(s, t, disk)
    PROVE  Gathered'
<1>1. /\ req = [x \in Conns |-> req[x]] /\ touched = [x \in Conns |-> touched[x]]
      /\ req' = [req EXCEPT ![c] = s]
  BY DEF Fetched, Update
<1>2. /\ req'[c] = s /\ touched'[c] = t
      /\ \A x \in Conns : x # c => req'[x] = req[x] /\ touched'[x] = touched[x]
  BY <1>1
<1>3. ASSUME NEW x \in Conns PROVE Gathers(req'[x], touched'[x], disk')
  BY <1>2 DEF Gathered
<1> QED
  BY <1>3 DEF Gathered

\* A connection goes on with its download.
LEMMA ServeGathered ==
    ASSUME Fetched, Gathered, NEW c \in Conns, NEW s, Update(c, s), UNCHANGED <<disk, touched>>,
           Gathers(s, touched[c], disk)
    PROVE  Gathered'
<1> DEFINE t == touched[c]
<1>1. touched' = [touched EXCEPT ![c] = t]
  BY DEF Fetched
<1>2. Gathers(s, t, disk) /\ disk' = disk
  OBVIOUS
<1> HIDE DEF t
<1> QED
  BY ONLY <1>1, <1>2, Fetched, Gathered, c \in Conns, Update(c, s), UpdateGathered

\* The names in a directory.
LEMMA NamesThere ==
    ASSUME Disked
    PROVE  /\ Names \in Seq(Name) /\ ToSet(Names) = {f \in Name : disk[f] # Absent}
           /\ Sorted(Names)
           /\ ToSet(readDir) = {f \in Name : disk[f] # Absent} \ Metas
<1> DEFINE S == {f \in Name : disk[f] # Absent}
<1>1. Files \in Seq(Name)
  <2>1. Files \in Seq(STRING)
    BY ProductsAssumption
  <2> DEFINE n == Len(Files)
  <2>2. n \in Nat /\ DOMAIN Files = 1 .. n /\ Files = [i \in 1 .. n |-> Files[i]]
    BY <2>1
  <2>3. \A i \in 1 .. n : Files[i] \in Name
    BY <2>2 DEF Name, ToSet
  <2> HIDE DEF n
  <2>4. Files \in [1 .. n -> Name]
    BY <2>2, <2>3
  <2> QED
    BY <2>2, <2>4
<1>2. Names \in Seq(Name) /\ ToSet(Names) = ToSet(Files) \cap S
  <2> HIDE DEF S
  <2>1. Only(Files, S) \in Seq(Name) /\ ToSet(Only(Files, S)) = ToSet(Files) \cap S
    BY <1>1, OnlyElements
  <2> QED
    BY <2>1 DEF Names, S
<1>3. ToSet(readDir) = ToSet(Names) \cap (Name \ Metas)
  <2> DEFINE U == Name \ Metas
             v == Names
  <2>1. v \in Seq(Name)
    BY <1>2
  <2> HIDE DEF U, v
  <2>2. ToSet(Only(v, U)) = ToSet(v) \cap U
    BY <2>1, OnlyElements
  <2> QED
    BY <2>2 DEF readDir, U, v
<1>4. Sorted(Names)
  <2> HIDE DEF S
  <2>1. Follows(Only(Files, S), Files, Len(Files)) /\ DOMAIN Files = 1 .. Len(Files)
    BY <1>1, OnlyOrdered
  <2>2. Names = Only(Files, S)
    BY DEF Names, S
  <2>3. Follows(Names, Files, Len(Files))
    BY <2>1, <2>2
  <2> QED
    BY <2>1, <2>3 DEF Follows, Sorted, Before
<1> QED
  BY <1>2, <1>3, <1>4 DEF Name

\* A request of another kind is no download.
LEMMA OtherGathers ==
    ASSUME NEW s, ~IsArchive(s), NEW t, NEW dk
    PROVE  Gathers(s, t, dk)
BY DEF Gathers

\* What is known of a request for an archive.
LEMMA GathersIs ==
    ASSUME Gathered, NEW c \in Conns, IsArchive(req[c])
    PROVE  /\ Listing(req[c]) /\ Copying(req[c], touched[c], disk)
           /\ Covers(req[c], touched[c], disk) /\ Ordering(req[c], touched[c], disk)
BY DEF Gathered, Gathers

\* The walk does not move.
LEMMA OrderingStays ==
    ASSUME NEW r, NEW t, NEW dk, NEW s, Ordering(r, t, dk),
           s.kind = r.kind, s.out = r.out, s.todo = r.todo,
           s.pc \in {"enter", "copy"} => s.file = r.file /\ r.pc \in {"enter", "copy"},
           s.pc = "enter" => r.pc = "enter",
           s.pc = "copy" => ~Short(r),
           s.pc = "done" => (Short(r) => s.end = "short")
    PROVE  Ordering(s, t, dk)
<1>1. Short(s) <=> Short(r)
  BY DEF Short
<1> QED
  BY <1>1 DEF Ordering

\* filepath.Walk has read the directory.
LEMMA ListGathered ==
    ASSUME Fetched, Gathered, NEW c \in Conns, IsArchive(req[c]), List(c)
    PROVE  Gathered'
<1> DEFINE r == req[c]
           t == touched[c]
           l == Names
           s == [r EXCEPT !.todo = l, !.pc = "visit"]
<1>1. Update(c, s) /\ UNCHANGED <<disk, touched>>
  BY DEF List
<1>2. Shaped(r) /\ Disked
  BY DEF Fetched
<1>3. Listing(r) /\ IsArchive(r)
  BY GathersIs
<1>4. /\ l \in Seq(Name) /\ \A f \in Name : disk[f] # Absent => f \in ToSet(l)
      /\ Sorted(l) /\ \A f \in ToSet(l) : disk[f] # Absent
  BY <1>2, NamesThere
<1>10. r.pc = "list" /\ r.out = <<>>
  BY <1>3 DEF List, Listing
<1> HIDE DEF r, l
<1>5. Looks(s, r, "visit", r.file, r.data, l, r.size, r.out, r.end)
  BY <1>2, LooksFields
<1> HIDE DEF s
<1>6. /\ s.kind = r.kind /\ s.meta = r.meta /\ s.pc = "visit" /\ s.todo = l /\ s.out = r.out
  BY <1>5 DEF Looks
<1>7. Listing(s)
  BY <1>3, <1>4, <1>6 DEF Listing, Proper
<1>8. Copying(s, t, disk) /\ Covers(s, t, disk)
  BY <1>4, <1>6 DEF Copying, Covers, Reached, Lost
<1>11. Ordering(s, t, disk)
  <2>1. ~Short(s) /\ DOMAIN s.out = {}
    BY <1>6, <1>10 DEF Short
  <2> QED
    BY <1>4, <1>6, <2>1 DEF Ordering
<1>9. Gathers(s, t, disk)
  BY <1>6, <1>7, <1>8, <1>11 DEF Gathers
<1> QED
  BY <1>1, <1>9, ServeGathered

\* A sequence of names: its head and the rest.
LEMMA HeadOrTail ==
    ASSUME NEW T, NEW l \in Seq(T), l # <<>>
    PROVE  /\ Head(l) \in T /\ Tail(l) \in Seq(T)
           /\ Head(l) \in ToSet(l) /\ ToSet(Tail(l)) \subseteq ToSet(l)
           /\ Sorted(l) => Sorted(Tail(l)) /\ Ahead(Head(l), Tail(l))
           /\ \A f \in ToSet(l) : f = Head(l) \/ f \in ToSet(Tail(l))
<1> DEFINE k == Len(l)
           v == Tail(l)
<1>1. /\ Head(l) \in T /\ v \in Seq(T) /\ k \in Nat /\ k # 0
      /\ DOMAIN l = 1 .. k /\ Head(l) = l[1] /\ DOMAIN v = 1 .. k - 1
      /\ \A i \in 1 .. k - 1 : v[i] = l[i + 1]
  OBVIOUS
<1> HIDE DEF k, v
<1>2. \A i \in 1 .. k : i = 1 \/ (i - 1 \in 1 .. k - 1 /\ (i - 1) + 1 = i)
  BY ONLY <1>1
<1>3. ASSUME NEW f \in ToSet(l), f # Head(l) PROVE f \in ToSet(v)
  <2>1. PICK i \in DOMAIN l : f = l[i]
    BY <1>3 DEF ToSet
  <2>2. i - 1 \in DOMAIN v /\ v[i - 1] = f
    BY <1>1, <1>2, <1>3, <2>1
  <2> QED
    BY <2>2 DEF ToSet
<1>4. 1 \in DOMAIN l /\ \A i \in DOMAIN v : i + 1 \in DOMAIN l /\ 1 < i + 1 /\ v[i] = l[i + 1]
  BY <1>1
<1>5. Head(l) \in ToSet(l) /\ ToSet(v) \subseteq ToSet(l)
  BY <1>1, <1>4 DEF ToSet
<1>6. ASSUME Sorted(l) PROVE Sorted(v) /\ Ahead(Head(l), v)
  <2>1. \A i, j \in DOMAIN v : i < j => i + 1 < j + 1
    BY <1>1
  <2>2. Sorted(v)
    BY <1>4, <1>6, <2>1 DEF Sorted
  <2>3. Ahead(Head(l), v)
    BY <1>1, <1>4, <1>6 DEF Sorted, Ahead, ToSet
  <2> QED
    BY <2>2, <2>3
<1> QED
  BY <1>1, <1>3, <1>5, <1>6 DEF v

\* The walk comes to a name.
LEMMA VisitGathered ==
    ASSUME Fetched, Gathered, NEW c \in Conns, IsArchive(req[c]), Visit(c)
    PROVE  Gathered'
<1> DEFINE r == req[c]
           t == touched[c]
           f == Head(r.todo)
           l == Tail(r.todo)
           z == Len(disk[f])
           u == [r EXCEPT !.pc = "vanished"]
           v == [r EXCEPT !.todo = l]
           s == [r EXCEPT !.file = f, !.size = z, !.todo = l, !.data = <<>>, !.pc = "enter"]
<1>1. /\ r.pc = "visit" /\ r.todo # <<>> /\ UNCHANGED <<disk, touched>>
      /\ Update(c, IF disk[f] = Absent THEN u ELSE IF Skipped(r, f) THEN v ELSE s)
  BY DEF Visit
<1>2. Shaped(r) /\ Disked
  BY DEF Fetched
<1>3. Listing(r) /\ IsArchive(r) /\ Covers(r, t, disk) /\ Ordering(r, t, disk)
  BY GathersIs
<1>4. /\ f \in Name /\ l \in Seq(Name) /\ \A g \in ToSet(r.todo) : g = f \/ g \in ToSet(l)
      /\ f \in ToSet(r.todo) /\ ToSet(l) \subseteq ToSet(r.todo) /\ Sorted(l) /\ Ahead(f, l)
  <2> DEFINE w == r.todo
  <2>1. w \in Seq(Name) /\ w # <<>> /\ Sorted(w)
    BY <1>1, <1>3 DEF Listing, Ordering
  <2> HIDE DEF w
  <2>2. /\ Head(w) \in Name /\ Tail(w) \in Seq(Name)
        /\ Head(w) \in ToSet(w) /\ ToSet(Tail(w)) \subseteq ToSet(w)
        /\ Sorted(Tail(w)) /\ Ahead(Head(w), Tail(w))
        /\ \A g \in ToSet(w) : g = Head(w) \/ g \in ToSet(Tail(w))
    BY <2>1, HeadOrTail
  <2> QED
    BY <2>2 DEF w
<1> HIDE DEF r, f, l
<1>5. \A g \in Name \ t : disk[g] # Absent => \/ ~r.meta /\ g \in Metas
                                              \/ g \in ToSet(r.todo)
                                              \/ Held(r.out, g, disk[g])
  BY <1>1, <1>3 DEF Covers, Walks, Reached
<1>6. Looks(u, r, "vanished", r.file, r.data, r.todo, r.size, r.out, r.end)
  BY <1>2, LooksField
<1>7. Looks(v, r, r.pc, r.file, r.data, l, r.size, r.out, r.end)
  BY <1>2, LooksField
<1> HIDE DEF u, v
<1>11. Short(r) => Ahead(Last(r.out).file, r.todo) /\ Last(r.out).file \in t
  BY <1>3 DEF Ordering
<1>8. CASE disk[f] = Absent
  <2>1. /\ u.kind = r.kind /\ u.meta = r.meta /\ u.pc = "vanished" /\ u.todo = r.todo /\ u.out = r.out
    BY <1>6 DEF Looks
  <2>2. Listing(u) /\ Copying(u, t, disk)
    BY <1>1, <1>3, <2>1 DEF Listing, Proper, Copying
  <2>3. f \in t
    BY <1>3, <1>4, <1>8 DEF Ordering
  <2>4. \A g \in ToSet(r.todo) \ t : Before(f, g)
    BY <1>4, <2>3 DEF Ahead
  <2>5. Covers(u, t, disk)
    BY <1>5, <2>1, <2>3, <2>4 DEF Covers, Walks, Excused
  <2>6. Ordering(u, t, disk)
    BY <1>3, <2>1, OrderingStays
  <2>7. Gathers(u, t, disk)
    BY <2>1, <2>2, <2>5, <2>6 DEF Gathers
  <2> QED
    BY <1>1, <1>8, <2>7, ServeGathered
<1>9. CASE disk[f] # Absent /\ Skipped(r, f)
  <2>1. /\ v.kind = r.kind /\ v.meta = r.meta /\ v.pc = "visit" /\ v.todo = l /\ v.out = r.out
    BY <1>1, <1>7 DEF Looks
  <2>2. Listing(v)
    BY <1>3, <1>4, <2>1 DEF Listing, Proper
  <2>3. ~r.meta /\ f \in Metas
    BY <1>9 DEF Skipped
  <2>4. Copying(v, t, disk) /\ Covers(v, t, disk)
    BY <1>4, <1>5, <2>1, <2>3 DEF Copying, Covers, Reached, Lost
  <2>6. Ordering(v, t, disk)
    <3>1. Short(v) <=> Short(r)
      BY <2>1 DEF Short
    <3> QED
      BY <1>3, <1>4, <1>11, <2>1, <3>1 DEF Ordering, Ahead
  <2>5. Gathers(v, t, disk)
    BY <2>1, <2>2, <2>4, <2>6 DEF Gathers
  <2> QED
    BY <1>1, <1>9, <2>5, ServeGathered
<1>10. CASE disk[f] # Absent /\ ~Skipped(r, f)
  <2>1. z \in Nat
    BY <1>2, <1>4, <1>10 DEF Disked, Holds
  <2>2. Update(c, s)
    BY <1>1, <1>10
  <2> HIDE DEF z
  <2>3. Looks(s, r, "enter", f, <<>>, l, z, r.out, r.end)
    BY <1>2, LooksVisit
  <2> HIDE DEF s
  <2>4. /\ s.kind = r.kind /\ s.meta = r.meta /\ s.pc = "enter" /\ s.todo = l /\ s.out = r.out
        /\ s.file = f /\ s.data = <<>> /\ s.size = z
    BY <2>3 DEF Looks
  <2>5. Listing(s)
    BY <1>3, <1>4, <2>4 DEF Listing, Proper
  <2>6. <<>> \in Seq(Nat) /\ Len(<<>>) = 0 /\ DOMAIN <<>> = {} /\ 0 <= z
    BY <2>1
  <2>7. r.meta \/ f \notin Metas
    BY <1>10 DEF Skipped
  <2>8. 0 <= Len(disk[f]) /\ Len(disk[f]) = z
    BY <2>1 DEF z
  <2>9. Copying(s, t, disk)
    BY <1>4, <1>10, <2>1, <2>4, <2>6, <2>7, <2>8 DEF Copying
  <2>10. Covers(s, t, disk)
    BY <1>4, <1>5, <2>4 DEF Covers, Reached, Lost
  <2>12. Ordering(s, t, disk)
    <3>1. Short(s) <=> Short(r)
      BY <2>4 DEF Short
    <3> QED
      BY <1>3, <1>4, <1>11, <2>4, <3>1 DEF Ordering, Ahead
  <2>11. Gathers(s, t, disk)
    BY <2>4, <2>5, <2>9, <2>10, <2>12 DEF Gathers
  <2> QED
    BY <1>1, <2>2, <2>11, ServeGathered
<1> QED
  BY <1>8, <1>9, <1>10

\* The file of the entry is opened.
LEMMA EnteredGathered ==
    ASSUME Fetched, Gathered, NEW c \in Conns, IsArchive(req[c]), Entered(c)
    PROVE  Gathered'
<1> DEFINE r == req[c]
           t == touched[c]
           p == IF disk[r.file] = Absent THEN "visit" ELSE IF Short(r) THEN "short" ELSE "copy"
           s == [r EXCEPT !.pc = p]
<1>1. r.pc = "enter" /\ Update(c, s) /\ UNCHANGED <<disk, touched>>
  BY DEF Entered
<1>2. Shaped(r)
  BY DEF Fetched
<1>3. Listing(r) /\ IsArchive(r) /\ Covers(r, t, disk) /\ Copying(r, t, disk) /\ Ordering(r, t, disk)
  BY GathersIs
<1>4. (disk[r.file] = Absent /\ p = "visit") \/ (Short(r) /\ p = "short") \/ (~Short(r) /\ p = "copy")
  OBVIOUS
<1> HIDE DEF r, p
<1>5. Looks(s, r, p, r.file, r.data, r.todo, r.size, r.out, r.end)
  BY <1>2, LooksField
<1> HIDE DEF s
<1>6. /\ s.kind = r.kind /\ s.meta = r.meta /\ s.pc = p /\ s.todo = r.todo /\ s.out = r.out
      /\ s.file = r.file /\ s.data = r.data /\ s.size = r.size
  BY <1>5 DEF Looks
<1>7. Listing(s)
  BY <1>3, <1>4, <1>6 DEF Listing, Proper
<1>8. Copying(s, t, disk)
  BY <1>1, <1>3, <1>6 DEF Copying
<1>9. Covers(s, t, disk)
  <2>1. CASE p # "short"
    BY <1>1, <1>3, <1>4, <1>6, <2>1 DEF Covers, Reached, Walks, Lost
  <2>2. CASE p = "short"
    <3>1. /\ Last(r.out).file \in t /\ Ahead(Last(r.out).file, r.todo)
          /\ Before(Last(r.out).file, r.file)
      BY <1>1, <1>3, <1>4, <2>2 DEF Ordering
    <3>2. ~Walks(s)
      BY <1>6, <2>2 DEF Walks
    <3>3. \A f \in Name \ t : disk[f] # Absent => Reached(r, f, disk[f])
      BY <1>1, <1>3 DEF Covers, Walks
    <3>4. \A f \in Name \ t : disk[f] # Absent => Excused(s, t, f, disk[f])
      BY <1>6, <3>1, <3>3 DEF Reached, Excused, Ahead
    <3> QED
      BY <3>2, <3>4 DEF Covers
  <2> QED
    BY <2>1, <2>2
<1>11. Ordering(s, t, disk)
  BY <1>1, <1>3, <1>4, <1>6, OrderingStays
<1>10. Gathers(s, t, disk)
  BY <1>4, <1>6, <1>7, <1>8, <1>9, <1>11 DEF Gathers
<1> QED
  BY <1>1, <1>10, ServeGathered

\* The archive is closed.
LEMMA CloseGathered ==
    ASSUME Fetched, Gathered, NEW c \in Conns, IsArchive(req[c]), Close(c)
    PROVE  Gathered'
<1> DEFINE r == req[c]
           t == touched[c]
           p == IF Short(r) THEN "short" ELSE r.pc
           s == [r EXCEPT !.pc = "done", !.end = p]
<1>1. /\ r.pc = "visit" => r.todo = <<>>
      /\ r.pc \in {"visit", "vanished", "grown", "short"}
      /\ Update(c, s) /\ UNCHANGED <<disk, touched>>
  BY DEF Close
<1>2. Shaped(r)
  BY DEF Fetched
<1>3. Listing(r) /\ IsArchive(r) /\ Covers(r, t, disk) /\ Ordering(r, t, disk)
  BY GathersIs
<1>10. (Short(r) /\ p = "short") \/ (~Short(r) /\ p = r.pc)
  OBVIOUS
<1> HIDE DEF r, p
<1>4. Looks(s, r, "done", r.file, r.data, r.todo, r.size, r.out, p)
  BY <1>2, LooksFields
<1> HIDE DEF s
<1>5. /\ s.kind = r.kind /\ s.meta = r.meta /\ s.pc = "done" /\ s.todo = r.todo /\ s.out = r.out
      /\ s.end = p
  BY <1>4 DEF Looks
<1>6. Listing(s)
  BY <1>3, <1>5 DEF Listing, Proper
<1>7. Copying(s, t, disk)
  BY <1>5 DEF Copying
<1>8. Covers(s, t, disk)
  <2> SUFFICES ASSUME NEW f \in Name \ t, disk[f] # Absent
               PROVE  (Walks(s) => Reached(s, f, disk[f])) /\ (Lost(s) => Excused(s, t, f, disk[f]))
    BY DEF Covers
  <2>1. CASE r.pc = "visit"
    <3>1. Reached(r, f, disk[f]) /\ f \notin ToSet(r.todo)
      BY <1>1, <1>3, <2>1 DEF Covers, Walks, ToSet
    <3> QED
      BY <1>5, <2>1, <3>1 DEF Reached, Excused
  <2>2. CASE r.pc # "visit"
    <3>1. Excused(r, t, f, disk[f]) /\ ~Walks(s)
      BY <1>1, <1>3, <1>5, <1>10, <2>2 DEF Covers, Lost, Walks
    <3> QED
      BY <1>5, <3>1 DEF Excused
  <2> QED
    BY <2>1, <2>2
<1>11. Ordering(s, t, disk)
  BY <1>3, <1>5, <1>10, OrderingStays
<1>12. s.end = "visit" => s.todo = <<>>
  BY <1>1, <1>5, <1>10
<1>9. Gathers(s, t, disk)
  BY <1>5, <1>6, <1>7, <1>8, <1>11, <1>12 DEF Gathers
<1> QED
  BY <1>1, <1>9, ServeGathered

\* The piece that io.Copy reads next, or the rest of a file that was removed.
Rest(r) == IF disk[r.file] = Absent THEN [n \in 1 .. Pieces - Len(r.data) |-> copies[r.file]]
           ELSE PieceAt(r.file, Len(r.data) + 1)

\* It is a number; for a file that is there it is its next piece, and there is
\* none at the end.
LEMMA RestIs ==
    ASSUME Disked, NEW r, r.file \in Name, r.data \in Seq(Nat)
    PROVE  /\ Rest(r) # <<>> => Rest(r)[1] \in Nat
           /\ disk[r.file] # Absent /\ Rest(r) # <<>> =>
                 Len(r.data) + 1 <= Len(disk[r.file]) /\ Rest(r)[1] = disk[r.file][Len(r.data) + 1]
           /\ disk[r.file] # Absent /\ Rest(r) = <<>> => ~(Len(r.data) + 1 <= Len(disk[r.file]))
<1> DEFINE f == r.file
           k == Len(r.data)
           x == disk[f]
<1>1. k \in Nat /\ Pieces \in Nat /\ copies[f] \in Nat
  BY ProductsAssumption DEF Disked
<1>2. CASE x = Absent
  <2> DEFINE m == Pieces - k
             v == copies[f]
             q == [n \in 1 .. m |-> v]
  <2>1. Rest(r) = q
    BY <1>2 DEF Rest
  <2>2. m \in Int /\ v \in Nat
    BY <1>1
  <2> HIDE DEF m, v, f, k
  <2>3. q # <<>> => q[1] \in Nat
    <3> SUFFICES ASSUME q # <<>> PROVE q[1] \in Nat
      OBVIOUS
    <3>1. CASE 1 \in 1 .. m
      BY <2>2, <3>1
    <3>2. CASE 1 \notin 1 .. m
      <4>1. 1 .. m = {}
        BY <2>2, <3>2
      <4>2. q = <<>>
        BY <4>1
      <4> QED
        BY <4>2
    <3> QED
      BY <3>1, <3>2
  <2> QED
    BY <1>2, <2>1, <2>3 DEF f, x
<1>3. CASE x # Absent
  <2>1. x \in Seq(Nat)
    BY <1>3 DEF Disked, Holds
  <2> HIDE DEF x
  <2>2. Rest(r) = IF k + 1 <= Len(x) THEN <<x[k + 1]>> ELSE <<>>
    BY <1>3 DEF Rest, PieceAt, x
  <2> HIDE DEF k, f
  <2>3. CASE k + 1 <= Len(x)
    <3> DEFINE y == x[k + 1]
    <3>1. y \in Nat
      BY <1>1, <2>1, <2>3
    <3>2. Rest(r) = <<y>>
      BY <2>2, <2>3
    <3> HIDE DEF y
    <3>3. Rest(r) # <<>> /\ Rest(r)[1] = y
      BY <3>2
    <3> QED
      BY <1>3, <2>3, <3>1, <3>3 DEF y, x, f, k
  <2>4. CASE ~(k + 1 <= Len(x))
    <3>1. Rest(r) = <<>>
      BY <2>2, <2>4
    <3> QED
      BY <1>3, <2>4, <3>1 DEF x, f, k
  <2> QED
    BY <2>3, <2>4
<1> QED
  BY <1>2, <1>3

\* Data that agrees with a file, and has no piece less, is the file.
LEMMA AllCopied ==
    ASSUME NEW d \in Seq(Nat), NEW x \in Seq(Nat), Len(d) <= Len(x), ~(Len(d) + 1 <= Len(x)),
           \A n \in DOMAIN d : d[n] = x[n]
    PROVE  d = x
<1>1. Len(d) = Len(x) /\ DOMAIN d = 1 .. Len(d)
  OBVIOUS
<1> QED
  BY <1>1

\* A piece more that agrees.
LEMMA MoreCopied ==
    ASSUME NEW d \in Seq(Nat), NEW y \in Nat
    PROVE  /\ Append(d, y) \in Seq(Nat) /\ Len(Append(d, y)) = Len(d) + 1 /\ Len(d) \in Nat
           /\ \A x : (\A n \in DOMAIN d : d[n] = x[n]) /\ y = x[Len(d) + 1] =>
                 \A n \in DOMAIN Append(d, y) : Append(d, y)[n] = x[n]
<1> DEFINE e == Append(d, y)
           l == Len(d)
<1>1. /\ e \in Seq(Nat) /\ Len(e) = l + 1 /\ l \in Nat /\ DOMAIN d = 1 .. l /\ DOMAIN e = 1 .. l + 1
      /\ e[l + 1] = y /\ \A n \in 1 .. l : e[n] = d[n]
  OBVIOUS
<1> HIDE DEF e, l
<1>2. \A n \in 1 .. l + 1 : n = l + 1 \/ n \in 1 .. l
  BY <1>1
<1>3. ASSUME NEW x, \A n \in DOMAIN d : d[n] = x[n], y = x[l + 1], NEW n \in DOMAIN e PROVE e[n] = x[n]
  BY <1>1, <1>2, <1>3
<1> QED
  BY <1>1, <1>3 DEF e, l

\* io.Copy reads a piece, or comes to the end of the entry.
LEMMA CopyGathered ==
    ASSUME Fetched, Gathered, NEW c \in Conns, IsArchive(req[c]), Copy(c)
    PROVE  Gathered'
<1> DEFINE r == req[c]
           t == touched[c]
           f == r.file
           d == r.data
           y == Rest(r)[1]
           x == Append(d, y)
           e == Entry(r)
           o == Append(r.out, e)
           grown == Rest(r) # <<>> /\ TooLong(r)
           p == IF grown THEN "grown" ELSE "visit"
           v == [r EXCEPT !.data = x]
           s == [r EXCEPT !.out = o, !.pc = p]
<1>1. /\ r.pc = "copy" /\ UNCHANGED <<disk, touched>>
      /\ Update(c, IF Rest(r) # <<>> /\ ~grown THEN v ELSE s)
  BY DEF Copy, Rest
<1>2. Shaped(r) /\ Disked
  BY DEF Fetched
<1>3. Listing(r) /\ IsArchive(r) /\ Covers(r, t, disk) /\ Copying(r, t, disk) /\ Ordering(r, t, disk)
  BY GathersIs
<1>4. /\ f \in Name /\ r.size \in Nat /\ d \in Seq(Nat)
      /\ r.meta \/ f \notin Metas
      /\ r.kind = "tar" => Len(d) <= r.size
      /\ f \notin t => /\ disk[f] # Absent /\ Len(disk[f]) = r.size
                       /\ Len(d) <= Len(disk[f])
                       /\ \A n \in DOMAIN d : d[n] = disk[f][n]
  BY <1>1, <1>3 DEF Copying
<1>5. /\ Rest(r) # <<>> => y \in Nat
      /\ disk[f] # Absent /\ Rest(r) # <<>> => Len(d) + 1 <= Len(disk[f]) /\ y = disk[f][Len(d) + 1]
      /\ disk[f] # Absent /\ Rest(r) = <<>> => ~(Len(d) + 1 <= Len(disk[f]))
  BY <1>2, <1>4, RestIs
<1>6. \A g \in Name \ t : disk[g] # Absent => \/ ~r.meta /\ g \in Metas
                                              \/ g \in ToSet(r.todo)
                                              \/ g = f
                                              \/ Held(r.out, g, disk[g])
  BY <1>1, <1>3 DEF Covers, Walks, Reached
<1>7. Len(d) \in Nat
  BY <1>4
<1>8. grown => TooLong(r) /\ p = "grown" /\ Rest(r) # <<>>
  OBVIOUS
<1>14. ~grown => p = "visit"
  OBVIOUS
<1> HIDE DEF r, f, d, y, x, o, e, p, grown
<1>9. Looks(v, r, r.pc, r.file, x, r.todo, r.size, r.out, r.end)
  BY <1>2, LooksField
<1>10. Looks(s, r, p, r.file, r.data, r.todo, r.size, o, r.end)
  BY <1>2, LooksFields
<1> HIDE DEF v, s
<1>11. ~Short(r) /\ Ahead(f, r.todo)
  BY <1>1, <1>3 DEF Ordering, f
<1>12. CASE Update(c, v) /\ Rest(r) # <<>> /\ ~TooLong(r)
  <2>1. /\ v.kind = r.kind /\ v.meta = r.meta /\ v.pc = "copy" /\ v.todo = r.todo /\ v.out = r.out
        /\ v.file = f /\ v.data = x /\ v.size = r.size
    BY <1>1, <1>9 DEF Looks, f
  <2>2. Listing(v)
    BY <1>3, <2>1 DEF Listing, Proper
  <2>3. /\ x \in Seq(Nat) /\ Len(x) = Len(d) + 1
        /\ (\A n \in DOMAIN d : d[n] = disk[f][n]) /\ y = disk[f][Len(d) + 1] =>
              \A n \in DOMAIN x : x[n] = disk[f][n]
    <3>1. d \in Seq(Nat) /\ y \in Nat
      BY <1>4, <1>5, <1>12
    <3>2. /\ Append(d, y) \in Seq(Nat) /\ Len(Append(d, y)) = Len(d) + 1
          /\ \A w : (\A n \in DOMAIN d : d[n] = w[n]) /\ y = w[Len(d) + 1] =>
                \A n \in DOMAIN Append(d, y) : Append(d, y)[n] = w[n]
      BY ONLY <3>1, MoreCopied
    <3> QED
      BY <3>2 DEF x
  <2>4. r.kind = "tar" => Len(x) <= r.size
    <3> SUFFICES ASSUME r.kind = "tar" PROVE Len(x) <= r.size
      OBVIOUS
    <3>1. Len(d) <= r.size /\ Len(d) # r.size
      BY <1>4, <1>12 DEF TooLong, d
    <3> QED
      BY ONLY <1>4, <1>7, <2>3, <3>1
  <2>5. f \notin t => /\ disk[f] # Absent /\ Len(disk[f]) = r.size
                      /\ Len(x) <= Len(disk[f])
                      /\ \A n \in DOMAIN x : x[n] = disk[f][n]
    BY <1>4, <1>5, <1>12, <2>3
  <2>6. Copying(v, t, disk)
    BY <1>4, <2>1, <2>3, <2>4, <2>5 DEF Copying
  <2>7. Covers(v, t, disk)
    BY <1>6, <2>1 DEF Covers, Reached, Lost
  <2>9. Ordering(v, t, disk)
    BY <1>1, <1>3, <1>11, <2>1, OrderingStays DEF f
  <2>8. Gathers(v, t, disk)
    BY <2>1, <2>2, <2>6, <2>7, <2>9 DEF Gathers
  <2> QED
    BY <1>1, <1>12, <2>8, ServeGathered
<1>13. CASE Update(c, s) /\ (Rest(r) = <<>> \/ grown)
  <2>1. /\ s.kind = r.kind /\ s.meta = r.meta /\ s.pc = p /\ s.todo = r.todo /\ s.out = o
    BY <1>10 DEF Looks
  <2>2. e \in Entries /\ e.file = f /\ e.data = d /\ e.size = r.size
    BY <1>4 DEF e, Entry, Entries, f, d
  <2>3. /\ o \in Seq(Entries) /\ ToSet(o) = ToSet(r.out) \cup {e} /\ Last(o) = e
        /\ DOMAIN o = 1 .. Len(r.out) + 1 /\ Len(o) = Len(r.out) + 1 /\ o[Len(o)] = e
        /\ r.out \in Seq(Entries) /\ \A n \in DOMAIN r.out : o[n] = r.out[n]
    <3> DEFINE w == r.out
    <3>1. w \in Seq(Entries)
      BY <1>3 DEF Listing
    <3> HIDE DEF w
    <3>2. Append(w, e) \in Seq(Entries) /\ ToSet(Append(w, e)) = ToSet(w) \cup {e}
      BY <2>2, <3>1, ToSetAppend
    <3>3. /\ Last(Append(w, e)) = e
          /\ DOMAIN Append(w, e) = 1 .. Len(w) + 1 /\ Len(Append(w, e)) = Len(w) + 1
          /\ Append(w, e)[Len(Append(w, e))] = e
          /\ \A n \in DOMAIN w : Append(w, e)[n] = w[n]
      BY <2>2, <3>1 DEF Last
    <3> QED
      BY <3>1, <3>2, <3>3 DEF o, w
  <2>4. p \in {"visit", "grown"}
    BY <1>8, <1>14
  <2>5. Listing(s)
    BY <1>3, <1>4, <2>1, <2>2, <2>3, <2>4 DEF Listing, Proper
  <2>6. ASSUME f \notin t PROVE ~grown /\ d = disk[f] /\ Len(d) = r.size
    <3>1. disk[f] \in Seq(Nat)
      BY <1>2, <1>4, <2>6 DEF Disked, Holds
    <3>2. ~grown
      <4> SUFFICES ASSUME grown PROVE FALSE
        OBVIOUS
      <4>1. Len(d) = r.size
        BY <1>8 DEF TooLong, d
      <4>2. Len(d) + 1 <= Len(disk[f])
        BY <1>4, <1>5, <1>8, <2>6
      <4> QED
        BY <1>4, <1>7, <2>6, <4>1, <4>2
    <3>3. d = disk[f]
      BY <1>4, <1>5, <1>13, <2>6, <3>1, <3>2, AllCopied
    <3> QED
      BY <1>4, <2>6, <3>2, <3>3
  <2>7. \A g \in Name : Held(r.out, g, disk[g]) => Held(o, g, disk[g])
    BY <2>3 DEF Held
  <2>8. f \notin t => Held(o, f, disk[f])
    BY <2>2, <2>3, <2>6 DEF Held
  <2>9. Covers(s, t, disk)
    <3>1. CASE grown
      <4>1. f \in t /\ s.pc = "grown"
        BY <1>8, <2>1, <2>6, <3>1
      <4>2. ~Walks(s) /\ \A g \in ToSet(r.todo) : Before(f, g)
        BY <1>11, <4>1 DEF Walks, Ahead
      <4>3. \A g \in Name \ t : disk[g] # Absent => Excused(s, t, g, disk[g])
        BY <1>6, <2>1, <2>7, <4>1, <4>2 DEF Excused
      <4> QED
        BY <4>2, <4>3 DEF Covers
    <3>2. CASE ~grown
      <4>1. s.pc = "visit"
        BY <1>14, <2>1, <3>2
      <4> QED
        BY <1>6, <2>1, <2>7, <2>8, <4>1 DEF Covers, Reached, Lost
    <3> QED
      BY <3>1, <3>2
  <2>10. Copying(s, t, disk)
    BY <2>1, <2>4 DEF Copying
  <2>12. Ordering(s, t, disk)
    <3>1. Short(s) => r.kind = "tar" /\ Len(d) < r.size
      BY <2>1, <2>2, <2>3 DEF Short
    <3>2. Short(s) => f \in t
      BY <1>4, <1>7, <2>6, <3>1
    <3>3. ASSUME r.kind = "tar", NEW n \in DOMAIN o PROVE Fits(o[n]) /\ (n = Len(o) \/ Filled(o[n]))
      <4>1. CASE n = Len(o)
        BY <1>4, <2>2, <2>3, <3>3, <4>1 DEF Fits
      <4>2. CASE n # Len(o)
        <5>1. n \in DOMAIN r.out /\ o[n] = r.out[n]
          BY <2>3, <3>3, <4>2
        <5>2. Fits(r.out[n]) /\ (n = Len(r.out) \/ Filled(r.out[n]))
          BY <1>3, <3>3, <5>1 DEF Ordering
        <5>3. n = Len(r.out) => Filled(r.out[n])
          <6> SUFFICES ASSUME n = Len(r.out) PROVE Filled(r.out[n])
            OBVIOUS
          <6>1. Last(r.out) = r.out[n] /\ r.out # <<>>
            BY <5>1 DEF Last
          <6>2. ~(Len(r.out[n].data) < r.out[n].size)
            BY <1>11, <3>3, <6>1 DEF Short
          <6>3. r.out[n] \in Entries
            BY <2>3, <5>1
          <6>4. Len(r.out[n].data) \in Nat /\ r.out[n].size \in Nat
            BY <6>3 DEF Entries
          <6> QED
            BY <5>2, <6>2, <6>4 DEF Fits, Filled
        <5> QED
          BY <5>1, <5>2, <5>3
      <4> QED
        BY <4>1, <4>2
    <3> QED
      BY <1>3, <1>11, <2>1, <2>2, <2>3, <2>4, <3>2, <3>3 DEF Ordering
  <2>11. Gathers(s, t, disk)
    BY <2>1, <2>4, <2>5, <2>9, <2>10, <2>12 DEF Gathers
  <2> QED
    BY <1>1, <1>13, <2>11, ServeGathered
<1> QED
  BY <1>1, <1>12, <1>13 DEF grown

\* A download that knows which files change.
LEMMA GathersStays ==
    ASSUME NEW r, NEW t, NEW dk, NEW dl, NEW f, Gathers(r, t, dk),
           \A h \in Name : h # f => dl[h] = dk[h]
    PROVE  Gathers(r, t \cup {f}, dl)
<1> SUFFICES ASSUME IsArchive(r) PROVE Gathers(r, t \cup {f}, dl)
  BY DEF Gathers
<1>1. Listing(r) /\ Copying(r, t, dk) /\ Covers(r, t, dk) /\ Ordering(r, t, dk)
  BY DEF Gathers
<1>2. Copying(r, t \cup {f}, dl)
  BY <1>1 DEF Copying
<1>3. Covers(r, t \cup {f}, dl)
  <2>1. \A h \in Name \ (t \cup {f}) : dl[h] = dk[h] /\ h \in Name \ t
    OBVIOUS
  <2> QED
    BY <1>1, <2>1 DEF Covers, Excused
<1>4. Ordering(r, t \cup {f}, dl)
  <2>1. ToSet(r.todo) \subseteq Name
    BY <1>1 DEF Listing, ToSet
  <2> QED
    BY <1>1, <2>1 DEF Ordering
<1> QED
  BY <1>1, <1>2, <1>3, <1>4 DEF Gathers

\* The store writes or removes a file.
LEMMA WriterGathered ==
    ASSUME Fetched, Gathered, NEW f \in Name, Writer(f)
    PROVE  Gathered'
<1>1. /\ \A h \in Name : h # f => disk'[h] = disk[h]
      /\ req' = req /\ touched' = [c \in Conns |-> touched[c] \cup {f}]
  <2>1. disk = [h \in Name |-> disk[h]]
    BY DEF Fetched, Disked
  <2> QED
    BY <2>1 DEF Writer, Create, Fill, Unlink, Touch
<1>2. ASSUME NEW c \in Conns PROVE Gathers(req'[c], touched'[c], disk')
  <2>1. Gathers(req[c], touched[c], disk)
    BY DEF Gathered
  <2>2. Gathers(req[c], touched[c] \cup {f}, disk')
    BY <1>1, <2>1, GathersStays
  <2> QED
    BY <1>1, <2>2
<1> QED
  BY <1>2 DEF Gathered

\* A step of a handler.
LEMMA HandlerGathered ==
    ASSUME Fetched, Gathered, NEW c \in Conns, Serve(c)
    PROVE  Gathered'
<1>1. CASE ~IsArchive(req[c])
  <2>1. PICK s : Update(c, s) /\ Kept(s, req[c])
    BY ServeKeeps
  <2>2. UNCHANGED <<disk, copies, touched>>
    BY ServeKeeps
  <2>3. Gathers(s, touched[c], disk)
    BY <1>1, <2>1, OtherGathers DEF Kept, IsArchive
  <2> QED
    BY <2>1, <2>2, <2>3, ServeGathered
<1>2. CASE IsArchive(req[c])
  <2>1. req[c].pc \in {"list", "visit", "enter", "copy", "vanished", "grown", "short", "done"}
    BY <1>2, GathersIs DEF Listing
  <2>2. ~(Open(c) \/ ReadHeader(c) \/ ReadBody(c) \/ ReadRemoved(c) \/ Send(c))
    BY <2>1 DEF Open, ReadHeader, ReadBody, ReadRemoved, Send
  <2> QED
    BY <1>2, <2>2, ListGathered, VisitGathered, EnteredGathered, CopyGathered, CloseGathered
    DEF Serve
<1> QED
  BY <1>1, <1>2

\* A new request.
LEMMA AskGathered ==
    ASSUME Fetched, Gathered, NEW c \in Conns, NEW s, Ask(c, s),
           IsArchive(s) => /\ s.pc = "list" /\ s.meta \in BOOLEAN
                           /\ s.todo = <<>> /\ s.out = <<>>
    PROVE  Gathered'
<1> DEFINE t == {f \in Name : disk[f] # Absent /\ Len(disk[f]) < Pieces}
<1>0. Fetched /\ Gathered
  OBVIOUS
<1>1. Update(c, s) /\ touched' = [touched EXCEPT ![c] = t] /\ disk' = disk
  BY DEF Ask
<1> HIDE DEF t
<1>2. Gathers(s, t, disk)
  <2> SUFFICES ASSUME IsArchive(s) PROVE Gathers(s, t, disk)
    BY DEF Gathers
  <2>1. s.pc = "list" /\ s.meta \in BOOLEAN /\ s.todo = <<>> /\ s.out = <<>>
    OBVIOUS
  <2>2. <<>> \in Seq(Name) /\ <<>> \in Seq(Entries) /\ ToSet(<<>>) = {}
    BY DEF ToSet
  <2>3. Listing(s)
    BY <2>1, <2>2 DEF Listing
  <2>4. Copying(s, t, disk) /\ Covers(s, t, disk)
    BY <2>1 DEF Copying, Covers, Walks, Lost
  <2>5. Ordering(s, t, disk)
    <3>1. DOMAIN <<>> = {}
      OBVIOUS
    <3>2. ~Short(s)
      BY <2>1 DEF Short
    <3> QED
      BY <2>1, <2>2, <3>1, <3>2 DEF Ordering, Sorted
  <2> QED
    BY <2>1, <2>3, <2>4, <2>5 DEF Gathers
<1> QED
  BY ONLY <1>0, <1>1, <1>2, c \in Conns, UpdateGathered

\* The requests that a client may make.
LEMMA AsksGathered ==
    ASSUME Fetched, Gathered, NEW c \in Conns, Asks(c)
    PROVE  Gathered'
<1>1. ASSUME NEW k, k \notin {"tar", "zip"}, NEW s, s.kind = k, Ask(c, s) PROVE Gathered'
  BY <1>1, AskGathered DEF IsArchive
<1>2. ASSUME NEW f \in Name, NEW m \in Accepts, AskProduct(c, f, m) PROVE Gathered'
  <2>1. PICK p, x : Ask(c, [Idling EXCEPT !.kind = "product", !.file = f, !.accept = m, !.pc = p,
                                          !.code = x])
    BY <1>2 DEF AskProduct
  <2> DEFINE s == [Idling EXCEPT !.kind = "product", !.file = f, !.accept = m, !.pc = p, !.code = x]
  <2>2. s.kind = "product"
    BY DEF Idling
  <2> HIDE DEF s
  <2> QED
    BY <1>1, <2>1, <2>2 DEF s
<1>3. ASSUME NEW m \in Accepts, NEW found \in BOOLEAN, Browse(c, m, found) PROVE Gathered'
  <2>1. PICK o, x : Ask(c, [Idling EXCEPT !.kind = "browse", !.accept = m, !.pc = "done", !.out = o,
                                          !.code = x])
    BY <1>3 DEF Browse
  <2> DEFINE s == [Idling EXCEPT !.kind = "browse", !.accept = m, !.pc = "done", !.out = o, !.code = x]
  <2>2. s.kind = "browse"
    BY DEF Idling
  <2> HIDE DEF s
  <2> QED
    BY <1>1, <2>1, <2>2 DEF s
<1>4. ASSUME NEW k \in {"tar", "zip", "rar"}, NEW m \in BOOLEAN, AskArchive(c, k, m) PROVE Gathered'
  <2> DEFINE p == IF k \in {"tar", "zip"} THEN "list" ELSE "done"
             x == IF k \in {"tar", "zip"} THEN 200 ELSE 400
             s == [Idling EXCEPT !.kind = k, !.meta = m, !.pc = p, !.code = x]
  <2>1. Ask(c, s)
    BY <1>4 DEF AskArchive
  <2>2. k \in {"tar", "zip"} => p = "list"
    OBVIOUS
  <2> HIDE DEF p, x
  <2>3. s.kind = k /\ s.meta = m /\ s.pc = p /\ s.todo = <<>> /\ s.out = <<>>
    BY DEF Idling
  <2> HIDE DEF s
  <2>4. IsArchive(s) => s.pc = "list" /\ s.meta \in BOOLEAN /\ s.todo = <<>> /\ s.out = <<>>
    BY <2>2, <2>3 DEF IsArchive
  <2> QED
    BY <2>1, <2>4, AskGathered
<1> QED
  BY <1>2, <1>3, <1>4 DEF Asks

\* Every step keeps what is known of the downloads.
LEMMA NextGathered == Fetched /\ Gathered /\ [Next]_vars => Gathered'
<1> SUFFICES ASSUME Fetched, Gathered, [Next]_vars PROVE Gathered'
  OBVIOUS
<1>1. ASSUME UNCHANGED productVars PROVE Gathered'
  BY <1>1 DEF Gathered, productVars
<1>2. CASE Quiet \/ UNCHANGED vars
  <2>1. UNCHANGED productVars
    BY <1>2 DEF Quiet, vars
  <2> QED
    BY <1>1, <2>1
<1> QED
  BY <1>1, <1>2, HandlerGathered, AsksGathered, WriterGathered DEF Next

\* An archive holds, whole, every file it should and that was left alone while it
\* was made, unless it ends early, and then a missing file comes behind one that
\* was changed.  Only the last entry of a tar that has no trailer may be shorter
\* than its header says, and there are no metadata that were not asked for.
THEOREM DownloadsComplete == Spec => []DownloadComplete
<1>1. Init => Gathered
  <2> SUFFICES ASSUME Init, NEW c \in Conns PROVE Gathers(req[c], touched[c], disk)
    BY DEF Gathered
  <2>1. req[c].kind = ""
    BY DEF Init, Idling, Blank
  <2> QED
    BY <2>1, OtherGathers DEF IsArchive
<1>2. Fetched /\ Gathered => DownloadComplete
  <2> SUFFICES ASSUME Fetched, Gathered PROVE DownloadComplete
    OBVIOUS
  <2>1. /\ ToSet(Names) = {f \in Name : disk[f] # Absent}
        /\ ToSet(readDir) = {f \in Name : disk[f] # Absent} \ Metas
    BY NamesThere DEF Fetched
  <2>2. SUFFICES ASSUME NEW c \in Conns, Downloaded(c)
                 PROVE  /\ \A f \in Due(c) \ touched[c] :
                             \/ \E e \in ToSet(req[c].out) : e.file = f /\ e.data = disk[f]
                             \/ req[c].end # "visit" /\ \E g \in touched[c] : Before(g, f)
                        /\ req[c].kind = "tar" => \A n \in DOMAIN req[c].out :
                             \/ Len(req[c].out[n].data) = req[c].out[n].size
                             \/ req[c].end = "short" /\ n = Len(req[c].out)
                        /\ ~req[c].meta => \A e \in ToSet(req[c].out) : e.file \notin Metas
    BY DEF DownloadComplete
  <2> DEFINE r == req[c]
             t == touched[c]
  <2>3. IsArchive(r) /\ r.pc = "done"
    BY <2>2 DEF Downloaded, IsArchive
  <2>4. Listing(r) /\ Covers(r, t, disk) /\ Ordering(r, t, disk) /\ (r.end = "visit" => r.todo = <<>>)
    BY <2>3 DEF Gathered, Gathers
  <2>5. \A f \in Due(c) : f \in Name /\ disk[f] # Absent /\ (r.meta \/ f \notin Metas)
    BY <2>1 DEF Due
  <2> HIDE DEF r
  <2>6. ASSUME NEW f \in Due(c) \ t
        PROVE  Held(r.out, f, disk[f]) \/ (r.end # "visit" /\ \E g \in t : Before(g, f))
    <3>1. CASE r.end = "visit"
      <4>1. Reached(r, f, disk[f]) /\ f \notin ToSet(r.todo)
        BY <2>3, <2>4, <2>5, <2>6, <3>1 DEF Covers, Walks, ToSet
      <4> QED
        BY <2>3, <2>5, <2>6, <4>1 DEF Reached
    <3>2. CASE r.end # "visit"
      <4>1. Excused(r, t, f, disk[f])
        BY <2>3, <2>4, <2>5, <2>6, <3>2 DEF Covers, Lost
      <4> QED
        BY <2>5, <2>6, <3>2, <4>1 DEF Excused
    <3> QED
      BY <3>1, <3>2
  <2>7. ASSUME r.kind = "tar", NEW n \in DOMAIN r.out
        PROVE  Len(r.out[n].data) = r.out[n].size \/ (r.end = "short" /\ n = Len(r.out))
    <3>1. Fits(r.out[n]) /\ (n = Len(r.out) \/ Filled(r.out[n]))
      BY <2>4, <2>7 DEF Ordering
    <3>2. Short(r) => r.end = "short"
      BY <2>3, <2>4 DEF Ordering
    <3>3. CASE n = Len(r.out) /\ ~Filled(r.out[n])
      <4>1. r.out[n] \in Entries
        BY <2>4, <2>7 DEF Listing
      <4>2. Len(r.out[n].data) \in Nat /\ r.out[n].size \in Nat
        BY <4>1 DEF Entries
      <4>3. Len(r.out[n].data) < r.out[n].size
        BY <3>1, <3>3, <4>2 DEF Fits, Filled
      <4>4. Last(r.out) = r.out[n] /\ r.out # <<>>
        BY <2>7, <3>3 DEF Last
      <4> QED
        BY <2>7, <3>2, <3>3, <4>3, <4>4 DEF Short
    <3> QED
      BY <3>1, <3>3 DEF Filled
  <2>8. ~r.meta => \A e \in ToSet(r.out) : e.file \notin Metas
    BY <2>4 DEF Listing, Proper
  <2> QED
    BY <2>6, <2>7, <2>8 DEF Held, r
<1> QED
  BY <1>1, <1>2, InitFetched, NextFetched, NextGathered, PTL DEF Spec

=============================================================================
