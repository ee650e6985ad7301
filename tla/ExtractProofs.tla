--------------------------- MODULE ExtractProofs ----------------------------
(***************************************************************************)
(* Proofs about vmuzip, for every archive, every command line and any      *)
(* number of faults: the goroutines that hold a file open are never more   *)
(* than asked for, when the command ends every packet it took is whole in  *)
(* its file, and it took the packets that were asked for, in their order.  *)
(***************************************************************************)
EXTENDS Extract, Lemmas, FiniteSetTheorems, TLAPS

-----------------------------------------------------------------------------
(* The invariant of the reader, of main and of the semaphore. *)

Steps == {"none", "mkdir", "export", "raw", "exportraw", "end"}
Busy  == {"mkdir", "export", "raw", "exportraw"}

Typed ==
    /\ flags \in FlagSets
    /\ pos \in 0 .. Len(Packets)
    /\ taken \in Seq(Packet)
    /\ work \in [Packet -> Steps]

\* The packets read before number n.
Before(n) == {Packets[i] : i \in 1 .. n - 1}

\* What was taken was read, and what is offered is the packet read last.
Taken ==
    /\ offered = <<>> \/ (pos \in 1 .. Len(Packets) /\ offered = <<Packets[pos]>>)
    /\ ToSet(taken) \subseteq Before(IF offered = <<>> THEN pos + 1 ELSE pos)

\* A goroutine belongs to a packet that was taken, main is about to start the one
\* of the last packet, and each holds an element of the semaphore.
Started ==
    /\ \A p \in Packet : work[p] # "none" => p \in ToSet(taken)
    /\ mpc = "acquire" => taken # <<>> /\ work[Last(taken)] = "none"
    /\ sema = Cardinality(Active)
    /\ sema <= Capacity

Bounded == Typed /\ Taken /\ Started

-----------------------------------------------------------------------------
\* The packets of the archive: finitely many, each once.
LEMMA PacketsFinite ==
    /\ Len(Packets) \in Nat /\ DOMAIN Packets = 1 .. Len(Packets)
    /\ \A i \in 1 .. Len(Packets) : Packets[i] \in Packet
    /\ \A i, j \in 1 .. Len(Packets) : Packets[i] = Packets[j] => i = j
    /\ IsFiniteSet(Packet)
<1>0. Packets \in Seq(Packet) /\ IsInjective(Packets)
  BY ExtractAssumption, Zenon DEF Packet
<1>1. Len(Packets) \in Nat /\ DOMAIN Packets = 1 .. Len(Packets)
  BY <1>0
<1>2. \A i \in 1 .. Len(Packets) : Packets[i] \in Packet
  BY <1>0
<1>3. \A i, j \in 1 .. Len(Packets) : Packets[i] = Packets[j] => i = j
  BY <1>0, <1>1 DEF IsInjective
<1>4. IsFiniteSet(1 .. Len(Packets))
  BY <1>1, FS_Interval
<1>5. Packets \in Surjection(1 .. Len(Packets), Packet)
  BY <1>0, <1>1 DEF Packet, ToSet, Surjection
<1> QED
  BY <1>1, <1>2, <1>3, <1>4, <1>5, FS_Surjection

\* The capacity of the semaphore, also for a negative number on the command line.
LEMMA Room ==
    ASSUME Typed PROVE Capacity \in Nat
<1>1. flags.parallel \in Int
  BY ExtractAssumption DEF Typed
<1>2. \E x \in {flags.parallel, 0} : \A y \in {flags.parallel, 0} : x >= y
  BY <1>1
<1>3. Max({flags.parallel, 0}) \in {flags.parallel, 0}
      /\ \A y \in {flags.parallel, 0} : Max({flags.parallel, 0}) >= y
  BY <1>2 DEF Max
<1> QED
  BY <1>1, <1>3 DEF Capacity

\* At first no goroutine runs.
LEMMA InitBounded == Init => Bounded
<1> SUFFICES ASSUME Init PROVE Bounded
  OBVIOUS
<1>1. Typed
  BY PacketsFinite DEF Init, Typed, Steps
<1>2. ToSet(taken) = {}
  BY DEF Init, ToSet
<1>3. Active = {}
  BY DEF Init, Active
<1>4. Taken
  BY <1>2 DEF Init, Taken
<1>5. Started
  BY <1>1, <1>3, Room, FS_EmptySet DEF Init, Started
<1> QED
  BY <1>1, <1>4, <1>5 DEF Bounded

\* A step of the goroutine of a packet: it goes on, or it leaves the semaphore.
GoesOn(p, v) == work' = [work EXCEPT ![p] = v] /\ sema' = sema

\* A step of a worker goes on with its packet, or ends and leaves the semaphore.
LEMMA WorkerSteps ==
    ASSUME NEW p \in Packet, Worker(p), Typed
    PROVE  /\ ~Over /\ work[p] \in Busy
           /\ UNCHANGED <<flags, pos, offered, mpc, taken>>
           /\ (\E v \in Busy : GoesOn(p, v)) \/ Leave(p)
<1>1. CASE CreateFile(p)
  <2>1. work' = [work EXCEPT ![p] = IF work[p] = "mkdir" THEN "export" ELSE "exportraw"]
        /\ sema' = sema
    BY <1>1 DEF CreateFile
  <2>2. (IF work[p] = "mkdir" THEN "export" ELSE "exportraw") \in Busy
    BY DEF Busy
  <2>3. \E v \in Busy : GoesOn(p, v)
    BY <2>1, <2>2 DEF GoesOn
  <2> QED
    BY <1>1, <2>3 DEF CreateFile, Busy
<1>2. CASE CreateFails(p)
  BY <1>2 DEF CreateFails, Busy
<1>3. CASE Export(p) \/ ExportFails(p)
  <2>1. /\ ~Over /\ work[p] \in Busy /\ AfterFile(p)
        /\ UNCHANGED <<flags, pos, offered, mpc, taken>>
    BY <1>3 DEF Export, ExportFails, Busy
  <2>2. CASE flags.raw /\ work[p] = "export"
    <3>1. work' = [work EXCEPT ![p] = "raw"] /\ sema' = sema
      BY <2>1, <2>2 DEF AfterFile
    <3>2. GoesOn(p, "raw") /\ "raw" \in Busy
      BY <3>1 DEF GoesOn, Busy
    <3> QED
      BY <2>1, <3>2
  <2>3. CASE ~(flags.raw /\ work[p] = "export")
    BY <2>1, <2>3 DEF AfterFile
  <2> QED
    BY <2>2, <2>3
<1> QED
  BY <1>1, <1>2, <1>3 DEF Worker

\* There are finitely many goroutines.
LEMMA ActiveFinite ==
    IsFiniteSet(Active) /\ Cardinality(Active) \in Nat
<1>1. Active \subseteq Packet
  BY DEF Active
<1> QED
  BY <1>1, PacketsFinite, FS_Subset, FS_CardinalityType

\* Every step keeps the number of goroutines and the semaphore equal.
LEMMA NextBounded == Bounded /\ [Next]_vars => Bounded'
<1> SUFFICES ASSUME Bounded, [Next]_vars PROVE Bounded'
  OBVIOUS
<1>t. Typed /\ Taken /\ Started
  BY DEF Bounded
<1>n. Capacity \in Nat /\ sema \in Nat /\ Len(Packets) \in Nat /\ pos \in Nat /\ pos <= Len(Packets)
  BY <1>t, Room, ActiveFinite, PacketsFinite DEF Typed, Started
\* The steps that start and end no goroutine.
<1>q. ASSUME UNCHANGED <<flags, work, sema>>, Typed', Taken',
             \A p \in ToSet(taken) : p \in ToSet(taken'),
             mpc' = "acquire" => taken' # <<>> /\ work[Last(taken')] = "none"
      PROVE  Bounded'
  <2>1. Active' = Active /\ Capacity' = Capacity
    BY <1>q DEF Active, Capacity
  <2>2. Started'
    BY <1>q, <1>t, <2>1 DEF Started
  <2> QED
    BY <1>q, <2>2 DEF Bounded
<1>1. CASE Read
  <2>1. offered = <<>> /\ pos < Len(Packets) /\ pos' = pos + 1
        /\ UNCHANGED <<flags, mpc, taken, sema, work>>
        /\ (offered' = <<>> \/ offered' = <<Packets[pos']>>)
    BY <1>1 DEF Read
  <2>2. Typed' /\ pos' \in 1 .. Len(Packets)
    BY <2>1, <1>t, <1>n DEF Typed
  <2>3. ToSet(taken) \subseteq Before(pos + 1)
    BY <2>1, <1>t DEF Taken
  <2>4. Before(pos + 1) \subseteq Before(pos' + 1) /\ Before(pos') = Before(pos + 1)
    BY <2>1, <1>n DEF Before
  <2>5. Taken'
    BY <2>1, <2>2, <2>3, <2>4 DEF Taken, Before
  <2>6. mpc = "acquire" => taken # <<>> /\ work[Last(taken)] = "none"
    BY <1>t DEF Started
  <2> QED
    BY <2>1, <2>2, <2>5, <2>6, <1>q
<1>2. CASE ReadFails \/ RecvClosed \/ AllAsleep \/ Return \/ Ended \/ UNCHANGED vars
  <2>1. UNCHANGED <<flags, pos, offered, taken, sema, work>>
        /\ (mpc' = mpc \/ mpc' # "acquire")
    BY <1>2 DEF ReadFails, RecvClosed, AllAsleep, Return, Ended, vars
  <2>2. Typed' /\ Taken'
    BY <2>1, <1>t DEF Typed, Taken, Before
  <2>3. mpc' = "acquire" => taken # <<>> /\ work[Last(taken)] = "none"
    BY <2>1, <1>t DEF Started
  <2> QED
    BY <2>1, <2>2, <2>3, <1>q
\* main takes the packet that is offered.
<1>3. ASSUME offered # <<>>, taken' = Append(taken, offered[1]), offered' = <<>>,
             UNCHANGED <<flags, pos, work>>
      PROVE  /\ Typed' /\ Taken' /\ \A p \in ToSet(taken) : p \in ToSet(taken')
             /\ taken' # <<>> /\ work[Last(taken')] = "none"
  <2> DEFINE p == offered[1]
  <2>1. pos \in 1 .. Len(Packets) /\ p = Packets[pos] /\ p \in Packet
    BY <1>3, <1>t, PacketsFinite DEF Taken
  <2>2. ToSet(taken) \subseteq Before(pos)
    BY <1>3, <1>t DEF Taken
  <2>3. p \notin ToSet(taken)
    <3>1. p \notin Before(pos)
      BY <2>1, <1>n, PacketsFinite DEF Before
    <3> QED
      BY <2>2, <3>1
  <2>4. work[p] = "none"
    BY <2>1, <2>3, <1>t DEF Started, Typed
  <2> HIDE DEF p
  <2>5. /\ taken' \in Seq(Packet) /\ taken' # <<>> /\ Last(taken') = p
        /\ ToSet(taken') = ToSet(taken) \cup {p}
    <3>0. taken \in Seq(Packet) /\ taken' = Append(taken, p)
      BY <1>3, <1>t DEF Typed, p
    <3>1. /\ taken' \in Seq(Packet) /\ Len(taken') = Len(taken) + 1
          /\ taken'[Len(taken) + 1] = p /\ \A i \in 1 .. Len(taken) : taken'[i] = taken[i]
          /\ DOMAIN taken' = 1 .. Len(taken) + 1 /\ DOMAIN taken = 1 .. Len(taken)
          /\ Len(taken) \in Nat
      BY <3>0, <2>1
    <3>2. taken' # <<>> /\ Last(taken') = p
      BY <3>1 DEF Last
    <3>3. ToSet(taken') = ToSet(taken) \cup {p}
      BY ONLY <3>1 DEF ToSet
    <3> QED
      BY <3>1, <3>2, <3>3
  <2>6. Typed'
    BY <2>5, <1>3, <1>t DEF Typed
  <2>7. ToSet(taken') \subseteq Before(pos + 1)
    <3>1. Before(pos) \subseteq Before(pos + 1) /\ p \in Before(pos + 1)
      BY <2>1, <1>n DEF Before
    <3> QED
      BY <3>1, <2>2, <2>5
  <2>8. Taken'
    BY <2>7, <1>3 DEF Taken, Before
  <2> QED
    BY <2>4, <2>5, <2>6, <2>8
\* main leaves the packet that is offered.
<1>4. ASSUME offered # <<>>, offered' = <<>>, UNCHANGED <<flags, pos, work, taken>>
      PROVE  Typed' /\ Taken'
  <2>1. ToSet(taken) \subseteq Before(pos) /\ Before(pos) \subseteq Before(pos + 1)
    BY <1>4, <1>t, <1>n DEF Taken, Before
  <2> QED
    BY <2>1, <1>4, <1>t DEF Typed, Taken, Before
<1>5. CASE CountPacket
  <2>1. mpc' = "recv" /\ offered # <<>> /\ offered' = <<>> /\ UNCHANGED <<flags, pos, work, sema>>
        /\ (taken' = taken \/ taken' = Append(taken, offered[1]))
    BY <1>5 DEF CountPacket
  <2> QED
    BY <2>1, <1>3, <1>4, <1>q
<1>6. CASE Recv
  <2>1. offered # <<>> /\ offered' = <<>> /\ UNCHANGED <<flags, pos, work, sema>>
        /\ \/ mpc' = "wait" /\ taken' = taken
           \/ mpc' = "acquire" /\ taken' = Append(taken, offered[1])
    BY <1>6 DEF Recv
  <2> QED
    BY <2>1, <1>3, <1>4, <1>q
<1>7. CASE Acquire
  <2> DEFINE p == Last(taken)
  <2>1. mpc = "acquire" /\ sema < Capacity /\ sema' = sema + 1 /\ mpc' = "recv"
        /\ work' = [work EXCEPT ![p] = "mkdir"] /\ UNCHANGED <<flags, pos, offered, taken>>
    BY <1>7 DEF Acquire, FreeSlot
  <2>2. taken # <<>> /\ work[p] = "none"
    BY <2>1, <1>t DEF Started
  <2>3. p \in Packet /\ p \in ToSet(taken)
    BY <2>2, <1>t DEF Typed, Last, ToSet
  <2> HIDE DEF p
  <2>4. Typed' /\ Taken'
    BY <2>1, <2>3, <1>t DEF Typed, Taken, Before, Steps
  <2>5. Active' = Active \cup {p} /\ p \notin Active
    BY <2>1, <2>2, <2>3, <1>t DEF Active, Typed
  <2>6. Cardinality(Active') = sema'
    BY <2>1, <2>5, <1>t, ActiveFinite, FS_AddElement DEF Started
  <2>7. Capacity' = Capacity
    BY <2>1 DEF Capacity
  <2>8. \A q \in Packet : work'[q] # "none" => q \in ToSet(taken')
    BY <2>1, <2>3, <1>t DEF Started, Typed
  <2>9. sema' <= Capacity'
    BY ONLY <2>1, <2>7, <1>n
  <2>10. Started'
    BY <2>1, <2>6, <2>8, <2>9 DEF Started
  <2> QED
    BY <2>4, <2>10 DEF Bounded
<1>8. ASSUME NEW p \in Packet, Worker(p) PROVE Bounded'
  <2>1. /\ ~Over /\ work[p] \in Busy
        /\ UNCHANGED <<flags, pos, offered, mpc, taken>>
        /\ (\E v \in Busy : GoesOn(p, v)) \/ Leave(p)
    BY <1>8, <1>t, WorkerSteps
  <2>2. Capacity' = Capacity
    BY <2>1 DEF Capacity
  <2>3. ASSUME NEW v \in Busy \cup {"end"}, work' = [work EXCEPT ![p] = v]
        PROVE  /\ Typed' /\ Taken'
               /\ \A q \in Packet : work'[q] # "none" => q \in ToSet(taken')
               /\ mpc' = "acquire" => taken' # <<>> /\ work'[Last(taken')] = "none"
    <3>1. Typed' /\ Taken'
      BY <2>1, <2>3, <1>t DEF Typed, Taken, Before, Busy, Steps
    <3>2. work[p] # "none"
      BY <2>1 DEF Busy
    <3>3. p \in ToSet(taken)
      BY <3>2, <1>t DEF Started
    <3>4. \A q \in Packet : work'[q] # "none" => q \in ToSet(taken')
      BY <2>1, <2>3, <3>3, <1>t DEF Started, Typed
    <3>5. mpc = "acquire" => taken # <<>> /\ work[Last(taken)] = "none"
      BY <1>t DEF Started
    <3>6. taken # <<>> => Last(taken) \in Packet
      BY <1>t DEF Typed, Last
    <3>7. mpc' = "acquire" => taken' # <<>> /\ work'[Last(taken')] = "none"
      BY <2>1, <2>3, <3>2, <3>5, <3>6, <1>t DEF Typed
    <3> QED
      BY <3>1, <3>4, <3>7
  <2>4. CASE \E v \in Busy : GoesOn(p, v)
    <3>1. PICK v \in Busy : work' = [work EXCEPT ![p] = v] /\ sema' = sema
      BY <2>4 DEF GoesOn
    <3>2. Active' = Active
      BY <2>1, <3>1, <1>t DEF Active, Typed, Busy
    <3> QED
      BY <2>2, <2>3, <3>1, <3>2, <1>t DEF Bounded, Started
  <2>5. CASE Leave(p)
    <3>1. work' = [work EXCEPT ![p] = "end"] /\ sema' = sema - 1
      BY <2>5 DEF Leave
    <3>2. Active' = Active \ {p} /\ p \in Active
      BY <2>1, <3>1, <1>t DEF Active, Typed, Busy
    <3>3. Cardinality(Active') = sema' /\ sema' <= Capacity'
      <4>1. Cardinality(Active \ {p}) = Cardinality(Active) - 1
        BY <3>2, ActiveFinite, FS_RemoveElement
      <4>2. sema = Cardinality(Active) /\ sema <= Capacity
        BY <1>t DEF Started
      <4>3. Cardinality(Active') = Cardinality(Active \ {p})
        BY <3>2
      <4> QED
        BY ONLY <4>1, <4>2, <4>3, <3>1, <2>2, <1>n
    <3>4. Started'
      BY <2>3, <3>1, <3>3 DEF Started
    <3> QED
      BY <2>3, <3>1, <3>4 DEF Bounded
  <2> QED
    BY <2>1, <2>4, <2>5
<1> QED
  BY <1>1, <1>2, <1>5, <1>6, <1>7, <1>8 DEF Next, Reader, Main

-----------------------------------------------------------------------------
\* The goroutines of vmuzip that hold a file are at most as many as asked for,
\* with errors of the system calls and of the exports on every path: each
\* return of the goroutine leaves the semaphore once.
THEOREM WorkersLimited == Spec => []WorkersBounded
<1>1. Init => Bounded
  BY InitBounded
<1>2. Bounded /\ [Next]_vars => Bounded'
  BY NextBounded
<1>3. Bounded => WorkersBounded
  BY DEF Bounded, Started, WorkersBounded
<1> QED
  BY <1>1, <1>2, <1>3, PTL DEF Spec

-----------------------------------------------------------------------------
(* The files. *)

Writing(p) == work[p] \in {"export", "exportraw"}

\* A file that is written exists, unless it was removed, and an empty file is
\* being written.
Opened ==
    /\ \A p \in Packet : Writing(p) /\ p \notin unlinked => Path(p) \in DOMAIN disk
    /\ \A f \in DOMAIN disk : disk[f] = {} =>
          \E p \in Packet : Writing(p) /\ p \notin unlinked /\ Path(p) = f
    /\ \A p \in Packet : work[p] = "none" => p \notin unlinked

\* vmuzip starts a goroutine for every packet it takes, and ends after them.
Worked ==
    /\ flags.app = "zip" /\ mpc \in {"recv", "acquire", "wait", "done"} =>
          \A p \in ToSet(taken) :
              work[p] = "none" => mpc = "acquire" /\ p = Last(taken)
    /\ mpc = "done" => WorkersDone
    /\ \A p \in Packet : work[p] \in {"raw", "exportraw"} => flags.raw

Has(f, S) == f \in DOMAIN disk /\ disk[f] = S

\* What the files of a packet hold at each step of its goroutine, when no other
\* packet of its name is exported beside it or later.
FilesOf(p) ==
    /\ p \notin unlinked
    /\ work[p] = "export" => Has(PathOf(p, ""), {})
    /\ work[p] \in {"raw", "exportraw", "end"} => Has(PathOf(p, ""), {p})
    /\ work[p] = "exportraw" => Has(PathOf(p, ".raw"), {})
    /\ work[p] = "end" /\ flags.raw => Has(PathOf(p, ".raw"), {p})

Whole ==
    \A p \in Packet : work[p] # "none" /\ p \notin failed /\ rivals[p] = {} => FilesOf(p)

Exported == Opened /\ Worked /\ Whole

\* A goroutine that runs is a rival of every packet of its name that was started.
Beside ==
    \A p, q \in Packet :
        work[q] # "none" /\ p \in Active /\ p \in Namesakes(q) => p \in rivals[q]

\* The packets in a file are rivals of each other and of those that write to it.
Mixed ==
    \A f \in DOMAIN disk : \A q \in disk[f] :
        /\ q \in Packet /\ work[q] # "none" /\ \E t \in {"", ".raw"} : f = PathOf(q, t)
        /\ \A p \in Packet \ {q} :
              Writing(p) /\ p \notin unlinked /\ Path(p) = f => q \in rivals[p]
        /\ \A p \in disk[f] : p = q \/ p \in rivals[q]

\* No export to the file of p failed.
Safe(p) == failed \cap ({p} \cup Namesakes(p)) = {}

\* Such a file exists once it was created.
Exists ==
    \A p \in Packet : Safe(p) =>
        /\ work[p] \in {"export", "raw", "exportraw", "end"} => PathOf(p, "") \in DOMAIN disk
        /\ work[p] = "exportraw" \/ (work[p] = "end" /\ flags.raw) =>
              PathOf(p, ".raw") \in DOMAIN disk

Shared == Beside /\ Mixed /\ Exists

-----------------------------------------------------------------------------
\* At first no file was exported.
LEMMA InitExported == Init => Exported
<1> SUFFICES ASSUME Init PROVE Exported
  OBVIOUS
<1>1. DOMAIN disk = {} /\ ToSet(taken) = {}
  BY DEF Init, ToSet
<1>2. \A p \in Packet : work[p] = "none"
  BY DEF Init
<1>3. Opened
  BY <1>1, <1>2 DEF Init, Opened, Writing
<1>4. Worked
  BY <1>1, <1>2 DEF Init, Worked
<1>5. Whole
  BY <1>2 DEF Whole
<1> QED
  BY <1>3, <1>4, <1>5 DEF Exported

\* The steps of the reader and of main leave the files.
LEMMA MainExported ==
    ASSUME Bounded, Exported, UNCHANGED <<flags, unlinked, disk, failed>>,
           \A p \in Packet : work[p] # "none" => rivals[p] \subseteq rivals'[p],
           \A p \in Packet : work'[p] = work[p] \/ (work[p] = "none" /\ work'[p] = "mkdir"),
           Worked'
    PROVE  Exported'
<1>1. ASSUME NEW p \in Packet
      PROVE  (Writing(p)' <=> Writing(p)) /\ (Writing(p) => Path(p)' = Path(p))
  <2>1. Writing(p)' <=> Writing(p)
    BY DEF Writing
  <2>2. ASSUME Writing(p) PROVE Path(p)' = Path(p)
    <3>1. work'[p] = work[p]
      BY <2>2 DEF Writing
    <3> QED
      BY <3>1 DEF Path, PathOf, Suffix
  <2> QED
    BY <2>1, <2>2
<1>2. Opened'
  BY <1>1 DEF Exported, Opened
<1>3. ASSUME NEW p \in Packet, work'[p] # "none", p \notin failed', rivals'[p] = {}
      PROVE  FilesOf(p)'
  <2>1. \A q, t : PathOf(q, t)' = PathOf(q, t)
    BY DEF PathOf
  <2>3. CASE work'[p] = work[p]
    <3>1. FilesOf(p)
      BY <2>3, <1>3 DEF Exported, Whole
    <3> QED
      BY <3>1, <2>1, <2>3 DEF FilesOf, Has
  <2>4. CASE work[p] = "none" /\ work'[p] = "mkdir"
    BY <2>4 DEF FilesOf, Exported, Opened
  <2> QED
    BY <2>3, <2>4
<1>4. Whole'
  BY <1>3 DEF Whole
<1> QED
  BY <1>2, <1>4 DEF Exported

\* A step of the goroutine of a packet and the files of another one.
LEMMA OtherFiles ==
    ASSUME Beside, NEW p \in Packet, NEW q \in Packet, p # q,
           p \in Active, work[q] # "none", rivals[q] = {}, FilesOf(q),
           UNCHANGED flags, work'[q] = work[q],
           q \in unlinked' => q \in unlinked \/ Path(q) = Path(p),
           q \in unlinked' => q \in unlinked \/ Writing(q),
           \A f : f # Path(p) => /\ f \in DOMAIN disk' <=> f \in DOMAIN disk
                                 /\ f \in DOMAIN disk => disk'[f] = disk[f]
    PROVE  FilesOf(q)'
<1>2. PathOf(p, "") # PathOf(q, "")
  BY DEF Beside, Namesakes
<1>3. ASSUME NEW t PROVE PathOf(q, t) # Path(p)
  <2> SUFFICES ASSUME PathOf(q, t) = PathOf(p, Suffix(p)) PROVE FALSE
    BY DEF Path
  <2> QED
    BY <1>2 DEF PathOf
<1>4. \A t : PathOf(q, t)' = PathOf(q, t)
  BY DEF PathOf
<1>5. q \notin unlinked'
  BY <1>3 DEF FilesOf, Path
<1>6. ASSUME NEW t, NEW S, Has(PathOf(q, t), S) PROVE Has(PathOf(q, t), S)'
  <2> DEFINE f == PathOf(q, t)
  <2>1. f # Path(p) /\ f \in DOMAIN disk /\ disk[f] = S /\ PathOf(q, t)' = f
    BY <1>3, <1>4, <1>6 DEF Has
  <2> HIDE DEF f
  <2>2. f \in DOMAIN disk' /\ disk'[f] = S
    BY <2>1
  <2> QED
    BY <2>1, <2>2 DEF Has
<1> QED
  BY <1>5, <1>6 DEF FilesOf

\* A step of a worker keeps what is known of the exported files.
LEMMA WorkerExported ==
    ASSUME Bounded, Exported, Beside, NEW p \in Packet, Worker(p)
    PROVE  Exported'
<1> DEFINE f == Path(p)
<1>t. work \in [Packet -> Steps] /\ ToSet(taken) \subseteq Packet
  BY DEF Bounded, Typed, ToSet
<1>w. /\ ~Over /\ work[p] \in Busy /\ UNCHANGED <<flags, pos, offered, mpc, taken>>
      /\ (\E v \in Busy : GoesOn(p, v)) \/ Leave(p)
  BY WorkerSteps DEF Bounded
<1>o. /\ \A q \in Packet : q # p => work'[q] = work[q] /\ (Writing(q)' <=> Writing(q)) /\ Path(q)' = Path(q)
      /\ work'[p] # "none" /\ work[p] # "none" /\ work[p] # "end"
  <2>1. \A q \in Packet : q # p => work'[q] = work[q]
    BY <1>w, <1>t DEF GoesOn, Leave
  <2>2. work'[p] # "none" /\ work[p] # "none" /\ work[p] # "end"
    BY <1>w, <1>t DEF GoesOn, Leave, Busy
  <2> QED
    BY <2>1, <2>2, <1>w DEF Writing, Path, PathOf, Suffix
<1>p. \A q, t : PathOf(q, t)' = PathOf(q, t)
  BY <1>w DEF PathOf
<1>s. rivals' = rivals /\ p \in Active
  BY <1>o DEF Active, Worker, CreateFile, CreateFails, Export, ExportFails
\* It is enough to look at the files of p and at the empty ones.
<1>q. ASSUME \A g \in Packet : g \in unlinked' => g \in unlinked \/ (g # p /\ Path(g) = f /\ Writing(g)),
             \A g : g # f => /\ g \in DOMAIN disk' <=> g \in DOMAIN disk
                             /\ g \in DOMAIN disk => disk'[g] = disk[g],
             failed \subseteq failed',
             f \in DOMAIN disk' \/ \A q \in Packet : q # p /\ Writing(q) /\ Path(q) = f => q \in unlinked',
             \A q \in Packet : q # p /\ q \in unlinked => q \in unlinked',
             f \in DOMAIN disk' /\ disk'[f] = {} =>
                 \E q \in Packet : Writing(q)' /\ q \notin unlinked' /\ Path(q)' = f,
             Writing(p)' /\ p \notin unlinked' => Path(p)' \in DOMAIN disk',
             work'[p] \in {"raw", "exportraw"} => flags.raw,
             rivals[p] = {} /\ p \notin failed' => FilesOf(p)'
      PROVE  Exported'
  <2>1. Whole'
    <3> SUFFICES ASSUME NEW q \in Packet, work'[q] # "none", q \notin failed', rivals'[q] = {}
                 PROVE  FilesOf(q)'
      BY DEF Whole
    <3>1. CASE q = p
      BY <3>1, <1>q, <1>s
    <3>2. CASE q # p
      <4>1. work'[q] = work[q] /\ q \notin failed /\ rivals[q] = {}
        BY <3>2, <1>o, <1>q, <1>s
      <4>2. FilesOf(q)
        BY <3>2, <4>1 DEF Exported, Whole
      <4>3. UNCHANGED flags
        BY <1>w
      <4> QED
        BY <3>2, <4>1, <4>2, <4>3, <1>o, <1>q, <1>s, OtherFiles
    <3> QED
      BY <3>1, <3>2
  <2>2. Worked'
    <3>1. \A q \in Packet : work'[q] = "none" => work[q] = "none"
      BY <1>o
    <3>2. mpc # "done"
      BY <1>w DEF Over
    <3>3. \A q \in Packet : work'[q] \in {"raw", "exportraw"} => flags'.raw
      BY <1>o, <1>q, <1>w DEF Exported, Worked
    <3> QED
      BY <3>1, <3>2, <3>3, <1>w, <1>t DEF Exported, Worked
  <2>3. Opened'
    <3>1. ASSUME NEW q \in Packet, Writing(q)', q \notin unlinked' PROVE Path(q)' \in DOMAIN disk'
      <4>1. CASE q = p
        BY <4>1, <3>1, <1>q
      <4>2. CASE q # p
        <5>1. Writing(q) /\ Path(q)' = Path(q) /\ q \notin unlinked
          BY <4>2, <3>1, <1>o, <1>q
        <5>2. Path(q) \in DOMAIN disk
          BY <5>1 DEF Exported, Opened
        <5> QED
          BY <4>2, <3>1, <5>1, <5>2, <1>q
      <4> QED
        BY <4>1, <4>2
    <3>2. ASSUME NEW g \in DOMAIN disk', disk'[g] = {}
          PROVE  \E q \in Packet : Writing(q)' /\ q \notin unlinked' /\ Path(q)' = g
      <4>1. CASE g = f
        BY <4>1, <3>2, <1>q
      <4>2. CASE g # f
        <5>1. g \in DOMAIN disk /\ disk[g] = {}
          BY <4>2, <3>2, <1>q
        <5>2. PICK q \in Packet : Writing(q) /\ q \notin unlinked /\ Path(q) = g
          BY <5>1 DEF Exported, Opened
        <5>3. q # p
          BY <4>2, <5>2
        <5>4. Writing(q)' /\ q \notin unlinked' /\ Path(q)' = g
          BY <4>2, <5>2, <5>3, <1>o, <1>q
        <5> QED
          BY <5>4
      <4> QED
        BY <4>1, <4>2
    <3>3. ASSUME NEW q \in Packet, work'[q] = "none" PROVE q \notin unlinked'
      BY <3>3, <1>o, <1>q DEF Exported, Opened, Writing
    <3> QED
      BY <3>1, <3>2, <3>3 DEF Opened
  <2> QED
    BY <2>1, <2>2, <2>3 DEF Exported
<1>f. rivals[p] = {} /\ p \notin failed => FilesOf(p)
  BY <1>o DEF Exported, Whole
<1>d. PathOf(p, "") # PathOf(p, ".raw")
  BY DEF PathOf
<1>1. CASE CreateFile(p)
  <2>1. /\ work[p] \in {"mkdir", "raw"} /\ unlinked' = unlinked \ {p} /\ failed' = failed
        /\ disk' = [g \in DOMAIN disk \cup {f} |-> IF g = f THEN {} ELSE disk[g]]
    BY <1>1 DEF CreateFile
  <2>2. work'[p] = IF work[p] = "mkdir" THEN "export" ELSE "exportraw"
    BY <1>1, <1>t DEF CreateFile
  <2>3. Writing(p)' /\ ~Writing(p)
    BY <2>1, <2>2 DEF Writing
  <2>4. Path(p)' = f
    BY <2>1, <2>2, <1>w DEF Path, PathOf, Suffix
  <2> HIDE DEF f
  <2>5. f \in DOMAIN disk' /\ disk'[f] = {}
    BY <2>1
  <2>6. \A g : g # f => /\ g \in DOMAIN disk' <=> g \in DOMAIN disk
                        /\ g \in DOMAIN disk => disk'[g] = disk[g]
    BY <2>1
  <2>7. work'[p] \in {"raw", "exportraw"} => flags.raw
    BY <2>1, <2>2 DEF Exported, Worked
  <2>8. ASSUME rivals[p] = {}, p \notin failed' PROVE FilesOf(p)'
    <3>1. FilesOf(p)
      BY <2>8, <2>1, <1>f
    <3>2. CASE work[p] = "mkdir"
      <4>1. f = PathOf(p, "") /\ work'[p] = "export"
        BY <3>2, <2>2 DEF f, Path, Suffix
      <4> QED
        BY <4>1, <2>1, <2>5, <1>p DEF FilesOf, Has
    <3>3. CASE work[p] = "raw"
      <4>1. f = PathOf(p, ".raw") /\ work'[p] = "exportraw"
        BY <3>3, <2>2 DEF f, Path, Suffix
      <4>2. Has(PathOf(p, ""), {p})
        BY <3>1, <3>3 DEF FilesOf
      <4>3. Has(PathOf(p, ""), {p})'
        <5> DEFINE g == PathOf(p, "")
        <5>1. g # f /\ g \in DOMAIN disk /\ disk[g] = {p}
          BY <4>1, <4>2, <1>d DEF Has
        <5>2. PathOf(p, "")' = g
          BY <1>p
        <5> HIDE DEF g
        <5>3. g \in DOMAIN disk' /\ disk'[g] = {p}
          BY <5>1, <2>6
        <5> QED
          BY <5>2, <5>3 DEF Has
      <4> QED
        BY <4>1, <4>3, <2>1, <2>5, <1>p DEF FilesOf, Has
    <3> QED
      BY <2>1, <3>2, <3>3
  <2> QED
    BY <2>1, <2>3, <2>4, <2>5, <2>6, <2>7, <2>8, <1>q
<1>2. CASE CreateFails(p)
  <2>1. /\ work[p] \in {"mkdir", "raw"} /\ UNCHANGED <<unlinked, disk>>
        /\ failed' = failed \cup {p} /\ Leave(p)
    BY <1>2 DEF CreateFails
  <2>2. work'[p] = "end" /\ ~Writing(p)' /\ ~Writing(p)
    BY <2>1, <1>t DEF Leave, Writing
  <2> HIDE DEF f
  <2>3. f \in DOMAIN disk' /\ disk'[f] = {} =>
            \E q \in Packet : Writing(q)' /\ q \notin unlinked' /\ Path(q)' = f
    <3> SUFFICES ASSUME f \in DOMAIN disk, disk[f] = {}
                 PROVE  \E q \in Packet : Writing(q)' /\ q \notin unlinked /\ Path(q)' = f
      BY <2>1
    <3>1. PICK q \in Packet : Writing(q) /\ q \notin unlinked /\ Path(q) = f
      BY DEF Exported, Opened
    <3>2. q # p
      BY <3>1, <2>2
    <3> QED
      BY <3>1, <3>2, <1>o
  <2>4. f \in DOMAIN disk' \/ \A q \in Packet : q # p /\ Writing(q) /\ Path(q) = f => q \in unlinked'
    BY <2>1 DEF Exported, Opened
  <2>5. work'[p] \notin {"raw", "exportraw"}
    BY <2>2
  <2> QED
    BY <2>1, <2>2, <2>3, <2>4, <2>5, <1>q
\* What follows a file that was written or given up.
<1>a. ASSUME AfterFile(p), Writing(p)
      PROVE  /\ ~Writing(p)'
             /\ work'[p] \in {"raw", "exportraw"} => flags.raw
             /\ \/ work'[p] = "raw" /\ work[p] = "export" /\ flags.raw
                \/ work'[p] = "end" /\ (work[p] = "exportraw" \/ ~flags.raw)
  <2>1. CASE flags.raw /\ work[p] = "export"
    <3>1. work'[p] = "raw"
      BY <2>1, <1>a, <1>t DEF AfterFile
    <3>2. ~Writing(p)'
      BY <3>1 DEF Writing
    <3> QED
      BY <2>1, <3>1, <3>2, Zenon
  <2>2. CASE ~(flags.raw /\ work[p] = "export")
    <3>1. work'[p] = "end"
      BY <2>2, <1>a, <1>t DEF AfterFile, Leave
    <3> QED
      BY <2>2, <3>1, <1>a DEF Writing
  <2> QED
    BY <2>1, <2>2
<1>3. CASE Export(p)
  <2>1. /\ Writing(p) /\ UNCHANGED <<unlinked, failed>> /\ AfterFile(p)
        /\ disk' = IF p \in unlinked THEN disk ELSE [disk EXCEPT ![f] = disk[f] \cup {p}]
    BY <1>3 DEF Export, Writing
  <2>2. /\ ~Writing(p)'
        /\ work'[p] \in {"raw", "exportraw"} => flags.raw
        /\ \/ work'[p] = "raw" /\ work[p] = "export" /\ flags.raw
           \/ work'[p] = "end" /\ (work[p] = "exportraw" \/ ~flags.raw)
    BY <2>1, <1>a
  <2>3. p \notin unlinked => f \in DOMAIN disk
    BY <2>1 DEF Exported, Opened
  <2> HIDE DEF f
  <2>4. \A g : g # f => /\ g \in DOMAIN disk' <=> g \in DOMAIN disk
                        /\ g \in DOMAIN disk => disk'[g] = disk[g]
    BY <2>1
  <2>5. p \notin unlinked => f \in DOMAIN disk' /\ disk'[f] = disk[f] \cup {p}
    BY <2>1, <2>3
  <2>6. f \in DOMAIN disk' \/ \A q \in Packet : q # p /\ Writing(q) /\ Path(q) = f => q \in unlinked'
    <3>1. CASE p \in unlinked
      BY <2>1, <3>1 DEF Exported, Opened
    <3>2. CASE p \notin unlinked
      BY <3>2, <2>5
    <3> QED
      BY <3>1, <3>2
  <2>7. ASSUME f \in DOMAIN disk', disk'[f] = {}
        PROVE  \E q \in Packet : Writing(q)' /\ q \notin unlinked' /\ Path(q)' = f
    <3>1. p \in unlinked
      BY <2>5, <2>7
    <3>2. f \in DOMAIN disk /\ disk[f] = {}
      BY <3>1, <2>1, <2>7
    <3>3. PICK q \in Packet : Writing(q) /\ q \notin unlinked /\ Path(q) = f
      BY <3>2 DEF Exported, Opened
    <3>4. q # p
      BY <3>1, <3>3
    <3> QED
      BY <3>3, <3>4, <2>1, <1>o
  <2>8. ASSUME rivals[p] = {}, p \notin failed' PROVE FilesOf(p)'
    <3>1. FilesOf(p) /\ p \notin unlinked /\ p \notin unlinked'
      BY <2>8, <2>1, <1>f DEF FilesOf
    <3>2. CASE work[p] = "export"
      <4>1. f = PathOf(p, "")
        BY <3>2 DEF f, Path, Suffix
      <4>2. disk[f] = {}
        BY <3>1, <3>2, <4>1 DEF FilesOf, Has
      <4>3. Has(PathOf(p, ""), {p})'
        BY <3>1, <4>1, <4>2, <2>5, <1>p DEF Has
      <4>4. work'[p] = "raw" \/ (work'[p] = "end" /\ ~flags'.raw)
        BY <3>2, <2>2, <1>w
      <4> QED
        BY <3>1, <4>3, <4>4 DEF FilesOf
    <3>3. CASE work[p] = "exportraw"
      <4>1. f = PathOf(p, ".raw")
        BY <3>3 DEF f, Path, Suffix
      <4>2. disk[f] = {} /\ Has(PathOf(p, ""), {p})
        BY <3>1, <3>3, <4>1 DEF FilesOf, Has
      <4>3. Has(PathOf(p, ".raw"), {p})'
        BY <3>1, <4>1, <4>2, <2>5, <1>p DEF Has
      <4>4. Has(PathOf(p, ""), {p})'
        <5> DEFINE g == PathOf(p, "")
        <5>1. g # f /\ g \in DOMAIN disk /\ disk[g] = {p}
          BY <4>1, <4>2, <1>d DEF Has
        <5>2. PathOf(p, "")' = g
          BY <1>p
        <5> HIDE DEF g
        <5>3. g \in DOMAIN disk' /\ disk'[g] = {p}
          BY <5>1, <2>4
        <5> QED
          BY <5>2, <5>3 DEF Has
      <4>5. work'[p] = "end"
        BY <3>3, <2>2
      <4> QED
        BY <3>1, <4>3, <4>4, <4>5 DEF FilesOf
    <3> QED
      BY <2>1, <3>2, <3>3 DEF Writing
  <2> QED
    BY <2>1, <2>2, <2>4, <2>6, <2>7, <2>8, <1>q
<1>4. CASE ExportFails(p)
  <2>1. /\ Writing(p) /\ failed' = failed \cup {p} /\ AfterFile(p)
        /\ disk' = [g \in DOMAIN disk \ {f} |-> disk[g]]
        /\ unlinked' = unlinked \cup {q \in Packet \ {p} : Writing(q) /\ Path(q) = f}
    BY <1>4 DEF ExportFails, Writing, Removed
  <2>2. ~Writing(p)' /\ (work'[p] \in {"raw", "exportraw"} => flags.raw)
    BY <2>1, <1>a
  <2> HIDE DEF f
  <2>3. /\ f \notin DOMAIN disk' /\ p \in failed'
        /\ \A g : g # f => /\ g \in DOMAIN disk' <=> g \in DOMAIN disk
                           /\ g \in DOMAIN disk => disk'[g] = disk[g]
    BY <2>1
  <2>4. \A q \in Packet : q # p /\ Writing(q) /\ Path(q) = f => q \in unlinked'
    BY <2>1
  <2>5. \A g \in Packet : g \in unlinked' => g \in unlinked \/ (g # p /\ Path(g) = f /\ Writing(g))
    BY <2>1
  <2> QED
    BY <2>1, <2>2, <2>3, <2>4, <2>5, <1>q
<1> QED
  BY <1>1, <1>2, <1>3, <1>4 DEF Worker

\* Every step keeps what is known of the exported files.
LEMMA NextExported == Bounded /\ Exported /\ Beside /\ [Next]_vars => Exported'
<1> SUFFICES ASSUME Bounded, Exported, Beside, [Next]_vars PROVE Exported'
  OBVIOUS
<1>t. work \in [Packet -> Steps] /\ taken \in Seq(Packet) /\ ToSet(taken) \subseteq Packet
  BY DEF Bounded, Typed, ToSet
<1>1. CASE Read \/ ReadFails \/ AllAsleep \/ RecvClosed \/ Return \/ Ended \/ UNCHANGED vars
  <2>1. UNCHANGED <<flags, taken, work, unlinked, rivals, disk, failed>>
        /\ mpc' \in {mpc, "fatal", "asleep", "wait", "done"}
        /\ (mpc' # mpc => mpc' \in {"fatal", "asleep"} \/ (mpc = "recv" /\ mpc' = "wait")
                           \/ (mpc = "wait" /\ mpc' = "done" /\ WorkersDone))
    BY <1>1 DEF Read, ReadFails, AllAsleep, RecvClosed, Return, Ended, vars
  <2>2. Worked'
    BY <2>1 DEF Exported, Worked, WorkersDone
  <2> QED
    BY <2>1, <2>2, MainExported
\* main takes the packet that is offered.
<1>2. ASSUME offered # <<>>, taken' = Append(taken, offered[1])
      PROVE  Last(taken') = offered[1] /\ ToSet(taken') = ToSet(taken) \cup {offered[1]}
  <2> DEFINE p == offered[1]
  <2>1. p \in Packet
    BY <1>2, PacketsFinite DEF Bounded, Taken
  <2> HIDE DEF p
  <2>2. /\ Len(taken') = Len(taken) + 1 /\ Len(taken) \in Nat
        /\ taken'[Len(taken) + 1] = p /\ \A i \in 1 .. Len(taken) : taken'[i] = taken[i]
        /\ DOMAIN taken' = 1 .. Len(taken) + 1 /\ DOMAIN taken = 1 .. Len(taken)
    BY <2>1, <1>2, <1>t DEF p
  <2>3. Last(taken') = p
    BY <2>2 DEF Last
  <2>4. ToSet(taken') = ToSet(taken) \cup {p}
    BY ONLY <2>2 DEF ToSet
  <2> QED
    BY <2>3, <2>4 DEF p
<1>3. CASE CountPacket
  <2>1. /\ flags.app = "cat" /\ mpc' = mpc /\ mpc = "recv"
        /\ UNCHANGED <<flags, work, unlinked, rivals, disk, failed>>
        /\ taken' = taken \/ (offered # <<>> /\ taken' = Append(taken, offered[1]))
    BY <1>3 DEF CountPacket
  <2>2. Worked'
    BY <2>1 DEF Exported, Worked, WorkersDone
  <2> QED
    BY <2>1, <2>2, MainExported
<1>4. CASE Recv
  <2>1. /\ mpc = "recv" /\ UNCHANGED <<flags, work, unlinked, rivals, disk, failed>>
        /\ \/ mpc' = "wait" /\ taken' = taken
           \/ mpc' = "acquire" /\ offered # <<>> /\ taken' = Append(taken, offered[1])
    BY <1>4 DEF Recv
  <2>2. Worked'
    <3>1. CASE mpc' = "wait" /\ taken' = taken
      BY <2>1, <3>1 DEF Exported, Worked, WorkersDone
    <3>2. CASE mpc' = "acquire" /\ offered # <<>> /\ taken' = Append(taken, offered[1])
      BY <2>1, <3>2, <1>2 DEF Exported, Worked, WorkersDone
    <3> QED
      BY <2>1, <3>1, <3>2
  <2> QED
    BY <2>1, <2>2, MainExported
<1>5. CASE Acquire
  <2>1. /\ mpc = "acquire" /\ mpc' = "recv" /\ UNCHANGED <<flags, taken, unlinked, disk, failed>>
        /\ work' = [work EXCEPT ![Last(taken)] = "mkdir"] /\ rivals' = Rivals(Last(taken))
    BY <1>5 DEF Acquire
  <2>2. taken # <<>> /\ work[Last(taken)] = "none" /\ Last(taken) \in Packet
    BY <2>1, <1>t DEF Bounded, Started, Last
  <2>3. \A p \in Packet : work'[p] = IF p = Last(taken) THEN "mkdir" ELSE work[p]
    BY <2>1, <1>t
  <2>4. Worked'
    BY <2>1, <2>2, <2>3, <1>t DEF Exported, Worked
  <2>5. \A p \in Packet : work[p] # "none" => rivals[p] \subseteq rivals'[p]
    BY <2>1, <2>2 DEF Rivals
  <2> QED
    BY <2>1, <2>2, <2>3, <2>4, <2>5, MainExported
<1>6. ASSUME NEW p \in Packet, Worker(p) PROVE Exported'
  BY <1>6, WorkerExported
<1> QED
  BY <1>1, <1>3, <1>4, <1>5, <1>6 DEF Next, Reader, Main

-----------------------------------------------------------------------------
\* The steps other than the start of a goroutine keep the rivals, and no goroutine
\* comes back.
LEMMA StepRivals ==
    ASSUME Bounded, [Next]_vars, ~Acquire
    PROVE  /\ UNCHANGED <<flags, rivals>>
           /\ \A p \in Packet : /\ work'[p] = "none" <=> work[p] = "none"
                                /\ p \in Active' => p \in Active
<1>1. CASE \E p \in Packet : Worker(p)
  <2>1. PICK p \in Packet : Worker(p)
    BY <1>1
  <2>2. UNCHANGED <<flags, rivals>>
    BY <2>1 DEF Worker, CreateFile, CreateFails, Export, ExportFails
  <2>3. work \in [Packet -> Steps] /\ work[p] \in Busy /\ ((\E v \in Busy : GoesOn(p, v)) \/ Leave(p))
    BY <2>1, WorkerSteps DEF Bounded, Typed
  <2>4. \A q \in Packet : q # p => work'[q] = work[q]
    BY <2>3 DEF GoesOn, Leave
  <2>5. work'[p] \in Busy \cup {"end"}
    BY <2>3 DEF GoesOn, Leave
  <2> QED
    BY <2>2, <2>3, <2>4, <2>5 DEF Busy, Active
<1>2. CASE ~\E p \in Packet : Worker(p)
  <2>1. UNCHANGED <<flags, rivals, work>>
    BY <1>2 DEF Next, Reader, Main, Read, ReadFails, CountPacket, Recv, RecvClosed, AllAsleep, Return,
       Ended, vars
  <2> QED
    BY <2>1 DEF Active
<1> QED
  BY <1>1, <1>2

\* A goroutine that is started beside others is entered as their rival.
LEMMA AcquireRivals ==
    ASSUME Bounded, Acquire
    PROVE  /\ UNCHANGED <<flags, unlinked, disk, failed>> /\ Last(taken) \in Packet
           /\ rivals' = Rivals(Last(taken)) /\ work[Last(taken)] = "none"
           /\ \A q \in Packet : work'[q] = IF q = Last(taken) THEN "mkdir" ELSE work[q]
<1>1. taken # <<>> /\ taken \in Seq(Packet) /\ work \in [Packet -> Steps] /\ work[Last(taken)] = "none"
  BY DEF Acquire, Bounded, Started, Typed
<1>2. Last(taken) \in Packet
  BY <1>1 DEF Last
<1> QED
  BY <1>1, <1>2 DEF Acquire

\* Every step keeps the rivals of the goroutines that run.
LEMMA NextBeside == Bounded /\ Beside /\ [Next]_vars => Beside'
<1> SUFFICES ASSUME Bounded, Beside, [Next]_vars,
                    NEW p \in Packet, NEW q \in Packet,
                    work'[q] # "none", p \in Active', p \in Namesakes(q)'
             PROVE  p \in rivals'[q]
  BY DEF Beside
<1>1. CASE ~Acquire
  <2>a. /\ UNCHANGED <<flags, rivals>>
        /\ \A x \in Packet : (work'[x] = "none" <=> work[x] = "none") /\ (x \in Active' => x \in Active)
    BY <1>1, StepRivals
  <2>1. /\ UNCHANGED <<flags, rivals>> /\ work[q] # "none" /\ p \in Active
    BY <2>a, Zenon
  <2>2. p \in Namesakes(q)
    BY <2>1 DEF Namesakes, PathOf
  <2> QED
    BY <2>1, <2>2 DEF Beside
<1>2. CASE Acquire
  <2> DEFINE l == Last(taken)
  <2>1. /\ flags' = flags /\ l \in Packet /\ rivals' = Rivals(l)
        /\ \A x \in Packet : work'[x] = IF x = l THEN "mkdir" ELSE work[x]
    BY <1>2, AcquireRivals
  <2> HIDE DEF l
  <2>2. p \in Namesakes(q) /\ p # q /\ q \in Namesakes(p)
    BY <2>1 DEF Namesakes, PathOf
  <2>3. CASE q = l
    <3>1. p \in Active
      BY <2>1, <2>2, <2>3 DEF Active
    <3> QED
      BY <2>1, <2>2, <2>3, <3>1 DEF Rivals
  <2>4. CASE q # l /\ p = l
    BY <2>1, <2>2, <2>4 DEF Rivals
  <2>5. CASE q # l /\ p # l
    <3>1. p \in Active /\ work[q] # "none"
      BY <2>1, <2>5 DEF Active
    <3>2. p \in rivals[q]
      BY <2>2, <3>1 DEF Beside
    <3> QED
      BY <2>1, <2>5, <3>2 DEF Rivals
  <2> QED
    BY <2>3, <2>4, <2>5
<1> QED
  BY <1>1, <1>2

\* A step that leaves the files keeps what is known of those that are shared.
LEMMA MainShared ==
    ASSUME Mixed, Exists, UNCHANGED <<flags, unlinked, disk, failed>>,
           \A p \in Packet : work[p] # "none" => rivals[p] \subseteq rivals'[p],
           \A p \in Packet : work'[p] = work[p] \/ (work[p] = "none" /\ work'[p] = "mkdir")
    PROVE  Mixed' /\ Exists'
<1>1. \A q, t : PathOf(q, t)' = PathOf(q, t)
  BY DEF PathOf
<1>2. ASSUME NEW p \in Packet, Writing(p)'
      PROVE  Writing(p) /\ Path(p)' = Path(p) /\ rivals[p] \subseteq rivals'[p]
  <2>1. work'[p] = work[p]
    BY <1>2 DEF Writing
  <2> QED
    BY <1>1, <1>2, <2>1 DEF Writing, Path, Suffix
<1>3. Mixed'
  <2> SUFFICES ASSUME NEW f \in DOMAIN disk', NEW q \in disk'[f]
               PROVE  /\ q \in Packet /\ work'[q] # "none"
                      /\ \E t \in {"", ".raw"} : f = PathOf(q, t)'
                      /\ \A p \in Packet \ {q} :
                            Writing(p)' /\ p \notin unlinked' /\ Path(p)' = f => q \in rivals'[p]
                      /\ \A p \in disk'[f] : p = q \/ p \in rivals'[q]
    BY DEF Mixed
  <2>1. /\ q \in Packet /\ work[q] # "none" /\ \E t \in {"", ".raw"} : f = PathOf(q, t)
        /\ \A p \in Packet \ {q} :
              Writing(p) /\ p \notin unlinked /\ Path(p) = f => q \in rivals[p]
        /\ \A p \in disk[f] : p = q \/ p \in rivals[q]
    BY DEF Mixed
  <2>2. work'[q] # "none" /\ rivals[q] \subseteq rivals'[q]
    BY <2>1
  <2>3. \E t \in {"", ".raw"} : f = PathOf(q, t)'
    BY <1>1, <2>1
  <2>4. \A p \in Packet \ {q} : Writing(p)' /\ p \notin unlinked' /\ Path(p)' = f => q \in rivals'[p]
    BY <1>2, <2>1
  <2> QED
    BY <2>1, <2>2, <2>3, <2>4
<1>4. Exists'
  <2>1. ASSUME NEW p \in Packet PROVE Safe(p)' <=> Safe(p)
    BY <1>1 DEF Safe, Namesakes
  <2> QED
    BY <1>1, <2>1 DEF Exists
<1> QED
  BY <1>3, <1>4

\* A step of a worker: a file that is shared.
LEMMA WorkerShared ==
    ASSUME Bounded, Exported, Beside, Mixed, Exists, NEW p \in Packet, Worker(p)
    PROVE  Mixed' /\ Exists'
<1> DEFINE f == Path(p)
<1>t. work \in [Packet -> Steps]
  BY DEF Bounded, Typed
<1>w. /\ work[p] \in Busy /\ UNCHANGED <<flags, taken>>
      /\ (\E v \in Busy : GoesOn(p, v)) \/ Leave(p)
  BY WorkerSteps DEF Bounded
<1>r. rivals' = rivals
  BY DEF Worker, CreateFile, CreateFails, Export, ExportFails
<1>p. \A q, t : PathOf(q, t)' = PathOf(q, t)
  BY <1>w DEF PathOf
<1>o. /\ \A q \in Packet : q # p => /\ work'[q] = work[q] /\ (Writing(q)' <=> Writing(q))
                                    /\ Path(q)' = Path(q)
      /\ work'[p] # "none" /\ work[p] # "none" /\ p \in Active
  <2>1. \A q \in Packet : q # p => work'[q] = work[q]
    BY <1>w, <1>t DEF GoesOn, Leave
  <2>2. work'[p] # "none" /\ work[p] # "none" /\ work[p] # "end"
    BY <1>w, <1>t DEF GoesOn, Leave, Busy
  <2> QED
    BY <2>1, <2>2, <1>p DEF Writing, Path, Suffix, Active
<1>n. \A q \in Packet \ {p} : \A t : f = PathOf(q, t) => p \in Namesakes(q)
  BY DEF Path, PathOf, Namesakes
\* What the cases have to show: the rest of the files and the other goroutines stay.
<1>q. ASSUME \A g : g # f => /\ g \in DOMAIN disk' <=> g \in DOMAIN disk
                             /\ g \in DOMAIN disk => disk'[g] = disk[g],
             unlinked \ {p} \subseteq unlinked', failed \subseteq failed',
             Writing(p)' => Path(p)' = f,
             f \in DOMAIN disk' => \A q \in disk'[f] :
                 \/ f \in DOMAIN disk /\ q \in disk[f] /\ ~Writing(p)'
                 \/ q = p /\ Writing(p) /\ p \notin unlinked /\ ~Writing(p)' /\ f \in DOMAIN disk,
             f \in DOMAIN disk' \/ p \in failed' \/ f \notin DOMAIN disk,
             Safe(p)' =>
                /\ work'[p] \in {"export", "raw", "exportraw", "end"} => PathOf(p, "") \in DOMAIN disk'
                /\ work'[p] = "exportraw" \/ (work'[p] = "end" /\ flags.raw) =>
                      PathOf(p, ".raw") \in DOMAIN disk'
      PROVE  Mixed' /\ Exists'
  <2> HIDE DEF f
  <2>1. ASSUME NEW g \in DOMAIN disk, NEW q \in disk[g]
        PROVE  /\ q \in Packet /\ work[q] # "none" /\ \E t \in {"", ".raw"} : g = PathOf(q, t)
               /\ \A x \in Packet \ {q} :
                     Writing(x) /\ x \notin unlinked /\ Path(x) = g => q \in rivals[x]
               /\ \A x \in disk[g] : x = q \/ x \in rivals[q]
    BY <2>1 DEF Mixed
  <2>2. ASSUME NEW g \in DOMAIN disk', NEW q \in disk'[g], g # f \/ (q # p /\ ~Writing(p)'),
               g \in DOMAIN disk, q \in disk[g]
        PROVE  /\ q \in Packet /\ work'[q] # "none" /\ \E t \in {"", ".raw"} : g = PathOf(q, t)'
               /\ \A x \in Packet \ {q} :
                     Writing(x)' /\ x \notin unlinked' /\ Path(x)' = g => q \in rivals'[x]
    <3>1. q \in Packet /\ work'[q] # "none"
      BY <1>o, <2>1, <2>2
    <3>2. \E t \in {"", ".raw"} : g = PathOf(q, t)'
      BY <1>p, <2>1, <2>2
    <3>3. ASSUME NEW x \in Packet \ {q}, Writing(x)', x \notin unlinked', Path(x)' = g
          PROVE  q \in rivals'[x]
      <4>1. x # p
        BY <1>q, <2>2, <3>3
      <4>2. Writing(x) /\ x \notin unlinked /\ Path(x) = g
        BY <1>o, <1>q, <3>3, <4>1
      <4> QED
        BY <1>r, <2>1, <2>2, <4>2
    <3> QED
      BY <3>1, <3>2, <3>3
  <2>3. Mixed'
    <3> SUFFICES ASSUME NEW g \in DOMAIN disk', NEW q \in disk'[g]
                 PROVE  /\ q \in Packet /\ work'[q] # "none"
                        /\ \E t \in {"", ".raw"} : g = PathOf(q, t)'
                        /\ \A x \in Packet \ {q} :
                              Writing(x)' /\ x \notin unlinked' /\ Path(x)' = g => q \in rivals'[x]
                        /\ \A x \in disk'[g] : x = q \/ x \in rivals'[q]
      BY DEF Mixed
    <3>1. CASE g # f
      <4>1. g \in DOMAIN disk /\ disk'[g] = disk[g]
        BY <1>q, <3>1
      <4>2. \A x \in disk'[g] : x = q \/ x \in rivals'[q]
        BY <1>r, <2>1, <4>1
      <4> QED
        BY <2>2, <3>1, <4>1, <4>2
    <3>2. CASE g = f
      <4>1. ASSUME NEW x \in disk'[f]
            PROVE  \/ f \in DOMAIN disk /\ x \in disk[f] /\ ~Writing(p)'
                   \/ x = p /\ Writing(p) /\ p \notin unlinked /\ ~Writing(p)' /\ f \in DOMAIN disk
        BY <1>q, <3>2, <4>1
      <4>2. ASSUME NEW x \in disk[f], f \in DOMAIN disk, x # p
            PROVE  /\ p \in rivals[x] /\ x \in Packet
                   /\ Writing(p) /\ p \notin unlinked => x \in rivals[p]
        <5>1. x \in Packet /\ work[x] # "none" /\ p \in Namesakes(x)
          BY <1>n, <2>1, <4>2
        <5>2. p \in rivals[x]
          BY <1>o, <5>1 DEF Beside
        <5>3. Writing(p) /\ p \notin unlinked => x \in rivals[p]
          BY <2>1, <4>2 DEF f
        <5> QED
          BY <5>1, <5>2, <5>3
      <4>3. CASE q # p
        <5>1. f \in DOMAIN disk /\ q \in disk[f] /\ ~Writing(p)'
          BY <3>2, <4>1, <4>3
        <5>2. ASSUME NEW x \in disk'[f] PROVE x = q \/ x \in rivals'[q]
          <6>1. CASE x \in disk[f]
            BY <1>r, <2>1, <5>1, <6>1
          <6>2. CASE x = p
            BY <1>r, <4>2, <4>3, <5>1, <6>2
          <6> QED
            BY <4>1, <6>1, <6>2
        <5> QED
          BY <2>2, <3>2, <4>3, <5>1, <5>2
      <4>4. CASE q = p
        <5>1. f \in DOMAIN disk /\ ~Writing(p)'
          BY <3>2, <4>1, <4>4
        <5>2. \E t \in {"", ".raw"} : f = PathOf(p, t)'
          <6>1. f = PathOf(p, Suffix(p)) /\ Suffix(p) \in {"", ".raw"}
            BY DEF f, Path, Suffix
          <6> QED
            BY <1>p, <6>1
        <5>3. ASSUME NEW x \in Packet \ {p}, Writing(x)', Path(x)' = f
              PROVE  p \in rivals'[x]
          <6>1. Writing(x) /\ Path(x) = f /\ work[x] # "none"
            BY <1>o, <5>3 DEF Writing
          <6>2. p \in Namesakes(x)
            BY <1>n, <6>1 DEF Path
          <6> QED
            BY <1>o, <1>r, <6>1, <6>2 DEF Beside
        <5>4. \A x \in disk'[f] : x = p \/ x \in rivals'[p]
          <6> SUFFICES ASSUME NEW x \in disk'[f], x # p PROVE x \in rivals[p]
            BY <1>r
          <6>1. x \in disk[f]
            BY <4>1
          <6>2. CASE p \in disk[f]
            BY <2>1, <5>1, <6>1, <6>2
          <6>3. CASE p \notin disk[f]
            <7>1. Writing(p) /\ p \notin unlinked
              BY <3>2, <4>1, <4>4, <6>3
            <7> QED
              BY <4>2, <5>1, <6>1, <7>1
          <6> QED
            BY <6>2, <6>3
        <5> QED
          BY <1>o, <3>2, <4>4, <5>2, <5>3, <5>4
      <4> QED
        BY <4>3, <4>4
    <3> QED
      BY <3>1, <3>2
  <2>4. ASSUME NEW q \in Packet, Safe(q)'
        PROVE  /\ work'[q] \in {"export", "raw", "exportraw", "end"} => PathOf(q, "")' \in DOMAIN disk'
               /\ work'[q] = "exportraw" \/ (work'[q] = "end" /\ flags'.raw) =>
                     PathOf(q, ".raw")' \in DOMAIN disk'
    <3>1. CASE q = p
      BY <1>p, <1>q, <1>w, <2>4, <3>1
    <3>2. CASE q # p
      <4>1. Namesakes(q)' = Namesakes(q)
        BY <1>p DEF Namesakes
      <4>2. Safe(q) /\ (p \in Namesakes(q) => p \notin failed')
        BY <1>q, <2>4, <4>1 DEF Safe
      <4>3. ASSUME NEW t \in {"", ".raw"}, PathOf(q, t) \in DOMAIN disk PROVE PathOf(q, t)' \in DOMAIN disk'
        <5>1. CASE PathOf(q, t) = f
          BY <1>n, <1>p, <1>q, <3>2, <4>2, <4>3, <5>1
        <5>2. CASE PathOf(q, t) # f
          BY <1>p, <1>q, <4>3, <5>2
        <5> QED
          BY <5>1, <5>2
      <4>4. work'[q] = work[q] /\ flags' = flags
        BY <1>o, <1>w, <3>2
      <4>5. /\ work[q] \in {"export", "raw", "exportraw", "end"} => PathOf(q, "") \in DOMAIN disk
            /\ work[q] = "exportraw" \/ (work[q] = "end" /\ flags.raw) =>
                  PathOf(q, ".raw") \in DOMAIN disk
        BY <4>2 DEF Exists
      <4> QED
        BY <4>3, <4>4, <4>5
    <3> QED
      BY <3>1, <3>2
  <2> QED
    BY <2>3, <2>4 DEF Exists
<1>s. Safe(p)' => p \notin failed'
  BY DEF Safe
<1>e. ASSUME failed' = failed, Safe(p)'
      PROVE  /\ work[p] \in {"export", "raw", "exportraw", "end"} => PathOf(p, "") \in DOMAIN disk
             /\ work[p] = "exportraw" => PathOf(p, ".raw") \in DOMAIN disk
  <2>1. Safe(p)
    BY <1>e, <1>p DEF Safe, Namesakes
  <2> QED
    BY <2>1 DEF Exists
<1>1. CASE CreateFile(p)
  <2>1. /\ work[p] \in {"mkdir", "raw"} /\ unlinked' = unlinked \ {p} /\ failed' = failed
        /\ disk' = [g \in DOMAIN disk \cup {f} |-> IF g = f THEN {} ELSE disk[g]]
    BY <1>1 DEF CreateFile
  <2>2. work'[p] = IF work[p] = "mkdir" THEN "export" ELSE "exportraw"
    BY <1>1, <1>t DEF CreateFile
  <2>3. Path(p)' = f
    BY <2>1, <2>2, <1>p DEF Path, Suffix
  <2>4. f = IF work[p] = "mkdir" THEN PathOf(p, "") ELSE PathOf(p, ".raw")
    BY <2>1 DEF Path, Suffix
  <2> HIDE DEF f
  <2>5. /\ f \in DOMAIN disk' /\ disk'[f] = {} /\ DOMAIN disk \subseteq DOMAIN disk'
        /\ \A g : g # f => /\ g \in DOMAIN disk' <=> g \in DOMAIN disk
                           /\ g \in DOMAIN disk => disk'[g] = disk[g]
    BY <2>1
  <2>6. Safe(p)' =>
           /\ work'[p] \in {"export", "raw", "exportraw", "end"} => PathOf(p, "") \in DOMAIN disk'
           /\ work'[p] = "exportraw" \/ (work'[p] = "end" /\ flags.raw) =>
                 PathOf(p, ".raw") \in DOMAIN disk'
    BY <1>e, <2>1, <2>2, <2>4, <2>5
  <2> QED
    BY <1>q, <2>1, <2>3, <2>5, <2>6
<1>2. CASE CreateFails(p)
  <2>1. /\ work[p] \in {"mkdir", "raw"} /\ UNCHANGED <<unlinked, disk>>
        /\ failed' = failed \cup {p} /\ Leave(p)
    BY <1>2 DEF CreateFails
  <2>2. ~Writing(p)'
    BY <2>1, <1>t DEF Leave, Writing
  <2> HIDE DEF f
  <2> QED
    BY <1>q, <1>s, <2>1, <2>2
\* What follows a file that was written or given up.
<1>a. ASSUME AfterFile(p), Writing(p)
      PROVE  /\ ~Writing(p)'
             /\ \/ work'[p] = "raw" /\ work[p] = "export"
                \/ work'[p] = "end" /\ (work[p] = "exportraw" \/ ~flags.raw)
  <2>1. CASE flags.raw /\ work[p] = "export"
    <3>1. work'[p] = "raw"
      BY <2>1, <1>a, <1>t DEF AfterFile
    <3> QED
      BY <2>1, <3>1 DEF Writing
  <2>2. CASE ~(flags.raw /\ work[p] = "export")
    <3>1. work'[p] = "end"
      BY <2>2, <1>a, <1>t DEF AfterFile, Leave
    <3> QED
      BY <2>2, <3>1, <1>a DEF Writing
  <2> QED
    BY <2>1, <2>2
<1>3. CASE Export(p)
  <2>1. /\ Writing(p) /\ UNCHANGED <<unlinked, failed>> /\ AfterFile(p)
        /\ disk' = IF p \in unlinked THEN disk ELSE [disk EXCEPT ![f] = disk[f] \cup {p}]
    BY <1>3 DEF Export, Writing
  <2>2. /\ ~Writing(p)'
        /\ \/ work'[p] = "raw" /\ work[p] = "export"
           \/ work'[p] = "end" /\ (work[p] = "exportraw" \/ ~flags.raw)
    BY <2>1, <1>a
  <2>3. p \notin unlinked => f \in DOMAIN disk
    BY <2>1 DEF Exported, Opened
  <2> HIDE DEF f
  <2>4. /\ DOMAIN disk' = DOMAIN disk
        /\ \A g : g # f => (g \in DOMAIN disk => disk'[g] = disk[g])
        /\ p \in unlinked => disk' = disk
        /\ p \notin unlinked => f \in DOMAIN disk /\ disk'[f] = disk[f] \cup {p}
    BY <2>1, <2>3
  <2>5. Safe(p)' =>
           /\ work'[p] \in {"export", "raw", "exportraw", "end"} => PathOf(p, "") \in DOMAIN disk'
           /\ work'[p] = "exportraw" \/ (work'[p] = "end" /\ flags.raw) =>
                 PathOf(p, ".raw") \in DOMAIN disk'
    BY <1>e, <2>1, <2>2, <2>4 DEF Writing
  <2>6. f \in DOMAIN disk' => \A q \in disk'[f] :
                 \/ f \in DOMAIN disk /\ q \in disk[f] /\ ~Writing(p)'
                 \/ q = p /\ Writing(p) /\ p \notin unlinked /\ ~Writing(p)' /\ f \in DOMAIN disk
    BY <2>1, <2>2, <2>4
  <2> QED
    BY <1>q, <2>1, <2>2, <2>4, <2>5, <2>6
<1>4. CASE ExportFails(p)
  <2>1. /\ Writing(p) /\ failed' = failed \cup {p} /\ AfterFile(p) /\ unlinked \subseteq unlinked'
        /\ disk' = [g \in DOMAIN disk \ {f} |-> disk[g]]
    BY <1>4 DEF ExportFails, Writing, Removed
  <2>2. ~Writing(p)'
    BY <2>1, <1>a
  <2> HIDE DEF f
  <2>3. /\ f \notin DOMAIN disk' /\ p \in failed'
        /\ \A g : g # f => /\ g \in DOMAIN disk' <=> g \in DOMAIN disk
                           /\ g \in DOMAIN disk => disk'[g] = disk[g]
    BY <2>1
  <2> QED
    BY <1>q, <1>s, <2>1, <2>2, <2>3
<1> QED
  BY <1>1, <1>2, <1>3, <1>4 DEF Worker

\* Every step keeps what is known of the files that are shared.
LEMMA NextShared ==
    ASSUME Bounded, Exported, Shared, [Next]_vars
    PROVE  Mixed' /\ Exists'
<1>0. Beside /\ Mixed /\ Exists
  BY DEF Shared
<1>1. CASE \E p \in Packet : Worker(p)
  BY <1>0, <1>1, WorkerShared
<1>2. CASE Acquire
  <2>1. /\ UNCHANGED <<flags, unlinked, disk, failed>> /\ Last(taken) \in Packet
        /\ rivals' = Rivals(Last(taken)) /\ work[Last(taken)] = "none"
        /\ \A q \in Packet : work'[q] = IF q = Last(taken) THEN "mkdir" ELSE work[q]
    BY <1>2, AcquireRivals
  <2>2. \A p \in Packet : work[p] # "none" => rivals[p] \subseteq rivals'[p]
    BY <2>1 DEF Rivals
  <2>3. \A p \in Packet : work'[p] = work[p] \/ (work[p] = "none" /\ work'[p] = "mkdir")
    BY <2>1
  <2> QED
    BY <1>0, <2>1, <2>2, <2>3, MainShared
<1>3. CASE ~(\E p \in Packet : Worker(p)) /\ ~Acquire
  <2>1. UNCHANGED <<flags, unlinked, disk, failed, rivals, work>>
    BY <1>3 DEF Next, Reader, Main, Read, ReadFails, CountPacket, Recv, RecvClosed, AllAsleep, Return,
       Ended, vars
  <2> QED
    BY <1>0, <2>1, MainShared
<1> QED
  BY <1>1, <1>2, <1>3

\* When vmuzip ends, every packet it took is whole and alone in its file, and so is
\* its raw data, unless its export failed or a packet of the same name was
\* exported beside it or later.  A file is missing only if an export to it failed,
\* none is empty, and the packets that share a file were exported beside each
\* other: the goroutines create, write and remove files in any order, also each
\* other's, and main waits for them.
THEOREM ExportsWhole == Spec => []ExportedWhole
<1> DEFINE Inv == Bounded /\ Exported /\ Shared
<1>1. Init => Inv
  <2> SUFFICES ASSUME Init PROVE Shared
    BY InitBounded, InitExported
  <2>1. DOMAIN disk = {} /\ \A p \in Packet : work[p] = "none"
    BY DEF Init
  <2> QED
    BY <2>1 DEF Shared, Beside, Mixed, Exists
<1>2. Inv /\ [Next]_vars => Inv'
  <2> SUFFICES ASSUME Inv, [Next]_vars PROVE Inv'
    OBVIOUS
  <2>1. Bounded' /\ Exported' /\ Beside'
    BY NextBounded, NextExported, NextBeside DEF Shared
  <2>2. Mixed' /\ Exists'
    BY NextShared
  <2> QED
    BY <2>1, <2>2 DEF Shared
<1>3. Inv => ExportedWhole
  <2> SUFFICES ASSUME Inv, flags.app = "zip", mpc = "done"
               PROVE  /\ \A f \in DOMAIN disk : /\ disk[f] # {}
                                                /\ \A p, q \in disk[f] : p = q \/ p \in rivals[q]
                      /\ \A p \in ToSet(taken), s \in {""} \cup (IF flags.raw THEN {".raw"} ELSE {}) :
                          /\ p \notin failed /\ rivals[p] = {} =>
                                PathOf(p, s) \in DOMAIN disk /\ disk[PathOf(p, s)] = {p}
                          /\ failed \cap ({p} \cup Namesakes(p)) = {} => PathOf(p, s) \in DOMAIN disk
    BY DEF ExportedWhole
  <2>0. ToSet(taken) \subseteq Packet
    BY DEF Bounded, Typed, ToSet
  <2>1. \A p \in Packet : work[p] \in {"none", "end"}
    BY DEF Exported, Worked, WorkersDone
  <2>2. \A f \in DOMAIN disk : disk[f] # {} /\ \A p, q \in disk[f] : p = q \/ p \in rivals[q]
    BY <2>1 DEF Exported, Opened, Writing, Shared, Mixed
  <2>3. ASSUME NEW p \in ToSet(taken), NEW s \in {""} \cup (IF flags.raw THEN {".raw"} ELSE {})
        PROVE  /\ p \notin failed /\ rivals[p] = {} =>
                      PathOf(p, s) \in DOMAIN disk /\ disk[PathOf(p, s)] = {p}
               /\ Safe(p) => PathOf(p, s) \in DOMAIN disk
    <3>1. p \in Packet
      BY <2>0
    <3>2. work[p] # "none"
      BY DEF Exported, Worked
    <3>3. work[p] = "end" /\ (p \notin failed /\ rivals[p] = {} => FilesOf(p))
      BY <2>1, <3>1, <3>2 DEF Exported, Whole
    <3>4. s = "" \/ (flags.raw /\ s = ".raw")
      OBVIOUS
    <3>5. CASE s = ""
      BY <3>1, <3>3, <3>5 DEF FilesOf, Has, Shared, Exists
    <3>6. CASE flags.raw /\ s = ".raw"
      <4>1. p \notin failed /\ rivals[p] = {} => Has(PathOf(p, ".raw"), {p})
        BY <3>3, <3>6 DEF FilesOf
      <4>2. Safe(p) => PathOf(p, ".raw") \in DOMAIN disk
        BY <3>1, <3>3, <3>6 DEF Shared, Exists
      <4> QED
        BY <4>1, <4>2, <3>6 DEF Has
    <3> QED
      BY <3>4, <3>5, <3>6
  <2> QED
    BY <2>2, <2>3 DEF Safe
<1> HIDE DEF Inv
<1> QED
  BY <1>1, <1>2, <1>3, PTL DEF Spec

-----------------------------------------------------------------------------
(* The sum of the counters. *)

Pick(T) == CHOOSE x \in T : TRUE

\* What SumFunction iterates, over the sets of D.
Totals(g, f, D) ==
    g = [T \in D |-> IF T = {} THEN 0 ELSE f[Pick(T)] + g[T \ {Pick(T)}]]

\* The subsets of K with at most n elements.
Small(K, n) == {T \in SUBSET K : Cardinality(T) <= n}

\* An element less.
LEMMA Smaller ==
    ASSUME NEW K, IsFiniteSet(K), NEW n \in Nat, NEW T \in Small(K, n + 1), T # {}
    PROVE  Pick(T) \in T /\ T \ {Pick(T)} \in Small(K, n) /\ T \in SUBSET K
<1>1. T \in SUBSET K /\ Cardinality(T) <= n + 1
  BY DEF Small
<1>2. Pick(T) \in T
  BY DEF Pick
<1>3. IsFiniteSet(T) /\ Cardinality(T) \in Nat
  BY <1>1, FS_Subset, FS_CardinalityType
<1>4. Cardinality(T \ {Pick(T)}) = Cardinality(T) - 1
  BY <1>2, <1>3, FS_RemoveElement
<1>5. T \ {Pick(T)} \in SUBSET K
  BY <1>1
<1>6. Cardinality(T \ {Pick(T)}) <= n
  BY ONLY <1>1, <1>3, <1>4, n \in Nat
<1> QED
  BY <1>1, <1>2, <1>5, <1>6 DEF Small

\* The small sets are the empty one, and at last all of them.
LEMMA SmallEnds ==
    ASSUME NEW K, IsFiniteSet(K)
    PROVE  /\ Cardinality(K) \in Nat
           /\ Small(K, 0) = {{}} /\ Small(K, Cardinality(K)) = SUBSET K
           /\ \A n \in Nat : Small(K, n) \subseteq Small(K, n + 1)
<1>0. Cardinality(K) \in Nat
  BY FS_CardinalityType
<1>1. ASSUME NEW T \in SUBSET K
      PROVE  /\ IsFiniteSet(T) /\ Cardinality(T) \in Nat
             /\ Cardinality(T) <= Cardinality(K) /\ (Cardinality(T) = 0 <=> T = {})
  BY FS_Subset, FS_CardinalityType, FS_EmptySet
<1>2. Small(K, 0) = {{}}
  <2>1. ASSUME NEW T \in SUBSET K PROVE Cardinality(T) <= 0 <=> T = {}
    BY <1>1
  <2> QED
    BY <2>1 DEF Small
<1>3. Small(K, Cardinality(K)) = SUBSET K
  BY <1>1 DEF Small
<1>4. \A n \in Nat : \A T \in SUBSET K : Cardinality(T) <= n => Cardinality(T) <= n + 1
  BY <1>1
<1> QED
  BY <1>0, <1>2, <1>3, <1>4 DEF Small

\* There is such a function for the subsets of a finite set.
LEMMA TotalsExists ==
    ASSUME NEW K, IsFiniteSet(K), NEW f \in [K -> Nat]
    PROVE  \E g : Totals(g, f, SUBSET K)
<1> DEFINE c == Cardinality(K)
           S == {n \in 0 .. c : \E g : Totals(g, f, Small(K, n))}
<1>0. c \in Nat
  BY SmallEnds
<1>1. 0 \in S
  <2> DEFINE g == [T \in {{}} |-> 0]
  <2>1. g = [T \in {{}} |-> IF T = {} THEN 0 ELSE f[Pick(T)] + g[T \ {Pick(T)}]]
    OBVIOUS
  <2> HIDE DEF g
  <2>2. Totals(g, f, Small(K, 0))
    BY <2>1, SmallEnds DEF Totals
  <2> QED
    BY <1>0, <2>2
<1>2. ASSUME NEW n \in 0 .. c - 1, n \in S PROVE n + 1 \in S
  <2>0. n \in Nat /\ n + 1 \in 0 .. c
    BY <1>0
  <2>1. PICK g : Totals(g, f, Small(K, n))
    BY <1>2
  <2> DEFINE h == [T \in Small(K, n + 1) |->
                     IF T = {} THEN 0 ELSE f[Pick(T)] + g[T \ {Pick(T)}]]
  <2>2. ASSUME NEW T \in Small(K, n) PROVE T \in Small(K, n + 1) /\ h[T] = g[T]
    <3>1. T \in Small(K, n + 1)
      BY <2>0, SmallEnds
    <3> QED
      BY <2>1, <3>1 DEF Totals
  <2>3. ASSUME NEW T \in Small(K, n + 1), T # {}
        PROVE  g[T \ {Pick(T)}] = h[T \ {Pick(T)}]
    <3>1. T \ {Pick(T)} \in Small(K, n)
      BY <2>0, <2>3, Smaller
    <3> QED
      BY <2>2, <3>1
  <2>4. h = [T \in Small(K, n + 1) |-> IF T = {} THEN 0 ELSE f[Pick(T)] + h[T \ {Pick(T)}]]
    <3>1. \A T \in Small(K, n + 1) :
             h[T] = IF T = {} THEN 0 ELSE f[Pick(T)] + h[T \ {Pick(T)}]
      BY <2>3
    <3>2. h = [T \in Small(K, n + 1) |-> h[T]]
      OBVIOUS
    <3> HIDE DEF h
    <3> QED
      BY <3>1, <3>2
  <2> HIDE DEF h
  <2>5. Totals(h, f, Small(K, n + 1))
    BY <2>4 DEF Totals
  <2> QED
    BY <2>0, <2>5
<1>3. c \in S
  <2>1. c \in 0 .. c
    BY <1>0
  <2> HIDE DEF S, c
  <2> QED
    BY <1>0, <1>1, <1>2, <2>1, Induct
<1> QED
  BY <1>3, SmallEnds

\* It is the one that SumFunction uses.
LEMMA SumTotals ==
    ASSUME NEW K, IsFiniteSet(K), NEW f \in [K -> Nat]
    PROVE  \E g : Totals(g, f, SUBSET K) /\ SumFunction(f) = g[K]
<1>1. \E g : Totals(g, f, SUBSET K)
  BY TotalsExists
<1>2. DOMAIN f = K
  OBVIOUS
<1>3. SumFunction(f) = (CHOOSE g : Totals(g, f, SUBSET K))[K]
  BY <1>2, Zenon DEF SumFunction, SumFunctionOnSet, FoldFunctionOnSet, MapThenFoldSet,
                     Totals, Pick
<1>4. Totals(CHOOSE g : Totals(g, f, SUBSET K), f, SUBSET K)
  BY <1>1, Zenon
<1> QED
  BY <1>3, <1>4, Zenon

\* The sum of counters that are 0, and of counters one of which is one more.
LEMMA SumCounts ==
    ASSUME NEW K, IsFiniteSet(K)
    PROVE  /\ SumFunction([k \in K |-> 0]) = 0
           /\ \A f \in [K -> Nat] : \A k \in K :
                 SumFunction([f EXCEPT ![k] = @ + 1]) = SumFunction(f) + 1
<1>1. SumFunction([k \in K |-> 0]) = 0
  <2> DEFINE f == [k \in K |-> 0]
  <2>1. f \in [K -> Nat] /\ \A k \in K : f[k] = 0
    OBVIOUS
  <2> HIDE DEF f
  <2>2. PICK g : Totals(g, f, SUBSET K) /\ SumFunction(f) = g[K]
    BY <2>1, SumTotals
  <2> DEFINE c == Cardinality(K)
             S == {n \in 0 .. c : \A T \in Small(K, n) : g[T] = 0}
  <2>3. c \in Nat
    BY SmallEnds
  <2>4. 0 \in S
    <3>1. g[{}] = 0
      BY <2>2 DEF Totals
    <3>2. \A T \in Small(K, 0) : g[T] = 0
      BY <3>1, SmallEnds
    <3> QED
      BY ONLY <2>3, <3>2
  <2>5. ASSUME NEW n \in 0 .. c - 1, n \in S PROVE n + 1 \in S
    <3>0. n \in Nat /\ n + 1 \in 0 .. c
      BY <2>3
    <3>1. ASSUME NEW T \in Small(K, n + 1) PROVE g[T] = 0
      <4>1. CASE T = {}
        BY <2>2, <4>1 DEF Totals
      <4>2. CASE T # {}
        <5>1. Pick(T) \in T /\ T \ {Pick(T)} \in Small(K, n) /\ T \in SUBSET K
          BY <3>0, <4>2, Smaller
        <5>2. g[T] = f[Pick(T)] + g[T \ {Pick(T)}]
          BY <2>2, <4>2, <5>1 DEF Totals
        <5>3. f[Pick(T)] = 0 /\ g[T \ {Pick(T)}] = 0
          BY <2>1, <2>5, <5>1
        <5> QED
          BY ONLY <5>2, <5>3
      <4> QED
        BY <4>1, <4>2
    <3> QED
      BY <3>0, <3>1
  <2>6. c \in S
    <3>1. c \in 0 .. c
      BY <2>3
    <3> HIDE DEF S, c
    <3> QED
      BY <2>3, <2>4, <2>5, <3>1, Induct
  <2> QED
    BY <2>2, <2>6, SmallEnds DEF f
<1>2. ASSUME NEW f \in [K -> Nat], NEW k \in K
      PROVE  SumFunction([f EXCEPT ![k] = @ + 1]) = SumFunction(f) + 1
  <2> DEFINE e == [f EXCEPT ![k] = @ + 1]
  <2>1. e \in [K -> Nat] /\ e[k] = f[k] + 1 /\ \A x \in K \ {k} : e[x] = f[x]
    OBVIOUS
  <2>2. \A x \in K : f[x] \in Nat
    OBVIOUS
  <2> HIDE DEF e
  <2>3. PICK g : Totals(g, f, SUBSET K) /\ SumFunction(f) = g[K]
    BY SumTotals
  <2>4. PICK h : Totals(h, e, SUBSET K) /\ SumFunction(e) = h[K]
    BY <2>1, SumTotals
  <2> DEFINE c == Cardinality(K)
             More(T) == g[T] \in Nat /\ h[T] = IF k \in T THEN g[T] + 1 ELSE g[T]
             S == {n \in 0 .. c : \A T \in Small(K, n) : More(T)}
  <2>5. c \in Nat
    BY SmallEnds
  <2>6. More({})
    BY <2>3, <2>4 DEF Totals
  <2>7. 0 \in S
    <3> HIDE DEF More
    <3>1. \A T \in Small(K, 0) : More(T)
      BY <2>6, SmallEnds
    <3> QED
      BY ONLY <2>5, <3>1
  <2>8. ASSUME NEW n \in 0 .. c - 1, n \in S PROVE n + 1 \in S
    <3>0. n \in Nat /\ n + 1 \in 0 .. c
      BY <2>5
    <3>1. ASSUME NEW T \in Small(K, n + 1), T # {} PROVE More(T)
      <4> DEFINE x == Pick(T)
                 U == T \ {x}
      <4>1. x \in T /\ U \in Small(K, n) /\ T \in SUBSET K
        BY <3>0, <3>1, Smaller
      <4>2. g[T] = f[x] + g[U] /\ h[T] = e[x] + h[U]
        BY <2>3, <2>4, <3>1, <4>1 DEF Totals
      <4>3. More(U)
        <5> HIDE DEF More, U
        <5> QED
          BY <2>8, <4>1
      <4>4. x \in K /\ f[x] \in Nat
        BY <4>1, <2>2
      <4>5. CASE x = k
        <5>1. k \in T /\ k \notin U /\ e[x] = f[x] + 1
          BY <2>1, <4>1, <4>5
        <5> HIDE DEF x, U
        <5> QED
          BY ONLY <5>1, <4>2, <4>3, <4>4
      <4>6. CASE x # k
        <5>1. (k \in T <=> k \in U) /\ e[x] = f[x]
          BY <2>1, <4>4, <4>6
        <5> HIDE DEF x, U
        <5> QED
          BY ONLY <5>1, <4>2, <4>3, <4>4
      <4> QED
        BY <4>5, <4>6
    <3> HIDE DEF More
    <3>2. \A T \in Small(K, n + 1) : More(T)
      BY <3>1, <2>6
    <3> QED
      BY <3>0, <3>2
  <2>9. c \in S
    <3>1. c \in 0 .. c
      BY <2>5
    <3> HIDE DEF S, c
    <3> QED
      BY <2>5, <2>7, <2>8, <3>1, Induct
  <2>10. More(K)
    <3> HIDE DEF More
    <3> QED
      BY <2>9, SmallEnds
  <2> QED
    BY <2>3, <2>4, <2>10 DEF e
<1> QED
  BY <1>1, <1>2

-----------------------------------------------------------------------------
(* Sorted lists. *)

\* p puts the first n elements of s in descending order.
Sorts(p, s, n) ==
    /\ p \in [1 .. n -> 1 .. n]
    /\ \A i, j \in 1 .. n : p[i] = p[j] => i = j
    /\ \A m \in 1 .. n : \E i \in 1 .. n : p[i] = m
    /\ \A i, j \in 1 .. n : i <= j => s[p[i]] >= s[p[j]]

\* The next element has a place among the ones before it.
LEMMA SortsMore ==
    ASSUME NEW s \in Seq(Int), NEW n \in Nat, n + 1 <= Len(s), NEW p, Sorts(p, s, n)
    PROVE  \E q : Sorts(q, s, n + 1)
<1> DEFINE x == s[n + 1]
           L == {i \in 1 .. n + 1 : i = n + 1 \/ ~(s[p[i]] >= x)}
<1>1. L \subseteq Nat /\ n + 1 \in L
  OBVIOUS
<1>2. PICK k \in L : \A i \in L : k <= i
  <2> HIDE DEF L
  <2> QED
    BY <1>1, LeastElement
<1>3. \A i \in 1 .. n : p[i] \in 1 .. n
  BY DEF Sorts
<1>4. x \in Int /\ \A i \in 1 .. n : s[p[i]] \in Int
  <2>1. n + 1 \in 1 .. Len(s) /\ \A i \in 1 .. n : i \in 1 .. Len(s)
    OBVIOUS
  <2>2. \A i \in 1 .. Len(s) : s[i] \in Int
    OBVIOUS
  <2> QED
    BY <1>3, <2>1, <2>2
<1>5. k \in 1 .. n + 1
  OBVIOUS
<1>6. \A i \in 1 .. n : i < k => s[p[i]] >= x
  <2> SUFFICES ASSUME NEW i \in 1 .. n, i < k PROVE s[p[i]] >= x
    OBVIOUS
  <2>1. i \notin L
    <3>1. ~(k <= i)
      BY ONLY <1>5, i \in 1 .. n, i < k, n \in Nat
    <3> QED
      BY <1>2, <3>1
  <2> QED
    BY <2>1
<1>7. \A i \in 1 .. n : i >= k => x >= s[p[i]]
  <2> SUFFICES ASSUME NEW i \in 1 .. n, i >= k PROVE x >= s[p[i]]
    OBVIOUS
  <2>1. k \in 1 .. n /\ k # n + 1
    BY ONLY <1>5, i \in 1 .. n, i >= k, n \in Nat
  <2>2. ~(s[p[k]] >= x)
    BY <2>1
  <2>3. s[p[k]] >= s[p[i]]
    BY <2>1 DEF Sorts
  <2>4. s[p[k]] \in Int /\ s[p[i]] \in Int
    BY <1>4, <2>1
  <2> QED
    BY ONLY <1>4, <2>2, <2>3, <2>4
<1> HIDE DEF L
<1> DEFINE q == [i \in 1 .. n + 1 |-> IF i < k THEN p[i] ELSE IF i = k THEN n + 1 ELSE p[i - 1]]
<1>8. ASSUME NEW i \in 1 .. n + 1
      PROVE  /\ i < k => i \in 1 .. n /\ q[i] = p[i]
             /\ i = k => q[i] = n + 1
             /\ i > k => i - 1 \in 1 .. n /\ q[i] = p[i - 1] /\ i - 1 >= k
             /\ i < k \/ i = k \/ i > k
  BY <1>5
<1> HIDE DEF q
<1>9. q \in [1 .. n + 1 -> 1 .. n + 1]
  <2>1. \A i \in 1 .. n + 1 : q[i] \in 1 .. n + 1
    <3> TAKE i \in 1 .. n + 1
    <3>1. q[i] \in 1 .. n \/ q[i] = n + 1
      BY <1>3, <1>8
    <3> QED
      BY ONLY <3>1, n \in Nat
  <2> QED
    BY <2>1 DEF q
<1>10. ASSUME NEW i \in 1 .. n + 1, NEW j \in 1 .. n + 1, q[i] = q[j] PROVE i = j
  <2>1. \A m \in 1 .. n : p[m] # n + 1
    BY <1>3
  <2>2. \A a, b \in 1 .. n : p[a] = p[b] => a = b
    BY DEF Sorts
  <2>3. CASE i = k \/ j = k
    BY <1>8, <1>10, <2>1, <2>3
  <2>4. CASE i < k /\ j < k
    BY <1>8, <1>10, <2>2, <2>4
  <2>5. CASE i > k /\ j > k
    BY <1>8, <1>10, <2>2, <2>5
  <2>6. CASE i < k /\ j > k
    <3>1. i = j - 1 /\ j - 1 >= k
      BY <1>8, <1>10, <2>2, <2>6
    <3> QED
      BY ONLY <2>6, <3>1, <1>5, i \in 1 .. n + 1, j \in 1 .. n + 1, n \in Nat
  <2>7. CASE i > k /\ j < k
    <3>1. j = i - 1 /\ i - 1 >= k
      BY <1>8, <1>10, <2>2, <2>7
    <3> QED
      BY ONLY <2>7, <3>1, <1>5, i \in 1 .. n + 1, j \in 1 .. n + 1, n \in Nat
  <2> QED
    BY <1>8, <2>3, <2>4, <2>5, <2>6, <2>7
<1>11. ASSUME NEW m \in 1 .. n + 1 PROVE \E i \in 1 .. n + 1 : q[i] = m
  <2>1. CASE m = n + 1
    BY <1>5, <1>8, <2>1
  <2>2. CASE m # n + 1
    <3>1. m \in 1 .. n
      BY ONLY <2>2, m \in 1 .. n + 1, n \in Nat
    <3>2. PICK a \in 1 .. n : p[a] = m
      BY <3>1 DEF Sorts
    <3>3. /\ a \in 1 .. n + 1 /\ a + 1 \in 1 .. n + 1 /\ (a + 1) - 1 = a
          /\ a < k \/ a + 1 > k
      BY ONLY <1>5, a \in 1 .. n, n \in Nat
    <3> DEFINE b == a + 1
    <3>4. b \in 1 .. n + 1 /\ b - 1 = a /\ (a < k \/ b > k)
      BY <3>3
    <3> HIDE DEF b
    <3>5. CASE a < k
      BY <1>8, <3>2, <3>3, <3>5
    <3>6. CASE b > k
      BY <1>8, <3>2, <3>4, <3>6
    <3> QED
      BY <3>4, <3>5, <3>6
  <2> QED
    BY <2>1, <2>2
<1>12. ASSUME NEW i \in 1 .. n + 1, NEW j \in 1 .. n + 1, i <= j
       PROVE  s[q[i]] >= s[q[j]]
  <2>1. \A a, b \in 1 .. n : a <= b => s[p[a]] >= s[p[b]]
    BY DEF Sorts
  <2>2. CASE i = j
    <3>1. s[q[i]] \in Int
      <4>1. s[n + 1] \in Int
        BY <1>4
      <4> HIDE DEF x
      <4> QED
        BY <1>4, <1>8, <4>1
    <3> QED
      BY <2>2, <3>1
  <2>3. CASE j < k
    <3>1. i < k
      BY ONLY <2>3, <1>5, <1>12, i \in 1 .. n + 1, j \in 1 .. n + 1, n \in Nat
    <3>2. i \in 1 .. n /\ j \in 1 .. n /\ q[i] = p[i] /\ q[j] = p[j]
      BY <1>8, <2>3, <3>1
    <3> QED
      BY <1>12, <2>1, <3>2
  <2>4. CASE i < k /\ j = k
    BY <1>6, <1>8, <2>4
  <2>5. CASE i < k /\ j > k
    <3>1. i <= j - 1
      BY ONLY <2>5, <1>5, i \in 1 .. n + 1, j \in 1 .. n + 1, n \in Nat
    <3> QED
      BY <1>8, <2>1, <2>5, <3>1
  <2>6. CASE i = k /\ j > k
    BY <1>7, <1>8, <2>6
  <2>7. CASE i > k /\ j > k
    <3>1. i - 1 <= j - 1
      BY ONLY <1>12, i \in 1 .. n + 1, j \in 1 .. n + 1, n \in Nat
    <3> QED
      BY <1>8, <2>1, <2>7, <3>1
  <2>8. \/ i = j \/ j < k \/ (i < k /\ j = k) \/ (i < k /\ j > k)
        \/ (i = k /\ j > k) \/ (i > k /\ j > k)
    BY ONLY <1>5, <1>12, i \in 1 .. n + 1, j \in 1 .. n + 1, n \in Nat
  <2> QED
    BY <2>2, <2>3, <2>4, <2>5, <2>6, <2>7, <2>8
<1>13. Sorts(q, s, n + 1)
  BY <1>9, <1>10, <1>11, <1>12 DEF Sorts
<1> QED
  BY <1>13

\* A list of numbers can be sorted, and the sorted one has the same elements.
LEMMA SortedDownIs ==
    ASSUME NEW s \in Seq(Int)
    PROVE  /\ SortedDown(s) \in Seq(Int) /\ Len(SortedDown(s)) = Len(s)
           /\ \A i, j \in 1 .. Len(s) : i <= j => SortedDown(s)[i] >= SortedDown(s)[j]
           /\ \A v : (\E i \in 1 .. Len(s) : SortedDown(s)[i] = v)
                     <=> (\E i \in 1 .. Len(s) : s[i] = v)
<1> DEFINE l == Len(s)
           S == {n \in 0 .. l : \E p : Sorts(p, s, n)}
           Down(t) == \A i, j \in DOMAIN t : i <= j => t[i] >= t[j]
<1>1. l \in Nat /\ DOMAIN s = 1 .. l /\ \A i \in 1 .. l : s[i] \in Int
  OBVIOUS
<1>2. 0 \in S
  <2> DEFINE p == [i \in 1 .. 0 |-> i]
  <2>1. p \in [1 .. 0 -> 1 .. 0] /\ 1 .. 0 = {}
    OBVIOUS
  <2> HIDE DEF p
  <2>2. Sorts(p, s, 0)
    BY <2>1 DEF Sorts
  <2> QED
    BY <1>1, <2>2
<1>3. ASSUME NEW n \in 0 .. l - 1, n \in S PROVE n + 1 \in S
  <2>1. n \in Nat /\ n + 1 <= Len(s) /\ n + 1 \in 0 .. l
    BY <1>1
  <2>2. PICK p : Sorts(p, s, n)
    BY <1>3
  <2>3. \E q : Sorts(q, s, n + 1)
    BY <2>1, <2>2, SortsMore
  <2> QED
    BY <2>1, <2>3
<1>4. l \in S
  <2>1. l \in 0 .. l
    BY <1>1
  <2> HIDE DEF S, l
  <2> QED
    BY <1>1, <1>2, <1>3, <2>1, Induct
<1>5. PICK p : Sorts(p, s, l)
  BY <1>4
<1> HIDE DEF l
<1>6. p \in Bijection(1 .. l, 1 .. l)
  BY <1>5 DEF Sorts, Bijection, Injection, Surjection, IsInjective
<1> DEFINE w == [i \in DOMAIN s |-> s[p[i]]]
<1>7. w \in Orders(s)
  BY <1>1, <1>6 DEF Orders
<1>8. Down(w)
  BY <1>1, <1>5 DEF Sorts
<1> HIDE DEF w
<1>9. SortedDown(s) \in Orders(s) /\ Down(SortedDown(s))
  <2>1. SortedDown(s) = CHOOSE t \in Orders(s) : Down(t)
    BY DEF SortedDown
  <2> HIDE DEF Down
  <2> QED
    BY <1>7, <1>8, <2>1
<1> DEFINE t == SortedDown(s)
<1>10. PICK q \in Bijection(1 .. l, 1 .. l) : t = [i \in 1 .. l |-> s[q[i]]]
  BY <1>1, <1>9 DEF Orders
<1> HIDE DEF t
<1>11. /\ \A i \in 1 .. l : q[i] \in 1 .. l
       /\ \A m \in 1 .. l : \E i \in 1 .. l : q[i] = m
  BY DEF Bijection, Injection, Surjection
<1>12. /\ DOMAIN t = 1 .. l
       /\ \A i \in 1 .. l : t[i] = s[q[i]] /\ t[i] \in Int
  BY <1>1, <1>10, <1>11
<1>13. t \in Seq(Int) /\ Len(t) = l
  <2>1. t \in [1 .. l -> Int]
    BY <1>10, <1>12
  <2> QED
    BY <1>1, <2>1
<1>14. ASSUME NEW v
       PROVE  (\E i \in 1 .. l : t[i] = v) <=> (\E i \in 1 .. l : s[i] = v)
  <2>1. ASSUME NEW i \in 1 .. l, t[i] = v PROVE \E j \in 1 .. l : s[j] = v
    BY ONLY <1>11, <1>12, <2>1
  <2>2. ASSUME NEW j \in 1 .. l, s[j] = v PROVE \E i \in 1 .. l : t[i] = v
    <3>1. PICK i \in 1 .. l : q[i] = j
      BY ONLY <1>11, j \in 1 .. l
    <3>2. t[i] = v
      BY ONLY <1>12, <2>2, <3>1
    <3> QED
      BY ONLY <3>2
  <2> QED
    BY <2>1, <2>2
<1>15. \A i, j \in 1 .. l : i <= j => t[i] >= t[j]
  BY <1>9, <1>12 DEF t
<1> QED
  BY <1>13, <1>14, <1>15 DEF t, l

\* A list that has nothing to sort stays as it is.
LEMMA SortedUpShort ==
    ASSUME NEW s \in Seq(Int), Len(s) < 2
    PROVE  SortedUp(s) = s
<1> DEFINE l == Len(s)
           Up(t) == \A i, j \in DOMAIN t : i <= j => t[i] <= t[j]
<1>1. /\ l \in Nat /\ DOMAIN s = 1 .. l /\ \A i \in 1 .. l : s[i] \in Int
      /\ \A i \in 1 .. l : i = 1
      /\ s = [i \in 1 .. l |-> s[i]]
  OBVIOUS
<1> HIDE DEF l
<1>2. ASSUME NEW p \in Bijection(1 .. l, 1 .. l) PROVE [i \in 1 .. l |-> s[p[i]]] = s
  <2>1. \A i \in 1 .. l : p[i] \in 1 .. l
    BY DEF Bijection, Injection
  <2>2. \A i \in 1 .. l : s[p[i]] = s[i]
    BY <1>1, <2>1
  <2>3. [i \in 1 .. l |-> s[p[i]]] = [i \in 1 .. l |-> s[i]]
    BY ONLY <2>2
  <2> QED
    BY ONLY <1>1, <2>3, Zenon
<1>3. [i \in 1 .. l |-> i] \in Bijection(1 .. l, 1 .. l)
  BY DEF Bijection, Injection, Surjection, IsInjective
<1>4. Orders(s) = {s}
  <2>1. Orders(s) = {[i \in 1 .. l |-> s[p[i]]] : p \in Bijection(1 .. l, 1 .. l)}
    BY <1>1 DEF Orders
  <2>2. s \in Orders(s)
    BY <1>2, <1>3, <2>1
  <2>3. \A t \in Orders(s) : t = s
    BY <1>2, <2>1
  <2> QED
    BY ONLY <2>2, <2>3
<1>5. Up(s)
  BY <1>1
<1>6. SortedUp(s) = CHOOSE t \in Orders(s) : Up(t)
  BY DEF SortedUp
<1> HIDE DEF Up
<1> QED
  BY <1>4, <1>5, <1>6

-----------------------------------------------------------------------------
(* The packets that the flags ask for. *)

\* A number is in a list that the search takes for a descending one.
LEMMA ListedDown ==
    ASSUME NEW vs \in Seq(Int), NEW x \in Int,
           \A a, b \in 1 .. Len(vs) : a <= b => vs[a] >= vs[b]
    PROVE  Listed(vs, x) <=> vs = <<>> \/ \E m \in 1 .. Len(vs) : vs[m] = x
<1>1. FoundDescending(vs, x) <=> \E m \in 1 .. Len(vs) : vs[m] = x
  BY DescendingFinds
<1> QED
  BY ONLY <1>1 DEF Listed

\* The filter of the reader, with its searches, and the test of vmucat let the
\* packets pass that the flags ask for.
LEMMA SelectedMeans ==
    ASSUME Typed, Len(flags.formats) < 2, NEW p \in Packet
    PROVE  Meant(p) <=> Selected(p) /\ flags.upi \in {"", p.upi}
<1> DEFINE fs == flags.formats
           cs == flags.channels
           x  == p.format
           c  == p.channel
<1>1. fs \in Seq(Int) /\ cs \in Seq(Int) /\ x \in Int /\ c \in Int
  BY ExtractAssumption DEF Typed, Packet
<1>2. Len(fs) < 2
  OBVIOUS
<1> HIDE DEF fs, cs, x, c
<1>3. Listed(SetFormats(fs), x) <=> fs = <<>> \/ x \in ToSet(fs)
  <2>1. SetFormats(fs) = fs
    BY <1>1, <1>2, SortedUpShort DEF SetFormats
  <2>2. \A a, b \in 1 .. Len(fs) : a <= b => fs[a] >= fs[b]
    <3> SUFFICES ASSUME NEW a \in 1 .. Len(fs), NEW b \in 1 .. Len(fs) PROVE fs[a] >= fs[b]
      OBVIOUS
    <3>1. a = b /\ fs[a] \in Int
      BY <1>1, <1>2
    <3> QED
      BY <3>1
  <2>3. Listed(fs, x) <=> fs = <<>> \/ \E m \in 1 .. Len(fs) : fs[m] = x
    BY <1>1, <2>2, ListedDown
  <2>4. DOMAIN fs = 1 .. Len(fs)
    BY <1>1
  <2>5. x \in ToSet(fs) <=> \E m \in 1 .. Len(fs) : fs[m] = x
    BY <2>4, Zenon DEF ToSet
  <2> QED
    BY <2>1, <2>3, <2>5
<1>4. Listed(SetChannels(cs), c) <=> cs = <<>> \/ c \in ToSet(cs)
  <2> DEFINE vs == SortedDown(cs)
  <2>1. /\ vs \in Seq(Int) /\ Len(vs) = Len(cs)
        /\ \A a, b \in 1 .. Len(cs) : a <= b => vs[a] >= vs[b]
        /\ (\E m \in 1 .. Len(cs) : vs[m] = c) <=> (\E m \in 1 .. Len(cs) : cs[m] = c)
    BY <1>1, SortedDownIs
  <2>2. SetChannels(cs) = vs
    BY DEF SetChannels
  <2> HIDE DEF vs
  <2>3. Listed(vs, c) <=> vs = <<>> \/ \E m \in 1 .. Len(vs) : vs[m] = c
    BY <1>1, <2>1, ListedDown
  <2>4. vs = <<>> <=> cs = <<>>
    BY <1>1, <2>1
  <2>5. DOMAIN cs = 1 .. Len(cs)
    BY <1>1
  <2>6. c \in ToSet(cs) <=> \E m \in 1 .. Len(cs) : cs[m] = c
    BY <2>5, Zenon DEF ToSet
  <2> QED
    BY <2>1, <2>2, <2>3, <2>4, <2>6
<1> QED
  BY <1>3, <1>4 DEF Meant, Selected, fs, cs, x, c

\* What a list has of a set begins with what its beginning has of it.
LEMMA OnlyPrefix ==
    ASSUME NEW T, NEW s \in Seq(T), NEW S, NEW k \in 0 .. Len(s)
    PROVE  /\ Len(Only(SubSeq(s, 1, k), S)) <= Len(Only(s, S))
           /\ \A i \in 1 .. Len(Only(SubSeq(s, 1, k), S)) :
                 Only(s, S)[i] = Only(SubSeq(s, 1, k), S)[i]
<1> DEFINE a == Only(SubSeq(s, 1, k), S)
           Begins(b) == /\ b \in Seq(T) /\ Len(a) <= Len(b)
                        /\ \A i \in 1 .. Len(a) : b[i] = a[i]
           d == Len(s) - k
           K == {j \in 0 .. d : Begins(Only(SubSeq(s, 1, k + j), S))}
<1>1. d \in Nat /\ k \in Nat /\ k + 0 = k /\ k + d = Len(s)
  OBVIOUS
<1>2. SubSeq(s, 1, k) \in Seq(T) /\ SubSeq(s, 1, Len(s)) = s
  OBVIOUS
<1>3. a \in Seq(T)
  BY <1>2, OnlyElements
<1>4. 0 \in K
  <2> HIDE DEF a
  <2>1. Begins(a)
    BY <1>3
  <2> HIDE DEF Begins, d
  <2> QED
    BY <1>1, <2>1 DEF a
<1>5. ASSUME NEW j \in 0 .. d - 1, j \in K PROVE j + 1 \in K
  <2> DEFINE m == k + j
             v == SubSeq(s, 1, m)
             x == s[m + 1]
             o == Only(v, S)
  <2>1. m \in 0 .. Len(s) - 1 /\ k + (j + 1) = m + 1 /\ j + 1 \in 0 .. d
    BY <1>1
  <2>2. v \in Seq(T) /\ x \in T /\ SubSeq(s, 1, m + 1) = Append(v, x)
    <3> HIDE DEF m
    <3> QED
      BY <2>1, SubSeqMore
  <2>3. Begins(o)
    <3> HIDE DEF Begins
    <3> QED
      BY <1>5
  <2> HIDE DEF v, x, m, a
  <2>4. Only(Append(v, x), S) = IF x \in S THEN Append(o, x) ELSE o
    <3>1. v \in Seq(T) /\ x \in T
      BY <2>2
    <3> QED
      BY ONLY <3>1, OnlyAppend
  <2> HIDE DEF o
  <2>5. Begins(Append(o, x))
    <3>1. /\ Append(o, x) \in Seq(T) /\ Len(Append(o, x)) = Len(o) + 1 /\ Len(o) \in Nat
          /\ \A i \in 1 .. Len(o) : Append(o, x)[i] = o[i]
      BY <2>2, <2>3
    <3>2. Len(a) \in Nat /\ \A i \in 1 .. Len(a) : i \in 1 .. Len(o)
      BY <1>3, <2>3
    <3> QED
      BY <2>3, <3>1, <3>2
  <2> HIDE DEF Begins, d
  <2>6. Begins(Only(SubSeq(s, 1, k + (j + 1)), S))
    BY <2>1, <2>2, <2>3, <2>4, <2>5
  <2> QED
    BY <2>1, <2>6
<1>6. d \in K
  <2>1. d \in 0 .. d
    BY <1>1
  <2> HIDE DEF K, d
  <2> QED
    BY <1>1, <1>4, <1>5, <2>1, Induct
<1>7. Begins(Only(s, S))
  <2> HIDE DEF Begins
  <2> QED
    BY <1>1, <1>2, <1>6
<1> QED
  BY <1>7

-----------------------------------------------------------------------------
(* The invariant of what main took. *)

Wants == {p \in Packet : Meant(p)}

\* What the first k packets have of M, and what the command f takes of it.
FirstOf(M, k) == Only(SubSeq(Packets, 1, k), M)
Final(M, f) ==
    LET meant == Only(Packets, M)
    IN  IF f.limit > 0 /\ f.app = "zip" THEN SubSeq(meant, 1, Min({f.limit, Len(meant)}))
        ELSE meant

\* While main receives, it took what the packets read so far have to offer, but
\* for the one on offer; when it stops, it took what was asked for.
Asked ==
    /\ offered # <<>> => Selected(offered[1])
    /\ flags.limit > 0 /\ flags.app = "zip" => Len(taken) <= flags.limit
    /\ Len(flags.formats) < 2 =>
        /\ mpc \in {"recv", "acquire"} => FirstOf(Wants, pos) = taken \o Only(offered, Wants)
        /\ mpc \in {"wait", "done"} => taken = Final(Wants, flags)

CountKeys == {<<p.upi, p.origin>> : p \in Packet}

Counted ==
    /\ counter \in [CountKeys -> Nat]
    /\ count \in Nat
    /\ SumFunction(counter) = count
    /\ flags.app = "cat" => count = Len(taken)

\* There are finitely many counters.
LEMMA KeysFinite == IsFiniteSet(CountKeys)
<1> DEFINE F == [p \in Packet |-> <<p.upi, p.origin>>]
<1>1. F \in Surjection(Packet, CountKeys)
  BY DEF Surjection, CountKeys
<1> HIDE DEF F
<1> QED
  BY <1>1, PacketsFinite, FS_Surjection

\* What the first packets have of a set, and one packet more.
LEMMA FirstMore ==
    ASSUME NEW M
    PROVE  /\ FirstOf(M, 0) = <<>> /\ FirstOf(M, Len(Packets)) = Only(Packets, M)
           /\ \A k \in 0 .. Len(Packets) : FirstOf(M, k) \in Seq(Packet)
           /\ \A k \in 0 .. Len(Packets) - 1 :
                 FirstOf(M, k + 1) = IF Packets[k + 1] \in M
                                     THEN Append(FirstOf(M, k), Packets[k + 1])
                                     ELSE FirstOf(M, k)
<1>0. Packets \in Seq(Packet)
  BY ExtractAssumption DEF Packet
<1>1. SubSeq(Packets, 1, 0) = <<>> /\ SubSeq(Packets, 1, Len(Packets)) = Packets
  BY <1>0
<1>2. Only(<<>>, M) = <<>>
  <2>1. FlattenSeq(<<>>) = <<>>
    BY DEF FlattenSeq
  <2>2. [i \in DOMAIN <<>> |-> IF <<>>[i] \in M THEN << <<>>[i] >> ELSE <<>>] = <<>>
    OBVIOUS
  <2> QED
    BY <2>1, <2>2 DEF Only
<1>3. ASSUME NEW k \in 0 .. Len(Packets) PROVE FirstOf(M, k) \in Seq(Packet)
  <2>1. SubSeq(Packets, 1, k) \in Seq(Packet)
    BY <1>0
  <2> QED
    BY <2>1, OnlyElements DEF FirstOf
<1>4. ASSUME NEW k \in 0 .. Len(Packets) - 1
      PROVE  FirstOf(M, k + 1) = IF Packets[k + 1] \in M
                                 THEN Append(FirstOf(M, k), Packets[k + 1])
                                 ELSE FirstOf(M, k)
  <2> DEFINE v == SubSeq(Packets, 1, k)
             x == Packets[k + 1]
  <2>1. v \in Seq(Packet) /\ x \in Packet /\ SubSeq(Packets, 1, k + 1) = Append(v, x)
    BY <1>0, SubSeqMore
  <2> HIDE DEF v, x
  <2>2. v \in Seq(Packet) /\ x \in Packet
    BY <2>1
  <2>3. Only(Append(v, x), M) = IF x \in M THEN Append(Only(v, M), x) ELSE Only(v, M)
    BY ONLY <2>2, OnlyAppend
  <2> QED
    BY <2>1, <2>3 DEF FirstOf, v, x
<1> QED
  BY <1>1, <1>2, <1>3, <1>4 DEF FirstOf

\* What is on offer is one packet or none.
LEMMA OfferOnly ==
    ASSUME NEW M, NEW p \in Packet
    PROVE  Only(<<>>, M) = <<>> /\ Only(<<p>>, M) = IF p \in M THEN <<p>> ELSE <<>>
<1> DEFINE e == <<>>
<1>1. e \in Seq(Packet) /\ Append(e, p) = <<p>>
  OBVIOUS
<1> HIDE DEF e
<1>0. e \in Seq(Packet)
  BY <1>1
<1>2. Only(Append(e, p), M) = IF p \in M THEN Append(Only(e, M), p) ELSE Only(e, M)
  BY ONLY <1>0, OnlyAppend, p \in Packet
<1>3. Only(e, M) = e
  BY ONLY <1>0, OnlyAppend, p \in Packet DEF e
<1> QED
  BY <1>1, <1>2, <1>3 DEF e

\* What was taken is what was asked for, when main stops at the limit or at the
\* end of the archive.
LEMMA TakenFinal ==
    ASSUME NEW M, NEW f \in FlagSets, NEW t \in Seq(Packet), NEW k \in 0 .. Len(Packets),
           f.limit > 0 /\ f.app = "zip" => Len(t) <= f.limit,
           \/ k = Len(Packets) /\ FirstOf(M, k) = t
           \/ /\ f.limit > 0 /\ f.app = "zip" /\ Len(t) >= f.limit
              /\ \E p \in Packet : FirstOf(M, k) = Append(t, p)
    PROVE  t = Final(M, f)
<1> DEFINE b == Only(Packets, M)
           l == f.limit
<1>0. Packets \in Seq(Packet) /\ l \in Int
  BY ExtractAssumption DEF Packet
<1>1. b \in Seq(Packet)
  BY <1>0, OnlyElements
<1>2. Final(M, f) = IF l > 0 /\ f.app = "zip" THEN SubSeq(b, 1, Min({l, Len(b)})) ELSE b
  BY DEF Final
<1>3. ASSUME NEW n \in {l, Len(b)}, \A m \in {l, Len(b)} : n <= m PROVE Min({l, Len(b)}) = n
  <2>1. Min({l, Len(b)}) \in {l, Len(b)} /\ \A m \in {l, Len(b)} : Min({l, Len(b)}) <= m
    BY <1>3 DEF Min
  <2>2. Len(b) \in Int
    BY <1>1
  <2>3. Min({l, Len(b)}) <= n /\ n <= Min({l, Len(b)}) /\ Min({l, Len(b)}) \in Int /\ n \in Int
    BY <1>0, <1>3, <2>1, <2>2
  <2> QED
    BY ONLY <2>3
<1>4. CASE k = Len(Packets) /\ FirstOf(M, k) = t
  <2>1. b = t
    BY <1>4, FirstMore
  <2>2. CASE l > 0 /\ f.app = "zip"
    <3>1. Len(b) <= l /\ Len(b) \in Int
      BY <1>1, <2>1, <2>2
    <3>2. \A m \in {l, Len(b)} : Len(b) <= m
      BY ONLY <3>1
    <3>3. Min({l, Len(b)}) = Len(b)
      BY <1>3, <3>2
    <3> HIDE DEF b
    <3>4. SubSeq(b, 1, Len(b)) = b
      BY <1>1
    <3> QED
      BY ONLY <1>2, <2>1, <2>2, <3>3, <3>4
  <2>3. CASE ~(l > 0 /\ f.app = "zip")
    BY ONLY <1>2, <2>1, <2>3
  <2> QED
    BY <2>2, <2>3
<1>5. CASE /\ l > 0 /\ f.app = "zip" /\ Len(t) >= l
           /\ \E p \in Packet : FirstOf(M, k) = Append(t, p)
  <2>1. PICK p \in Packet : FirstOf(M, k) = Append(t, p)
    BY <1>5
  <2> DEFINE a == FirstOf(M, k)
  <2>2. Len(a) <= Len(b) /\ \A i \in 1 .. Len(a) : b[i] = a[i]
    BY <1>0, OnlyPrefix DEF FirstOf
  <2> HIDE DEF a
  <2>3. Len(t) = l /\ Len(t) \in Nat
    <3>1. Len(t) \in Nat
      OBVIOUS
    <3> QED
      BY ONLY <3>1, <1>0, <1>5, f.limit > 0 /\ f.app = "zip" => Len(t) <= f.limit DEF l
  <2>4. Len(a) = Len(t) + 1 /\ \A i \in 1 .. Len(t) : a[i] = t[i]
    BY <2>1 DEF a
  <2> HIDE DEF b, l
  <2>5. Len(b) \in Nat
    BY <1>1
  <2>6. \A m \in {l, Len(b)} : l <= m
    BY ONLY <2>2, <2>3, <2>4, <2>5
  <2>7. Min({l, Len(b)}) = l
    BY <1>3, <2>6
  <2> DEFINE c == SubSeq(b, 1, l)
  <2>8. l \in 0 .. Len(b) /\ \A i \in 1 .. l : i \in 1 .. Len(a) /\ i \in 1 .. Len(t)
    BY ONLY <2>2, <2>3, <2>4, <2>5
  <2>9. c \in Seq(Packet) /\ Len(c) = l /\ \A i \in 1 .. l : c[i] = b[i]
    BY <1>1, <2>8
  <2> HIDE DEF c
  <2>10. \A i \in 1 .. Len(c) : c[i] = t[i]
    BY ONLY <2>2, <2>4, <2>8, <2>9
  <2>11. c = t
    BY ONLY <2>3, <2>9, <2>10, SameSeq, t \in Seq(Packet)
  <2> QED
    BY ONLY <1>2, <1>5, <2>7, <2>11 DEF c, l
<1> QED
  BY <1>4, <1>5 DEF l

\* At first nothing was taken.
LEMMA InitAsked == Init => Asked /\ Counted
<1> SUFFICES ASSUME Init PROVE Asked /\ Counted
  OBVIOUS
<1>1. FirstOf(Wants, pos) = <<>>
  BY FirstMore DEF Init
<1>2. Only(offered, Wants) = <<>>
  <2>1. FlattenSeq(<<>>) = <<>>
    BY DEF FlattenSeq
  <2>2. [i \in DOMAIN <<>> |-> IF <<>>[i] \in Wants THEN << <<>>[i] >> ELSE <<>>] = <<>>
    OBVIOUS
  <2> QED
    BY <2>1, <2>2 DEF Init, Only
<1>3. offered = <<>> /\ taken = <<>> /\ mpc = "recv" /\ Len(taken) = 0
  BY DEF Init
<1>4. <<>> \o <<>> = <<>>
  OBVIOUS
<1>5. flags.limit \in Int
  BY ExtractAssumption DEF Init
<1>6. Asked
  BY <1>1, <1>2, <1>3, <1>4, <1>5 DEF Asked
<1>7. counter = [k \in CountKeys |-> 0] /\ count = 0
  BY DEF Init, CountKeys
<1>8. SumFunction(counter) = 0
  BY <1>7, KeysFinite, SumCounts
<1>9. Counted
  BY <1>3, <1>7, <1>8 DEF Counted
<1> QED
  BY <1>6, <1>9

\* What the flags ask for does not change.
LEMMA SameWants ==
    ASSUME flags' = flags
    PROVE  Wants' = Wants /\ \A p : Selected(p)' <=> Selected(p)
BY DEF Wants, Meant, Selected

\* A step that leaves the reader's and main's state alone.
LEMMA AskedIdle ==
    ASSUME Asked, Counted, UNCHANGED <<flags, pos, offered, mpc, taken, counter, count>>
    PROVE  Asked' /\ Counted'
BY SameWants DEF Asked, Counted

\* The reader goes on to the next packet.
LEMMA ReadAsked ==
    ASSUME Bounded, Asked, Counted, Read
    PROVE  Asked' /\ Counted'
<1> DEFINE p == Packets[pos + 1]
           M == Wants
<1>0. /\ offered = <<>> /\ pos < Len(Packets) /\ pos' = pos + 1
      /\ offered' = IF Selected(p) THEN <<p>> ELSE <<>>
      /\ UNCHANGED <<flags, mpc, taken, counter, count>>
  BY DEF Read
<1>1. pos \in 0 .. Len(Packets) - 1 /\ p \in Packet /\ taken \in Seq(Packet)
  <2>1. pos \in 0 .. Len(Packets) /\ Len(Packets) \in Nat /\ taken \in Seq(Packet)
    BY PacketsFinite DEF Bounded, Typed
  <2>2. pos + 1 \in 1 .. Len(Packets) /\ pos \in 0 .. Len(Packets) - 1
    BY <1>0, <2>1
  <2> QED
    BY <2>1, <2>2, PacketsFinite
<1>2. Wants' = M /\ \A q : Selected(q)' <=> Selected(q)
  BY <1>0, SameWants
<1>3. FirstOf(M, pos + 1) = IF p \in M THEN Append(FirstOf(M, pos), p) ELSE FirstOf(M, pos)
  BY <1>1, FirstMore
<1>4. Only(<<>>, M) = <<>> /\ Only(<<p>>, M) = IF p \in M THEN <<p>> ELSE <<>>
  BY <1>1, OfferOnly
<1>5. (offered # <<>> => Selected(offered[1]))'
  <2>1. CASE Selected(p)
    <3>1. offered'[1] = p
      BY <1>0, <2>1
    <3> HIDE DEF p
    <3> QED
      BY ONLY <1>0, <2>1, <3>1 DEF Selected
  <2>2. CASE ~Selected(p)
    BY <1>0, <2>2
  <2> QED
    BY <2>1, <2>2
<1>6. ASSUME Len(flags.formats) < 2, mpc \in {"recv", "acquire"}
      PROVE  FirstOf(M, pos + 1) = taken \o Only(offered', M)
  <2> DEFINE o == FirstOf(M, pos)
  <2>1. o = taken
    <3>1. o = taken \o Only(offered, M)
      BY <1>6 DEF Asked
    <3>2. taken \o <<>> = taken
      BY <1>1
    <3> QED
      BY <1>0, <1>4, <3>1, <3>2
  <2>2. p \in M <=> Selected(p) /\ flags.upi \in {"", p.upi}
    <3>1. p \in M <=> Meant(p)
      BY <1>1 DEF Wants
    <3>2. Meant(p) <=> Selected(p) /\ flags.upi \in {"", p.upi}
      BY <1>1, <1>6, SelectedMeans DEF Bounded
    <3> QED
      BY ONLY <3>1, <3>2
  <2>3. taken \o <<>> = taken /\ taken \o <<p>> = Append(taken, p)
    BY <1>1, SingleLast
  <2> HIDE DEF o, M, p
  <2>4. CASE p \in M
    BY <1>0, <1>3, <1>4, <2>1, <2>2, <2>3, <2>4 DEF o
  <2>5. CASE p \notin M
    BY <1>0, <1>3, <1>4, <2>1, <2>3, <2>5 DEF o
  <2> QED
    BY <2>4, <2>5
<1>7. Asked'
  BY <1>0, <1>2, <1>5, <1>6 DEF Asked
<1>8. Counted'
  BY <1>0 DEF Counted
<1> QED
  BY <1>7, <1>8

\* The packet on offer.
LEMMA OnOffer ==
    ASSUME Bounded, Asked, offered # <<>>
    PROVE  /\ pos \in 0 .. Len(Packets) /\ taken \in Seq(Packet)
           /\ offered[1] \in Packet /\ offered = <<offered[1]>>
           /\ Len(flags.formats) < 2 /\ mpc \in {"recv", "acquire"} =>
                 IF flags.upi \in {"", offered[1].upi}
                 THEN FirstOf(Wants, pos) = Append(taken, offered[1])
                 ELSE FirstOf(Wants, pos) = taken
<1>1. pos \in 1 .. Len(Packets) /\ offered = <<Packets[pos]>> /\ taken \in Seq(Packet)
  BY DEF Bounded, Taken, Typed
<1> DEFINE p == offered[1]
<1>2. p = Packets[pos] /\ offered = <<p>>
  BY <1>1
<1>3. p \in Packet /\ pos \in 0 .. Len(Packets)
  BY <1>1, <1>2, PacketsFinite
<1>4. Selected(p)
  BY DEF Asked
<1> HIDE DEF p
<1>5. ASSUME Len(flags.formats) < 2, mpc \in {"recv", "acquire"}
      PROVE  IF flags.upi \in {"", p.upi} THEN FirstOf(Wants, pos) = Append(taken, p)
             ELSE FirstOf(Wants, pos) = taken
  <2>1. FirstOf(Wants, pos) = taken \o Only(<<p>>, Wants)
    BY <1>2, <1>5 DEF Asked
  <2>2. Only(<<p>>, Wants) = IF p \in Wants THEN <<p>> ELSE <<>>
    BY <1>3, OfferOnly
  <2>3. p \in Wants <=> flags.upi \in {"", p.upi}
    <3>1. p \in Wants <=> Meant(p)
      BY <1>3 DEF Wants
    <3>2. Meant(p) <=> Selected(p) /\ flags.upi \in {"", p.upi}
      BY <1>3, <1>5, SelectedMeans DEF Bounded
    <3> QED
      BY ONLY <1>4, <3>1, <3>2
  <2>4. taken \o <<>> = taken /\ taken \o <<p>> = Append(taken, p)
    BY <1>1, <1>3, SingleLast
  <2> QED
    BY ONLY <2>1, <2>2, <2>3, <2>4
<1> QED
  BY <1>1, <1>2, <1>3, <1>5 DEF p

\* vmucat counts the packet on offer, or not.
LEMMA CountAsked ==
    ASSUME Bounded, Asked, Counted, CountPacket
    PROVE  Asked' /\ Counted'
<1> DEFINE p == offered[1]
           k == <<p.upi, p.origin>>
<1>0. /\ flags.app = "cat" /\ mpc = "recv" /\ offered # <<>> /\ offered' = <<>>
      /\ flags' = flags /\ pos' = pos /\ mpc' = mpc
  BY DEF CountPacket
<1>1. /\ p \in Packet /\ taken \in Seq(Packet)
      /\ Len(flags.formats) < 2 =>
            IF flags.upi \in {"", p.upi} THEN FirstOf(Wants, pos) = Append(taken, p)
            ELSE FirstOf(Wants, pos) = taken
  BY <1>0, OnOffer
<1>2. IF flags.upi \in {"", p.upi}
      THEN /\ counter' = [counter EXCEPT ![k] = @ + 1] /\ count' = count + 1
           /\ taken' = Append(taken, p)
      ELSE counter' = counter /\ count' = count /\ taken' = taken
  BY DEF CountPacket
<1>3. k \in CountKeys
  BY <1>1 DEF CountKeys
<1> HIDE DEF p, k
<1>4. Wants' = Wants
  BY <1>0, SameWants
<1>5. taken' \in Seq(Packet) /\ taken' \o <<>> = taken' /\ Len(Append(taken, p)) = Len(taken) + 1
  <2> DEFINE a == Append(taken, p)
  <2>1. p \in Packet /\ taken \in Seq(Packet)
    BY <1>1
  <2>2. a \in Seq(Packet) /\ a \o <<>> = a /\ taken \o <<>> = taken /\ Len(a) = Len(taken) + 1
    BY ONLY <2>1
  <2>3. taken' = a \/ taken' = taken
    BY <1>2
  <2> HIDE DEF a
  <2> QED
    BY ONLY <2>1, <2>2, <2>3 DEF a
<1>6. Only(<<>>, Wants) = <<>>
  BY <1>1, OfferOnly
<1>7. Len(flags.formats) < 2 => FirstOf(Wants, pos) = taken' \o Only(<<>>, Wants)
  BY ONLY <1>1, <1>2, <1>5, <1>6
<1>8. Asked'
  BY <1>0, <1>4, <1>7 DEF Asked
<1>9. Counted'
  <2>1. CASE flags.upi \in {"", p.upi}
    <3>1. counter' = [counter EXCEPT ![k] = @ + 1] /\ count' = count + 1
          /\ taken' = Append(taken, p)
      BY <1>2, <2>1
    <3>2. counter \in [CountKeys -> Nat] /\ count \in Nat /\ SumFunction(counter) = count
          /\ count = Len(taken)
      BY <1>0 DEF Counted
    <3>3. counter' \in [CountKeys -> Nat]
      BY <1>3, <3>1, <3>2
    <3>4. SumFunction([counter EXCEPT ![k] = @ + 1]) = SumFunction(counter) + 1
      BY <1>3, <3>2, KeysFinite, SumCounts
    <3>5. Len(taken') = Len(taken) + 1
      BY ONLY <1>5, <3>1
    <3>6. SumFunction(counter)' = count' /\ count' \in Nat /\ count' = Len(taken')
      BY <3>1, <3>2, <3>4, <3>5
    <3> QED
      BY <3>3, <3>6, <1>0 DEF Counted
  <2>2. CASE flags.upi \notin {"", p.upi}
    BY <1>0, <1>2, <2>2 DEF Counted
  <2> QED
    BY <2>1, <2>2
<1> QED
  BY <1>8, <1>9

\* vmuzip takes the packet on offer, or stops at the limit.
LEMMA RecvAsked ==
    ASSUME Bounded, Asked, Counted, Recv
    PROVE  Asked' /\ Counted'
<1> DEFINE p == offered[1]
           M == Wants
<1>0. /\ flags.app = "zip" /\ mpc = "recv" /\ offered # <<>> /\ offered' = <<>>
      /\ UNCHANGED <<flags, pos, counter, count>>
      /\ IF AtLimit THEN mpc' = "wait" /\ taken' = taken
                    ELSE mpc' = "acquire" /\ taken' = Append(taken, p)
  BY DEF Recv
<1>1. flags \in FlagSets /\ flags.upi = "" /\ flags.limit \in Int
  BY <1>0, ExtractAssumption DEF Bounded, Typed
<1>2. /\ p \in Packet /\ taken \in Seq(Packet) /\ pos \in 0 .. Len(Packets)
      /\ Len(flags.formats) < 2 => FirstOf(M, pos) = Append(taken, p)
  BY <1>0, <1>1, OnOffer
<1>3. Wants' = M
  BY <1>0, SameWants
<1> HIDE DEF p, M
<1>4. Len(taken) \in Nat /\ (flags.limit > 0 => Len(taken) <= flags.limit)
  BY <1>0, <1>2 DEF Asked
<1>5. Counted'
  BY <1>0 DEF Counted
<1>6. CASE AtLimit
  <2>1. flags.limit > 0 /\ Len(taken) >= flags.limit
    BY <1>6 DEF AtLimit
  <2>2. ASSUME Len(flags.formats) < 2 PROVE taken = Final(M, flags)
    <3>1. \E q \in Packet : FirstOf(M, pos) = Append(taken, q)
      BY <1>2, <2>2
    <3> QED
      BY <1>0, <1>1, <1>2, <1>4, <2>1, <3>1, TakenFinal
  <2>3. Asked'
    BY <1>0, <1>3, <1>4, <1>6, <2>2 DEF Asked
  <2> QED
    BY <1>5, <2>3
<1>7. CASE ~AtLimit
  <2> DEFINE l == flags.limit
             n == Len(taken)
  <2>1. l \in Int /\ n \in Nat /\ ~(l > 0 /\ n >= l)
    BY <1>1, <1>4, <1>7 DEF AtLimit
  <2>2. /\ mpc' = "acquire" /\ taken' = Append(taken, p) /\ Len(taken') = Len(taken) + 1
        /\ taken' \o <<>> = taken'
    BY <1>0, <1>2, <1>7
  <2>3. flags.limit > 0 => Len(taken') <= flags.limit
    <3> HIDE DEF l, n
    <3>1. l > 0 => n + 1 <= l
      BY ONLY <2>1
    <3> QED
      BY ONLY <2>2, <3>1 DEF l, n
  <2>4. Only(<<>>, M) = <<>>
    BY <1>2, OfferOnly
  <2>5. Len(flags.formats) < 2 => FirstOf(M, pos) = taken' \o Only(<<>>, M)
    BY ONLY <1>2, <2>2, <2>4
  <2>6. Asked'
    BY <1>0, <1>3, <2>2, <2>3, <2>5 DEF Asked
  <2> QED
    BY <1>5, <2>6
<1> QED
  BY <1>6, <1>7

\* The archive is read to its end.
LEMMA ClosedAsked ==
    ASSUME Bounded, Asked, Counted, RecvClosed
    PROVE  Asked' /\ Counted'
<1> DEFINE M == Wants
<1>0. /\ mpc = "recv" /\ offered = <<>> /\ pos = Len(Packets) /\ mpc' = "wait"
      /\ UNCHANGED <<flags, pos, offered, taken, counter, count>>
  BY DEF RecvClosed
<1>1. flags \in FlagSets /\ taken \in Seq(Packet) /\ pos \in 0 .. Len(Packets)
  BY DEF Bounded, Typed
<1>2. Wants' = M
  BY <1>0, SameWants
<1>3. Only(<<>>, M) = <<>>
  <2>1. FlattenSeq(<<>>) = <<>>
    BY DEF FlattenSeq
  <2>2. [i \in DOMAIN <<>> |-> IF <<>>[i] \in M THEN << <<>>[i] >> ELSE <<>>] = <<>>
    OBVIOUS
  <2> QED
    BY <2>1, <2>2 DEF Only
<1>4. ASSUME Len(flags.formats) < 2 PROVE taken = Final(M, flags)
  <2>1. FirstOf(M, pos) = taken \o <<>>
    BY <1>0, <1>3, <1>4 DEF Asked
  <2>2. taken \o <<>> = taken
    BY <1>1
  <2>3. pos = Len(Packets) /\ FirstOf(M, pos) = taken
    BY <1>0, <2>1, <2>2
  <2>4. flags.limit > 0 /\ flags.app = "zip" => Len(taken) <= flags.limit
    BY DEF Asked
  <2> HIDE DEF M
  <2> QED
    BY ONLY <1>1, <2>3, <2>4, TakenFinal
<1> HIDE DEF M
<1>5. Asked'
  BY <1>0, <1>2, <1>4 DEF Asked
<1> QED
  BY <1>0, <1>5 DEF Counted

\* The invariant is kept by every step.
LEMMA NextAsked == Bounded /\ Asked /\ Counted /\ [Next]_vars => Asked' /\ Counted'
<1> SUFFICES ASSUME Bounded, Asked, Counted, [Next]_vars PROVE Asked' /\ Counted'
  OBVIOUS
<1>1. CASE Reader
  <2>1. CASE Read
    BY <2>1, ReadAsked
  <2>2. CASE ReadFails
    <3>1. mpc' = "fatal" /\ UNCHANGED <<flags, pos, offered, taken, counter, count>>
      BY <2>2 DEF ReadFails
    <3> QED
      BY <3>1, SameWants DEF Asked, Counted
  <2> QED
    BY <1>1, <2>1, <2>2 DEF Reader
<1>2. CASE Main
  <2>1. CASE Acquire
    <3>1. /\ mpc = "acquire" /\ mpc' = "recv"
          /\ UNCHANGED <<flags, pos, offered, taken, counter, count>>
      BY <2>1 DEF Acquire
    <3> QED
      BY <3>1, SameWants DEF Asked, Counted
  <2>2. CASE AllAsleep
    <3>1. mpc' = "asleep" /\ UNCHANGED <<flags, pos, offered, taken, counter, count>>
      BY <2>2 DEF AllAsleep
    <3> QED
      BY <3>1, SameWants DEF Asked, Counted
  <2>3. CASE Return
    <3>1. /\ mpc = "wait" /\ mpc' = "done"
          /\ UNCHANGED <<flags, pos, offered, taken, counter, count>>
      BY <2>3 DEF Return
    <3> QED
      BY <3>1, SameWants DEF Asked, Counted
  <2> QED
    BY <1>2, <2>1, <2>2, <2>3, CountAsked, RecvAsked, ClosedAsked DEF Main
<1>3. CASE \E p \in Packet : Worker(p)
  <2>1. PICK p \in Packet : Worker(p)
    BY <1>3
  <2>2. UNCHANGED <<flags, pos, offered, mpc, taken, counter, count>>
    BY <2>1 DEF Worker, CreateFile, CreateFails, Export, ExportFails
  <2> QED
    BY <2>2, AskedIdle
<1>4. CASE Ended \/ UNCHANGED vars
  <2>1. UNCHANGED <<flags, pos, offered, mpc, taken, counter, count>>
    BY <1>4 DEF Ended, vars
  <2> QED
    BY <2>1, AskedIdle
<1> QED
  BY <1>1, <1>2, <1>3, <1>4 DEF Next

\* vmuzip and vmucat take exactly the packets that the flags ask for, in their
\* order, up to the limit, with the binary searches of the filter and the limit of
\* main's loop, and vmucat counts them: src/cmd/vmuzip/vmuzip.go, main and Packets.
THEOREM SelectsExactly == Spec => []SelectedExact
<1>1. Bounded /\ Asked /\ Counted => SelectedExact
  <2> SUFFICES ASSUME Bounded, Asked, Counted PROVE SelectedExact
    OBVIOUS
  <2>1. ASSUME mpc = "done", Len(flags.formats) < 2 PROVE taken = Final(Wants, flags)
    BY <2>1 DEF Asked
  <2>2. Final(Wants, flags) =
            LET meant == Only(Packets, {p \in Packet : Meant(p)})
            IN  IF flags.limit > 0 /\ flags.app = "zip"
                THEN SubSeq(meant, 1, Min({flags.limit, Len(meant)})) ELSE meant
    BY Zenon DEF Final, Wants
  <2> QED
    BY <2>1, <2>2 DEF SelectedExact, Counted
<1>2. Init => Bounded /\ Asked /\ Counted
  BY InitBounded, InitAsked
<1>3. Bounded /\ Asked /\ Counted /\ [Next]_vars => (Bounded /\ Asked /\ Counted)'
  BY NextBounded, NextAsked
<1> QED
  BY <1>1, <1>2, <1>3, PTL DEF Spec

=============================================================================
