------------------------------ MODULE Extract -------------------------------
(***************************************************************************)
(* The two commands that read an HRDP archive: vmuzip exports its packets  *)
(* to files, with a goroutine per packet and a semaphore, and vmucat lists *)
(* and counts them.  In both a goroutine reads and filters the packets and *)
(* hands them to main over an unbuffered channel.                          *)
(*                                                                         *)
(* A packet has fields id, name, dir (of its channel, format and time),    *)
(* format, channel, realtime, origin and upi.  Formats and channels are    *)
(* numbers, in the order in which the code compares them.                  *)
(***************************************************************************)
EXTENDS Search, Lists, Integers, FiniteSets, FiniteSetsExt

CONSTANTS
    Packets,        \* packets of the archive, a sequence
    FlagSets,       \* the command lines: see Selected and the actions
    MaxFaults       \* bound: reads, system calls and exports that fail

ASSUME ExtractAssumption ==
    /\ MaxFaults \in Nat
    /\ Packets \in Seq(ToSet(Packets))
    /\ IsInjective(Packets)
    /\ \A p \in ToSet(Packets) : p.format \in Int /\ p.channel \in Int
    /\ \A f \in FlagSets :
        /\ f.parallel \in Int /\ f.limit \in Int
        /\ f.formats \in Seq(Int) /\ f.channels \in Seq(Int)
        /\ f.app \in {"zip", "cat"}
        /\ f.app = "zip" => f.upi = ""     \* vmuzip has no such flag

VARIABLES
    flags,          \* command line
    pos,            \* packets read from the archive
    offered,        \* the packet the reader is sending, a sequence
    mpc,            \* main: "recv", "acquire", "wait", "done", "fatal", "asleep"
    taken,          \* packets main took, in order
    sema,           \* elements of the semaphore
    work,           \* work[p]: step of the goroutine of packet p
    unlinked,       \* packets whose open file was removed by another goroutine
    rivals,         \* rivals[p]: those of the same name exported beside p or later
    disk,           \* disk[path]: packets written to the file, since created
    failed,         \* packets that were not exported, with an error
    counter,        \* counter[<<upi, origin>>]: packets counted by vmucat
    count,          \* packets counted by vmucat
    faults          \* faults so far

vars == <<flags, pos, offered, mpc, taken, sema, work, unlinked, rivals, disk, failed,
          counter, count, faults>>

Packet == ToSet(Packets)

Init ==
    /\ flags \in FlagSets
    /\ pos = 0
    /\ offered = <<>>
    /\ mpc = "recv"
    /\ taken = <<>>
    /\ sema = 0
    /\ work = [p \in Packet |-> "none"]
    /\ unlinked = {}
    /\ rivals = [p \in Packet |-> {}]
    /\ disk = <<>>
    /\ failed = {}
    /\ counter = [k \in {<<p.upi, p.origin>> : p \in Packet} |-> 0]
    /\ count = 0
    /\ faults = 0

Fault == faults < MaxFaults /\ faults' = faults + 1
Over == mpc \in {"done", "fatal", "asleep"}

-----------------------------------------------------------------------------
(* Packets: the goroutine that reads. *)

\* Fault: the channels are sorted like the formats.
SetChannelsUp(cs) == SortedUp(cs)

SetChannels(cs) == SortedDown(cs)
SetFormats(fs) == SortedUp(fs)

\* Both lists are searched as descending ones; the formats are ascending.
Listed(vs, x) == vs = <<>> \/ FoundDescending(vs, x)

Selected(p) ==
    /\ Listed(SetFormats(flags.formats), p.format)
    /\ Listed(SetChannels(flags.channels), p.channel)
    /\ flags.src = "" \/ flags.src = p.origin
    /\ flags.mode = "realtime" => p.realtime
    /\ flags.mode = "playback" => ~p.realtime

\* The next packet: one that passes is offered to main.
Read ==
    /\ ~Over
    /\ offered = <<>>
    /\ pos < Len(Packets)
    /\ pos' = pos + 1
    /\ offered' = IF Selected(Packets[pos']) THEN <<Packets[pos']>> ELSE <<>>
    /\ UNCHANGED <<flags, rivals, mpc, taken, sema, work, unlinked, disk, failed, counter,
                   count, faults>>

\* A packet cannot be read: log.Fatalln, whatever the goroutines are doing.
ReadFails ==
    /\ ~Over
    /\ offered = <<>>
    /\ pos < Len(Packets)
    /\ Fault
    /\ mpc' = "fatal"
    /\ UNCHANGED <<flags, rivals, pos, offered, taken, sema, work, unlinked, disk, failed,
                   counter, count>>

-----------------------------------------------------------------------------
(* main of vmucat. *)

CountPacket ==
    /\ flags.app = "cat"
    /\ mpc = "recv"
    /\ offered # <<>>
    /\ LET p == offered[1]
       IN  IF flags.upi = "" \/ flags.upi = p.upi
           THEN /\ counter' = [counter EXCEPT ![<<p.upi, p.origin>>] = @ + 1]
                /\ count' = count + 1
                /\ taken' = Append(taken, p)
           ELSE UNCHANGED <<counter, count, taken>>
    /\ offered' = <<>>
    /\ UNCHANGED <<flags, rivals, pos, mpc, sema, work, unlinked, disk, failed, faults>>

-----------------------------------------------------------------------------
(* main of vmuzip. *)

AtLimit == flags.limit > 0 /\ Len(taken) >= flags.limit

\* main takes a packet; at the limit it leaves the reader where it is.
Recv ==
    /\ flags.app = "zip"
    /\ mpc = "recv"
    /\ offered # <<>>
    /\ offered' = <<>>
    /\ IF AtLimit THEN mpc' = "wait" /\ UNCHANGED taken
                  ELSE mpc' = "acquire" /\ taken' = Append(taken, offered[1])
    /\ UNCHANGED <<flags, rivals, pos, sema, work, unlinked, disk, failed, counter, count,
                   faults>>

\* The channel is closed: wg.Wait in vmuzip, the report in vmucat.
RecvClosed ==
    /\ mpc = "recv"
    /\ offered = <<>>
    /\ pos = Len(Packets)
    /\ mpc' = "wait"
    /\ UNCHANGED <<flags, rivals, pos, offered, taken, sema, work, unlinked, disk, failed,
                   counter, count, faults>>

\* A negative number of workers is taken for 0.
Capacity == Max({flags.parallel, 0})

\* Fault: the goroutine is started without an element of the semaphore.
FreeSlotAlways == TRUE

FreeSlot == sema < Capacity

PathOf(p, suffix) == <<IF flags.flat THEN "" ELSE p.dir, p.name, suffix>>

\* The other packets that are exported to the file of p.
Namesakes(p) == {q \in Packet \ {p} : PathOf(q, "") = PathOf(p, "")}

\* Packets that are being exported.
Active == {p \in Packet : work[p] \notin {"none", "end"}}

\* Bookkeeping: p is started beside those that are being exported, and is a rival
\* of those before it.
Rivals(p) ==
    [q \in Packet |-> IF q = p THEN Namesakes(p) \cap Active
                      ELSE IF q \in Namesakes(p) THEN rivals[q] \cup {p} ELSE rivals[q]]

\* A goroutine is started once there is room in the semaphore.
Acquire ==
    /\ mpc = "acquire"
    /\ FreeSlot
    /\ sema' = sema + 1
    /\ mpc' = "recv"
    /\ work' = [work EXCEPT ![Last(taken)] = "mkdir"]
    /\ rivals' = Rivals(Last(taken))
    /\ UNCHANGED <<flags, pos, offered, taken, unlinked, disk, failed, counter, count,
                   faults>>

\* A semaphore without room and nobody to leave it: the runtime finds all
\* goroutines asleep.
AllAsleep ==
    /\ mpc = "acquire"
    /\ ~FreeSlot
    /\ \A p \in Packet : work[p] \in {"none", "end"}
    /\ offered # <<>> \/ pos = Len(Packets)
    /\ mpc' = "asleep"
    /\ UNCHANGED <<flags, rivals, pos, offered, taken, sema, work, unlinked, disk, failed,
                   counter, count, faults>>

\* Fault: main does not wait for the last goroutines.
WorkersDoneNever == TRUE

WorkersDone == \A p \in Packet : work[p] \in {"none", "end"}

Return ==
    /\ mpc = "wait"
    /\ WorkersDone
    /\ mpc' = "done"
    /\ UNCHANGED <<flags, rivals, pos, offered, taken, sema, work, unlinked, disk, failed,
                   counter, count, faults>>

-----------------------------------------------------------------------------
(* The goroutine of a packet. *)

\* The file it writes now: the packet, and then the raw data.
Suffix(p) == IF work[p] \in {"raw", "exportraw"} THEN ".raw" ELSE ""
Path(p) == PathOf(p, Suffix(p))

\* It returns, and leaves the semaphore.
Leave(p) ==
    /\ work' = [work EXCEPT ![p] = "end"]
    /\ sema' = sema - 1

\* What follows the file it has closed.
AfterFile(p) ==
    IF flags.raw /\ work[p] = "export"
    THEN work' = [work EXCEPT ![p] = "raw"] /\ UNCHANGED sema
    ELSE Leave(p)

\* os.MkdirAll and os.Create; either may fail, and the goroutine returns.
CreateFile(p) ==
    /\ ~Over
    /\ work[p] \in {"mkdir", "raw"}
    /\ disk' = [f \in DOMAIN disk \cup {Path(p)} |-> IF f = Path(p) THEN {} ELSE disk[f]]
    /\ work' = [work EXCEPT ![p] = IF @ = "mkdir" THEN "export" ELSE "exportraw"]
    /\ unlinked' = unlinked \ {p}
    /\ UNCHANGED <<flags, rivals, pos, offered, mpc, taken, sema, failed, counter, count, faults>>

\* Fault: the error leaves out the semaphore.
CreateFailsHolds(p) ==
    /\ ~Over
    /\ work[p] \in {"mkdir", "raw"}
    /\ Fault
    /\ failed' = failed \cup {p}
    /\ work' = [work EXCEPT ![p] = "end"]
    /\ UNCHANGED <<flags, rivals, pos, offered, mpc, taken, sema, unlinked, disk, counter, count>>

CreateFails(p) ==
    /\ ~Over
    /\ work[p] \in {"mkdir", "raw"}
    /\ Fault
    /\ failed' = failed \cup {p}
    /\ Leave(p)
    /\ UNCHANGED <<flags, rivals, pos, offered, mpc, taken, unlinked, disk, counter, count>>

\* Export or ExportRaw writes the file.
Export(p) ==
    /\ ~Over
    /\ work[p] \in {"export", "exportraw"}
    /\ disk' = IF p \in unlinked THEN disk
               ELSE [disk EXCEPT ![Path(p)] = @ \cup {p}]
    /\ AfterFile(p)
    /\ UNCHANGED <<flags, rivals, pos, offered, mpc, taken, unlinked, failed, counter, count,
                   faults>>

\* os.Remove of the name, which may be another goroutine's file by now.
Removed(p) == [f \in DOMAIN disk \ {Path(p)} |-> disk[f]]

ExportFails(p) ==
    /\ ~Over
    /\ work[p] \in {"export", "exportraw"}
    /\ Fault
    /\ failed' = failed \cup {p}
    /\ disk' = Removed(p)
    /\ unlinked' = unlinked \cup {q \in Packet \ {p} : work[q] \in {"export", "exportraw"}
                                                        /\ Path(q) = Path(p)}
    /\ AfterFile(p)
    /\ UNCHANGED <<flags, rivals, pos, offered, mpc, taken, counter, count>>

-----------------------------------------------------------------------------
Ended == Over /\ UNCHANGED vars

Worker(p) == CreateFile(p) \/ CreateFails(p) \/ Export(p) \/ ExportFails(p)
Main == CountPacket \/ Recv \/ RecvClosed \/ Acquire \/ AllAsleep \/ Return
Reader == Read \/ ReadFails

Next == Reader \/ Main \/ (\E p \in Packet : Worker(p)) \/ Ended

\* Goroutines that can run do run.
Spec ==
    /\ Init
    /\ [][Next]_vars
    /\ WF_vars(Reader)
    /\ WF_vars(Main)
    /\ \A p \in Packet : WF_vars(Worker(p))

-----------------------------------------------------------------------------
(* Properties. *)

\* The goroutines that hold a file open are never more than the semaphore has
\* room for.
WorkersBounded == Cardinality(Active) <= Capacity

\* When vmuzip ends, every packet it took is whole and alone in its file, and so
\* is its raw data when asked for, unless its export failed or a packet of the
\* same name was exported beside it or later, which overwrites it.  A file is
\* missing only if an export to it failed, none is empty, and the packets that
\* share a file were exported beside each other.
ExportedWhole ==
    flags.app = "zip" /\ mpc = "done" =>
        /\ \A f \in DOMAIN disk : disk[f] # {} /\ \A p, q \in disk[f] : p = q \/ p \in rivals[q]
        /\ \A p \in ToSet(taken), s \in {""} \cup (IF flags.raw THEN {".raw"} ELSE {}) :
            /\ p \notin failed /\ rivals[p] = {} =>
                  PathOf(p, s) \in DOMAIN disk /\ disk[PathOf(p, s)] = {p}
            /\ failed \cap ({p} \cup Namesakes(p)) = {} => PathOf(p, s) \in DOMAIN disk

\* What the flags mean, as sets.
Meant(p) ==
    /\ flags.formats = <<>> \/ p.format \in ToSet(flags.formats)
    /\ flags.channels = <<>> \/ p.channel \in ToSet(flags.channels)
    /\ flags.src \in {"", p.origin}
    /\ flags.upi \in {"", p.upi}
    /\ flags.mode = "realtime" => p.realtime
    /\ flags.mode = "playback" => ~p.realtime

\* Without an error, the packets that were exported or counted are the first
\* of those the flags ask for, up to the limit, in the order of the archive, and
\* the counters of vmucat add up to their number.
\* The list of formats must not have two elements: it is sorted one way and
\* searched the other way.
SelectedExact ==
    /\ mpc = "done" /\ Len(flags.formats) < 2 =>
        LET meant == Only(Packets, {p \in Packet : Meant(p)})
        IN  taken = IF flags.limit > 0 /\ flags.app = "zip"
                    THEN SubSeq(meant, 1, Min({flags.limit, Len(meant)}))
                    ELSE meant
    /\ SumFunction(counter) = count
    /\ mpc = "done" /\ flags.app = "cat" => count = Len(taken)

\* Both commands end, whatever is slow or fails, if there is at least one
\* worker.
Terminates ==
    flags.app = "cat" \/ flags.parallel > 0 => <>(mpc \in {"done", "fatal"})
=============================================================================
