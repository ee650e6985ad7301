------------------------------ MODULE Archive -------------------------------
(***************************************************************************)
(* The storages of the listen command, set up by setupStorage and called   *)
(* one after the other by Multistore.Store, and the rolling files of two   *)
(* of the three kinds: the tar archives and the files in the format of the *)
(* HRDP archive (what a storage of files writes is in FileStore).  Files   *)
(* are named after the second in which they are opened.  The roller of     *)
(* package roll closes a file and opens the next one on conditions of its  *)
(* own; writes fail, and the process crashes and is started again.         *)
(***************************************************************************)
EXTENDS Paths, Search, Vmu, FiniteSets

CONSTANTS
    Configs,        \* configurations: sequences of options of a storage
    Packets,        \* the packets a client may send, with any id
    MaxPackets,     \* bound: packets
    MaxTime,        \* bound: seconds
    MaxRolls,       \* bound: rotations
    MaxFaults       \* bound: failed system calls and crashes

\* The options of a storage, and a packet; its id says when it was stored.  A
\* format stands for all its spellings in small and capital letters.
Option ==
    [scheme : STRING, format : STRING, located : BOOLEAN,
     control : [type : STRING, accept : Seq(Nat), reject : Seq(Nat)]]
Packet ==
    [kind : STRING, version : Nat, channel : Nat, origin : Nat, instance : Nat,
     realtime : BOOLEAN, head : Seq(Nat), body : Seq(Nat), id : Nat]

\* External: panda decodes the science channel to tables, the videos to images.
OfChannel(p) ==
    /\ p.channel = Science => p.kind = "table"
    /\ p.channel \in Videos => p.kind = "image"

ASSUME ArchiveAssumption ==
    /\ \A os \in Configs : os \in Seq(Option)
    /\ Packets \subseteq Packet
    /\ \A p \in Packets : OfChannel(p)
    /\ {MaxPackets, MaxTime, MaxRolls, MaxFaults} \subseteq Nat

VARIABLES
    options,        \* configuration
    pc,             \* "down", "aborted", "idle", "store" or "meta"
    at,             \* number of the storage Multistore.Store is calling
    pkt,            \* packet being stored (any packet when idle)
    err,            \* a storage called before returned an error
    now,            \* second
    rollers,        \* rollers[<<storage, key>>]: name of the open file
    files,          \* files[<<storage, key, name>>]: what was written
    returned,       \* <<packet, error>> of every return of Multistore.Store
    failed,         \* <<storage, packet>> for which the storage failed
    lost,           \* <<storage, packet>> lost without an error: written to a
                    \* file that was created anew, or not written
    sent,           \* packets so far
    rolls,          \* rotations so far
    faults          \* faults so far

archiveVars == <<options, pc, at, pkt, err, now, rollers, files, returned,
                 failed, lost, sent, rolls, faults>>

\* The type and the format of a storage have two names each.
Scheme(s) == IF s = "archive" THEN "tar" ELSE s
Format(f) == IF f = "hrdp" THEN "vmu" ELSE IF f = "hadock" THEN "hdk" ELSE f
Made(o) == [o EXCEPT !.scheme = Scheme(o.scheme), !.format = Format(o.format)]

\* The storages of a configuration: one without a type is left out.
Stores(os) ==
    FlattenSeq([n \in DOMAIN os |-> IF os[n].scheme = "" THEN <<>> ELSE <<Made(os[n])>>])
stores == Stores(options)

\* Storage o is set up without an error.
Usable(o) ==
    /\ o.scheme \in {"hrdp", "tar", "file"}
    /\ o.located
    /\ o.scheme = "hrdp" => o.format \in {"vmu", "hdk"}

ArchiveInit ==
    /\ options \in Configs
    /\ pc = "down"
    /\ at = 1
    /\ pkt = [id |-> 0]
    /\ err = FALSE
    /\ now = 0
    /\ rollers = <<>>
    /\ files = <<>>
    /\ returned = {}
    /\ failed = {}
    /\ lost = {}
    /\ sent = 0
    /\ rolls = 0
    /\ faults = 0

-----------------------------------------------------------------------------
(* Opening files. *)

Put(f, x, v) == [y \in DOMAIN f \cup {x} |-> IF y = x THEN v ELSE f[y]]

\* Fault: names do not tell the seconds apart.
FileNameCoarse == now - (now % 2)

\* hdk_150405 in the directory of the year, day and hour.
FileName == now

\* nextFunc creates the file anew, Open of the hrdp store appends to it.
Opened(s, k) ==
    LET f == <<s, k, FileName>>
    IN  Put(files, f, IF f \in DOMAIN files /\ stores[s].scheme = "hrdp"
                      THEN files[f] ELSE <<>>)

\* What creating the archive of a key anew loses.
Replaced(s, k) ==
    LET f == <<s, k, FileName>>
    IN  IF f \in DOMAIN files /\ stores[s].scheme = "tar"
        THEN {<<s, files[f][n].pkt>> : n \in DOMAIN files[f]} ELSE {}

\* A file of an hrdp store has no key: the store has one roller.
NoKey == <<>>

\* setupStorage: the hrdp stores in front of the first that fails are open.
Setup ==
    LET n  == SelectInSeq(stores, LAMBDA o : ~Usable(o))
        ok == 1 .. (IF n = 0 THEN Len(stores) ELSE n - 1)
        hs == {s \in ok : stores[s].scheme = "hrdp"}
    IN  /\ pc = "down"
        /\ pc' = IF options = <<>> \/ n # 0 THEN "aborted" ELSE "idle"
        /\ files' = [f \in DOMAIN files \cup {<<s, NoKey, FileName>> : s \in hs} |->
                        IF f \in DOMAIN files THEN files[f] ELSE <<>>]
        /\ rollers' = [r \in {<<s, NoKey>> : s \in hs} |-> FileName]
        /\ UNCHANGED <<options, at, pkt, err, now, returned, failed, lost, sent, rolls, faults>>

\* The roller closes a file and opens the next one.
Roll(r) ==
    /\ pc \in {"idle", "store", "meta"}
    /\ rolls < MaxRolls
    /\ rolls' = rolls + 1
    /\ files' = Opened(r[1], r[2])
    /\ lost' = lost \cup Replaced(r[1], r[2])
    /\ rollers' = [rollers EXCEPT ![r] = FileName]
    /\ UNCHANGED <<options, pc, at, pkt, err, now, returned, failed, sent, faults>>

Tick ==
    /\ now < MaxTime
    /\ now' = now + 1
    /\ UNCHANGED <<options, pc, at, pkt, err, rollers, files, returned, failed, lost, sent,
                   rolls, faults>>

-----------------------------------------------------------------------------
(* Control.Can. *)

checkOrigin(o, vs) == vs = <<>> \/ FoundAscending(vs, o)

Can(c, p) ==
    LET o == IF c.type \in {"origin", "source"} THEN p.origin ELSE p.channel
    IN  /\ c.type \in {"", "channel", "origin", "source"}
        /\ \/ c.accept = <<>> /\ c.reject = <<>>
           \/ c.accept = <<>> /\ ~checkOrigin(o, c.reject)
           \/ c.accept # <<>> /\ (checkOrigin(o, c.accept) \/ ~checkOrigin(o, c.reject))

-----------------------------------------------------------------------------
(* Multistore.Store. *)

cacheKey(p) == <<instanceDir(p.instance), modeDir(p.realtime), typeDir(p.kind), p.origin>>

\* Fault: the first error ends the loop.
NextStoreStops(e) ==
    /\ IF at < Len(stores) /\ ~e
       THEN at' = at + 1 /\ pc' = "store" /\ UNCHANGED returned
       ELSE at' = 1 /\ pc' = "idle" /\ returned' = returned \cup {<<pkt, e>>}
    /\ err' = FALSE
    /\ failed' = IF e THEN failed \cup {<<at, pkt>>} ELSE failed

\* A storage returned, with an error or not: the loop goes on.
NextStore(e) ==
    /\ IF at < Len(stores)
       THEN at' = at + 1 /\ pc' = "store" /\ UNCHANGED returned
       ELSE at' = 1 /\ pc' = "idle" /\ returned' = returned \cup {<<pkt, err \/ e>>}
    /\ err' = (at < Len(stores) /\ (err \/ e))
    /\ failed' = IF e THEN failed \cup {<<at, pkt>>} ELSE failed

\* The main loop of listen stores a packet.
Store(p) ==
    /\ pc = "idle"
    /\ sent < MaxPackets
    /\ sent' = sent + 1
    /\ pkt' = [p EXCEPT !.id = sent']
    /\ IF stores = <<>>
       THEN returned' = returned \cup {<<pkt', FALSE>>} /\ UNCHANGED pc
       ELSE pc' = "store" /\ UNCHANGED returned
    /\ UNCHANGED <<options, at, err, now, rollers, files, failed, lost, rolls,
                   faults>>

Key == IF stores[at].scheme = "tar" THEN <<at, cacheKey(pkt)>> ELSE <<at, NoKey>>

\* The record or the archive entry the storage writes now.
Record ==
    IF stores[at].scheme = "tar"
    THEN [ok |-> TRUE, pkt |-> pkt, part |-> pc, bytes |-> 2, cut |-> FALSE]
    ELSE IF stores[at].format = "vmu" THEN EncodePacket(pkt) ELSE encodeHadock(pkt)

\* External: a tar.Writer returns its first error again and again.
Broken(file) == stores[at].scheme = "tar" /\ file # <<>> /\ Last(file).cut

\* The files once the storage has its roller: that of a key of the tar
\* storage is made for the first packet.
Ready == IF Key \in DOMAIN rollers THEN files ELSE Opened(Key[1], Key[2])
OpenName == IF Key \in DOMAIN rollers THEN rollers[Key] ELSE FileName
Target == <<Key[1], Key[2], OpenName>>

OpenRoller ==
    /\ rollers' = Put(rollers, Key, OpenName)
    /\ lost' = lost \cup (IF Key \in DOMAIN rollers THEN {} ELSE Replaced(Key[1], Key[2]))

\* A storage skips the packet, or fails before it writes.
Skip ==
    /\ pc = "store"
    /\ \/ /\ stores[at].scheme = "tar"
          /\ ~Can(stores[at].control, pkt)
          /\ NextStore(FALSE)
       \/ /\ stores[at].scheme = "hrdp"
          /\ ~Record.ok
          /\ NextStore(TRUE)
    /\ UNCHANGED <<options, pkt, now, rollers, files, lost, sent, rolls, faults>>

\* A storage is about to write to a rolling file.
Writing ==
    /\ pc \in {"store", "meta"}
    /\ \/ stores[at].scheme = "tar" /\ Can(stores[at].control, pkt)
       \/ stores[at].scheme = "hrdp" /\ Record.ok

\* It writes all of the record; an image in a tar is followed by its metadata.
Write ==
    /\ Writing
    /\ OpenRoller
    /\ IF Broken(Ready[Target])
       THEN files' = Ready /\ NextStore(TRUE)
       ELSE /\ files' = Put(Ready, Target, Append(Ready[Target], Record))
            /\ IF stores[at].scheme = "tar" /\ pkt.kind = "image" /\ pc = "store"
               THEN pc' = "meta" /\ UNCHANGED <<at, err, returned, failed>>
               ELSE NextStore(FALSE)
    /\ UNCHANGED <<options, pkt, now, sent, rolls, faults>>

Fault == faults < MaxFaults /\ faults' = faults + 1

\* A storage of files returns: it skips the packet, stores it or fails.
StoreFiles ==
    /\ pc = "store"
    /\ stores[at].scheme = "file"
    /\ \/ NextStore(FALSE) /\ UNCHANGED faults
       \/ Can(stores[at].control, pkt) /\ Fault /\ NextStore(TRUE)
    /\ UNCHANGED <<options, pkt, now, rollers, files, lost, sent, rolls>>

\* Where a write can stop: before, in and after the length, and in the data.
Cuts(r) == IF stores[at].scheme = "tar" THEN {0, 1} ELSE {0, 2, r.start, r.bytes - 1}

\* The files after a write that stops.
Stopped(cut) ==
    IF cut = 0 THEN Ready
    ELSE Put(Ready, Target,
             Append(Ready[Target], [Record EXCEPT !.bytes = cut, !.cut = TRUE]))

\* encodeHadock drops the error of its write.
Reported == ~(stores[at].scheme = "hrdp" /\ stores[at].format = "hdk")

WriteFails ==
    /\ Writing
    /\ Fault
    /\ rollers' = Put(rollers, Key, OpenName)
    /\ \E cut \in Cuts(Record) :
          files' = IF Broken(Ready[Target]) THEN Ready ELSE Stopped(cut)
    /\ lost' = lost \cup (IF Key \in DOMAIN rollers THEN {} ELSE Replaced(Key[1], Key[2]))
                    \cup (IF Reported THEN {} ELSE {<<at, pkt>>})
    /\ NextStore(Reported)
    /\ UNCHANGED <<options, pkt, now, sent, rolls>>

\* nextFunc cannot create the first archive of a key.
OpenFails ==
    /\ Writing
    /\ Key \notin DOMAIN rollers
    /\ Fault
    /\ NextStore(TRUE)
    /\ UNCHANGED <<options, pkt, now, rollers, files, lost, sent, rolls>>

\* The process ends, in the middle of a write or not.
Crash ==
    /\ pc \in {"idle", "store", "meta"}
    /\ Fault
    /\ pc' = "down"
    /\ at' = 1
    /\ err' = FALSE
    /\ rollers' = <<>>
    /\ IF Writing /\ Key \in DOMAIN rollers /\ ~Broken(Ready[Target])
       THEN \E cut \in Cuts(Record) : files' = Stopped(cut)
       ELSE UNCHANGED files
    /\ UNCHANGED <<options, pkt, now, returned, failed, lost, sent, rolls>>

\* listen has ended, or waits for the next packet.
Waiting ==
    /\ pc \in {"aborted", "idle"}
    /\ UNCHANGED archiveVars

ArchiveNext ==
    \/ Setup
    \/ \E r \in DOMAIN rollers : Roll(r)
    \/ Tick
    \/ \E p \in Packets : Store(p)
    \/ Skip
    \/ StoreFiles
    \/ Write
    \/ WriteFails
    \/ OpenFails
    \/ Crash
    \/ Waiting

-----------------------------------------------------------------------------
(* Properties of the storages. *)

Part == {"store", "meta"}

\* What the lists of a control mean, when they are sorted: an origin that is
\* accepted, or that is not rejected when there is a list of rejected ones.
Sorted(vs) == \A i, j \in DOMAIN vs : i < j => vs[i] <= vs[j]
Wanted(c, p) ==
    LET o == IF c.type \in {"origin", "source"} THEN p.origin ELSE p.channel
    IN  /\ c.type \in {"", "channel", "origin", "source"}
        /\ \/ o \in ToSet(c.accept)
           \/ (c.accept = <<>> \/ c.reject # <<>>) /\ o \notin ToSet(c.reject)

Lists(s) == {stores[s].control.accept, stores[s].control.reject}

\* Part a of packet p was written whole to a file of storage s.
Written(s, p, a) ==
    \E f \in DOMAIN files : \E n \in DOMAIN files[f] :
        /\ f[1] = s
        /\ files[f][n].pkt = p
        /\ ~files[f][n].cut
        /\ stores[s].scheme = "tar" => files[f][n].part = a

Parts(s, p) ==
    IF stores[s].scheme = "tar" /\ p.kind = "image" THEN Part ELSE {"store"}

\* When Multistore.Store returns without an error no storage has failed, and with
\* or without one the packet is whole, with its metadata, in the files of every
\* rolling storage that wants it and did not fail; later rotations and crashes do
\* not change that, unless an archive is created anew or the format drops the
\* errors of its writes.
ReturnedStored ==
    \A r \in returned : \A s \in DOMAIN stores :
        /\ <<s, r[1]>> \in failed => r[2]
        /\ \/ <<s, r[1]>> \in failed \cup lost
           \/ stores[s].scheme = "file"
           \/ stores[s].scheme = "tar" /\ ~Wanted(stores[s].control, r[1])
           \/ stores[s].scheme = "tar" /\ \E vs \in Lists(s) : ~Sorted(vs)
           \/ \A a \in Parts(s, r[1]) : Written(s, r[1], a)

\* The archives of a storage hold no packet its sorted lists keep out.
ArchivesFiltered ==
    \A f \in DOMAIN files : \A n \in DOMAIN files[f] :
        stores[f[1]].scheme = "tar" /\ (\A vs \in Lists(f[1]) : Sorted(vs))
            => Wanted(stores[f[1]].control, files[f][n].pkt)

\* The metadata of an image is never in front of the image: it is in the same
\* archive behind it, or in a later one when the roller went on in between.
MetadataFollows ==
    \A f \in DOMAIN files : \A n \in DOMAIN files[f] :
        stores[f[1]].scheme = "tar" /\ files[f][n].part = "meta" =>
            \/ <<f[1], files[f][n].pkt>> \in lost
            \/ \E m \in 1 .. n - 1 : files[f][m].pkt = files[f][n].pkt
            \/ \E g \in DOMAIN files : /\ g[1] = f[1] /\ g[2] = f[2] /\ g[3] < f[3]
                                       /\ files[g] # <<>>
                                       /\ Last(files[g]).pkt = files[f][n].pkt

\* The storages hold what Multistore.Store says they hold, and nothing else.
StoredAsWanted == ReturnedStored /\ ArchivesFiltered /\ MetadataFollows

\* A file whose second has passed only grows: neither a rotation nor a crash
\* and a restart take anything out of it.
FilesStay ==
    [][\A f \in DOMAIN files :
           f[3] < now => f \in DOMAIN files' /\ IsPrefix(files[f], files'[f])]_archiveVars

\* The file of a storage in the format of the HRDP archive, read with the
\* scanner of the replay command, yields every record in front of the first
\* one whose write was interrupted, from the VMU header on and with a
\* checksum that is right.
ReadsBack ==
    \A f \in DOMAIN files : stores[f[1]].scheme = "hrdp" =>
        LET file  == files[f]
            whole == {n \in DOMAIN file : \A m \in 1 .. n : ~file[m].cut}
        IN  /\ Len(Scan(file).records) = Cardinality(whole)
            /\ \A n \in whole :
                 /\ file[n].start = TokenStart(stores[f[1]].format)
                 /\ stores[f[1]].format = "vmu" =>
                        file[n].sum = SumHRD(file[n].pkt.head \o file[n].pkt.body)
=============================================================================
