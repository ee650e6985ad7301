----------------------------- MODULE FileStore ------------------------------
(***************************************************************************)
(* filestore.Store: one packet is written to the data directory, linked    *)
(* into a share, and, for an image, followed by its metadata, by a         *)
(* sequence of system calls any of which can fail and between any two of   *)
(* which the process can crash and be started again.                       *)
(*                                                                         *)
(* A file name is a packet name and its suffixes, in the order in which    *)
(* the code appends them: the invalid packet x is <<x, <<"bad">>>> and its *)
(* metadata <<x, <<"bad", "xml">>>>.  The packets of one name all go to    *)
(* one directory.                                                          *)
(***************************************************************************)
EXTENDS Naturals, Sequences, FiniteSets

CONSTANTS
    Names,          \* names of packets, without the suffix of invalid ones
    Images,         \* the names that are images, the others are tables
    Realtime,       \* the names that are realtime, the others are playback
    RemoveBad,      \* rembad of the data directory: keep-bad is not set
    ShareRemoveBad, \* rembad of the share
    HasShare,       \* a share is configured
    Faults,         \* what can go wrong, of FaultKinds
    MaxStores,      \* bound: calls of Store
    MaxFaults       \* bound: faults

FaultKinds == {"prepare", "stat", "remove", "write", "link", "crash"}

ASSUME FileStoreAssumption ==
    /\ Images \subseteq Names
    /\ Realtime \subseteq Names
    /\ RemoveBad \in BOOLEAN
    /\ ShareRemoveBad \in BOOLEAN
    /\ HasShare \in BOOLEAN
    /\ Faults \subseteq FaultKinds
    /\ MaxStores \in Nat
    /\ MaxFaults \in Nat

\* A valid or invalid copy of a packet.
Packet == [name : Names, bad : BOOLEAN]

Suffixes == {<<>>, <<"bad">>, <<"xml">>, <<"bad", "xml">>}
File == Names \X Suffixes

VARIABLES
    call,           \* next system call of Store, "idle" between two calls
    pkt,            \* packet of the current call (any packet when idle)
    stage,          \* file being written: "raw" or "meta"
    data,           \* complete files of the data directory
    torn,           \* files of the data directory that are not complete
    share,          \* links of the share
    acked,          \* packets for which Store wrote a file and returned nil
    spared,         \* names of which an invalid copy escaped its removal
    stores,         \* calls of Store so far
    faults          \* faults so far

storeVars == <<call, pkt, stage, data, torn, share, acked, spared, stores, faults>>

StoreInit ==
    /\ call = "idle"
    /\ pkt \in Packet
    /\ stage = "raw"
    /\ data = {}
    /\ torn = {}
    /\ share = {}
    /\ acked = {}
    /\ spared = {}
    /\ stores = 0
    /\ faults = 0

-----------------------------------------------------------------------------
\* p.Filename(), external: the name of an invalid packet ends in .bad.
Filename(p) == <<p.name, IF p.bad THEN <<"bad">> ELSE <<>>>>

With(f, suffix) == <<f[1], Append(f[2], suffix)>>

\* The file the current stage writes, and the name it replaces.
Current == IF stage = "raw" THEN Filename(pkt) ELSE With(Filename(pkt), "xml")
Badname == With(Current, "bad")

Playback == pkt.name \notin Realtime

Fault(kind) ==
    /\ kind \in Faults
    /\ faults < MaxFaults
    /\ faults' = faults + 1

\* Fault: an invalid packet is written although the valid one is there.
SupersededNever(p) == FALSE

\* An invalid packet is not wanted when a valid one, complete or not, is there.
Superseded(p) ==
    /\ RemoveBad
    /\ p.bad
    /\ <<p.name, <<>>>> \in data \cup torn

\* Fault: the metadata of an image is written first.
StoreMetadata(p) ==
    /\ call = "idle"
    /\ stores < MaxStores
    /\ stores' = stores + 1
    /\ IF Superseded(p)
       THEN UNCHANGED <<call, pkt, stage>>
       ELSE call' = "remove" /\ pkt' = p /\ stage' = IF p.name \in Images THEN "meta" ELSE "raw"
    /\ UNCHANGED <<data, torn, share, acked, spared, faults>>

\* Store up to its first change: Prepare and encode succeed.
Store(p) ==
    /\ call = "idle"
    /\ stores < MaxStores
    /\ stores' = stores + 1
    /\ IF Superseded(p)
       THEN UNCHANGED <<call, pkt, stage>>
       ELSE call' = "remove" /\ pkt' = p /\ stage' = "raw"
    /\ UNCHANGED <<data, torn, share, acked, spared, faults>>

\* Prepare or encode fails.
StoreRefused ==
    /\ call = "idle"
    /\ stores < MaxStores
    /\ stores' = stores + 1
    /\ Fault("prepare")
    /\ UNCHANGED <<call, pkt, stage, data, torn, share, acked, spared>>

\* os.Stat fails, other than for want of a file: an invalid packet is written
\* next to the valid one.
StatFails(p) ==
    /\ call = "idle"
    /\ stores < MaxStores
    /\ stores' = stores + 1
    /\ Superseded(p)
    /\ Fault("stat")
    /\ call' = "remove" /\ pkt' = p /\ stage' = "raw"
    /\ spared' = spared \cup {p.name}
    /\ UNCHANGED <<data, torn, share, acked>>

\* encodeMetadata fails, after the raw data was written and linked.
MetadataRefused ==
    /\ call = "remove"
    /\ stage = "meta"
    /\ Fault("prepare")
    /\ call' = "idle"
    /\ UNCHANGED <<pkt, stage, data, torn, share, acked, spared, stores>>

\* Fault: the old file is removed as well.
RemoveOld ==
    /\ call = "remove"
    /\ call' = "create"
    /\ data' = data \ {Current, Badname}
    /\ torn' = torn \ {Current, Badname}
    /\ UNCHANGED <<pkt, stage, share, acked, spared, stores, faults>>

\* os.Remove of the invalid copy; its result is ignored.
Remove ==
    /\ call = "remove"
    /\ call' = "create"
    /\ IF RemoveBad /\ (stage = "raw" \/ Playback)
       THEN /\ data' = data \ {Badname}
            /\ torn' = torn \ {Badname}
            /\ spared' = spared \ {x \in Names : Badname = <<x, <<"bad">>>>}
       ELSE UNCHANGED <<data, torn, spared>>
    /\ UNCHANGED <<pkt, stage, share, acked, stores, faults>>

\* The copy is there and os.Remove fails: Store goes on as if it were gone.
RemoveFails ==
    /\ call = "remove"
    /\ RemoveBad
    /\ Badname \in data \cup torn
    /\ Fault("remove")
    /\ call' = "create"
    /\ spared' = spared \cup {pkt.name}
    /\ UNCHANGED <<pkt, stage, data, torn, share, acked, stores>>

\* ioutil.WriteFile truncates the file, then writes it.
Create ==
    /\ call = "create"
    /\ call' = "fill"
    /\ data' = data \ {Current}
    /\ torn' = torn \cup {Current}
    /\ UNCHANGED <<pkt, stage, share, acked, spared, stores, faults>>

\* What comes after the current file: its link, the metadata, or the end.
AfterFile ==
    IF stage = "raw" /\ pkt.name \in Images
    THEN call' = "remove" /\ stage' = "meta" /\ UNCHANGED acked
    ELSE call' = "idle" /\ acked' = acked \cup {pkt} /\ UNCHANGED stage

Fill ==
    /\ call = "fill"
    /\ data' = data \cup {Current}
    /\ torn' = torn \ {Current}
    /\ IF HasShare
       THEN call' = "unlink" /\ UNCHANGED <<stage, acked>>
       ELSE AfterFile
    /\ UNCHANGED <<pkt, share, spared, stores, faults>>

\* WriteFile fails, before or after it created the file.
WriteFails ==
    /\ call \in {"create", "fill"}
    /\ Fault("write")
    /\ call' = "idle"
    /\ UNCHANGED <<pkt, stage, data, torn, share, acked, spared, stores>>

\* Link: the link is removed, then the link to the invalid copy.
Unlink ==
    /\ call = "unlink"
    /\ call' = "unbad"
    /\ share' = share \ {Current}
    /\ UNCHANGED <<pkt, stage, data, torn, acked, spared, stores, faults>>

\* Fault: the link to the invalid copy stays.
UnlinkBadNever ==
    /\ call = "unbad"
    /\ call' = "link"
    /\ UNCHANGED <<pkt, stage, data, torn, share, acked, spared, stores, faults>>

UnlinkBad ==
    /\ call = "unbad"
    /\ call' = "link"
    /\ share' = IF ShareRemoveBad /\ Playback THEN share \ {Badname} ELSE share
    /\ UNCHANGED <<pkt, stage, data, torn, acked, spared, stores, faults>>

\* os.Remove of one of them fails, which is ignored as well.
UnlinkFails ==
    /\ call \in {"unlink", "unbad"}
    /\ Fault("remove")
    /\ call' = IF call = "unlink" THEN "unbad" ELSE "link"
    /\ UNCHANGED <<pkt, stage, data, torn, share, acked, spared, stores>>

\* os.Link or os.Symlink; an error ends Store, and a link that was not removed
\* is one.
Link ==
    /\ call = "link"
    /\ IF Current \in share
       THEN call' = "idle" /\ UNCHANGED <<stage, share, acked>>
       ELSE share' = share \cup {Current} /\ AfterFile
    /\ UNCHANGED <<pkt, data, torn, spared, stores, faults>>

\* Prepare of the share fails, or os.Link does.
LinkFails ==
    /\ call \in {"unlink", "link"}
    /\ Fault("link")
    /\ call' = "idle"
    /\ UNCHANGED <<pkt, stage, data, torn, share, acked, spared, stores>>

\* The process dies inside Store and is started again.
Crash ==
    /\ call # "idle"
    /\ Fault("crash")
    /\ call' = "idle"
    /\ UNCHANGED <<pkt, stage, data, torn, share, acked, spared, stores>>

\* All the packets have been stored.
Finished == call = "idle" /\ stores = MaxStores /\ UNCHANGED storeVars

StoreNext ==
    \/ \E p \in Packet : Store(p) \/ StatFails(p)
    \/ StoreRefused \/ MetadataRefused
    \/ Remove \/ RemoveFails \/ Create \/ Fill \/ WriteFails
    \/ Unlink \/ UnlinkBad \/ UnlinkFails \/ Link \/ LinkFails
    \/ Crash
    \/ Finished

StoreSpec == StoreInit /\ [][StoreNext]_storeVars

-----------------------------------------------------------------------------
(* Properties. *)

\* With keep-bad unset a valid packet and its invalid copy are never both in
\* the data directory, in whatever order the copies arrive, and also after a
\* crash or a failed system call at any point of Store.  The exceptions are the
\* two failures Store does not look at: after a stat or a removal that failed
\* both are there, until the valid packet is stored again.
GoodExcludesBad ==
    RemoveBad =>
        \A x \in Names \ spared :
            ~ {<<x, <<>>>>, <<x, <<"bad">>>>} \subseteq data \cup torn

\* A valid packet whose Store returned nil stays: no later call of Store, for a
\* valid or an invalid copy, completed or not, takes its file away.  (A crash
\* or a full disk while the same packet is written again can leave it torn, but
\* each fault damages at most the one file that was being written.)
AckedStays ==
    /\ \A p \in acked : ~p.bad => Filename(p) \in data \cup torn
    /\ Cardinality(torn) <= faults + (IF call = "fill" THEN 1 ELSE 0)

\* Between two calls of Store, as long as nothing failed, a share with the same
\* keep-bad shows the playback files of the data directory and no others.
ShareMirrors ==
    (HasShare /\ RemoveBad = ShareRemoveBad /\ call = "idle" /\ faults = 0) =>
        {f \in share : f[1] \notin Realtime} = {f \in data : f[1] \notin Realtime}

\* README.md, "store metadata (XML format) next to the raw data": the metadata
\* of a valid image has its raw data next to it at any time, whatever fails.
\* That of an invalid one has raw data next to it between two calls of Store, as
\* long as nothing failed, but not always its own: writeMetadata looks for
\* x.xml.bad, so x.bad.xml stays when the valid copy replaces x.bad.
MetadataHasRaw ==
    \A x \in Names :
        LET here(suffix) == <<x, suffix>> \in data \cup torn
        IN  /\ here(<<"xml">>) => here(<<>>)
            /\ here(<<"bad", "xml">>) /\ call = "idle" /\ faults = 0
                   => here(<<"bad">>) \/ here(<<>>)
=============================================================================
