------------------------------ MODULE Announce ------------------------------
(***************************************************************************)
(* Notifications from end to end: the pool of the listen command, the UDP  *)
(* groups, and the program that reads them: the UDP forwarder or the       *)
(* monitor of the distribution server.                                     *)
(***************************************************************************)
EXTENDS Forward, Monitor

vars == <<poolVars, netVars, fwdVars, monVars>>

\* The configuration of the forwarder does not matter to the monitor.
Init ==
    /\ PoolInit
    /\ NetInit
    /\ FwdInit
    /\ MonInit
    /\ app = "monitor" => config = CHOOSE c \in Configs : TRUE

\* Nothing is left to do, other than to clean up or to fail.
Quiet ==
    /\ stored = Packets
    /\ queue = <<>> /\ Filled = {} /\ batches = {} /\ posts = {}
    /\ UNCHANGED vars

Next ==
    \/ PoolNext /\ UNCHANGED <<fwdVars, monVars>>
    \/ app = "hdk2udp" /\ FwdNext /\ UNCHANGED <<poolVars, monVars>>
    \/ app = "monitor" /\ MonNext /\ UNCHANGED <<poolVars, fwdVars>>
    \/ Quiet

Spec == Init /\ [][Next]_vars

-----------------------------------------------------------------------------
(* Properties. *)

\* The user information names the same directory for both sides only in these
\* packets: a live packet and one without information have other names in
\* notifications than in the archive, and spaces are replaced in the archive.
SameName(p) == ~p.realtime /\ Len(p.info) = 1

\* The forwarder tells images and tables apart by their channel.
SameType(p) == whichType(p.channel) = typeDir(p.kind)

\* Both sides take these configurations for the same: a store with nothing but
\* empty levels uses the default ones, and with any other time that of arrival.
SameConfig(c) ==
    /\ c.time \in {"vmu", "acq", Unset}
    /\ c.levels = <<>> \/ \E n \in DOMAIN c.levels : c.levels[n] # Unset

Path(p) == Append(Directory(config, p), p.name)

\* The reference of a parameter is the path of a packet that was stored, that
\* belongs to the stream of the parameter and that has the sequence it reports,
\* after the summary, the datagram and the forwarder's own computation of the
\* path (of packets and configurations that name the same on both sides).
ReferenceStored ==
    \A n \in params :
        \E p \in stored :
            /\ p.name = Last(n.reference)
            /\ KeyOf(p) = <<n.realtime, n.origin, n.instance>>
            /\ p.seq = n.sequence
            /\ SameConfig(config) /\ SameType(p)
               /\ ("upi" \in ToSet(config.levels) => SameName(p))
                  => n.reference = Path(p)
=============================================================================
