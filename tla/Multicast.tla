----------------------------- MODULE Multicast ------------------------------
(***************************************************************************)
(* The UDP groups between the notifiers of the listen command and a        *)
(* program that reads notifications: the UDP forwarder or the monitor of   *)
(* the distribution server.  The two do not interact, so one of them at a  *)
(* time is enough.  A datagram may be lost, overtaken or delivered twice.  *)
(***************************************************************************)
EXTENDS Integers

CONSTANTS
    Groups,         \* multicast groups, one per udp notifier
    MaxDups         \* bound: datagrams delivered a second time

ASSUME MulticastAssumption == MaxDups \in Nat

VARIABLES
    app,            \* the program that reads: "hdk2udp" or "monitor"
    inbox,          \* inbox[g]: datagrams of group g that wait for it
    dups            \* datagrams delivered twice so far

netVars == <<app, inbox, dups>>

NetInit ==
    /\ app \in {"hdk2udp", "monitor"}
    /\ inbox = [g \in Groups |-> {}]
    /\ dups = 0

Send(g, d) ==
    /\ \/ inbox' = [inbox EXCEPT ![g] = @ \cup {d}]
       \/ UNCHANGED inbox
    /\ UNCHANGED <<app, dups>>

Receive(g, d) ==
    /\ d \in inbox[g]
    /\ \/ inbox' = [inbox EXCEPT ![g] = @ \ {d}] /\ UNCHANGED dups
       \/ dups < MaxDups /\ dups' = dups + 1 /\ UNCHANGED inbox
    /\ UNCHANGED app
=============================================================================
