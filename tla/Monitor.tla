------------------------------ MODULE Monitor -------------------------------
(***************************************************************************)
(* The monitor of the distribution server: a goroutine per group records   *)
(* the notifications it reads in a ring per origin, mode and instance, at  *)
(* the slot given by its own count of datagrams; a goroutine removes the   *)
(* rings that were not written for 15 minutes; requests read all rings.    *)
(* The sections under the mutex are single steps.  A message is known by   *)
(* its number, which counts the messages of all goroutines.                *)
(***************************************************************************)
EXTENDS Pool

CONSTANTS
    RingSize,       \* 300 in the code
    MaxRecorded     \* bound: messages recorded

ASSUME MonitorAssumption == RingSize \in Nat \ {0} /\ MaxRecorded \in Nat

\* The key of the message that decodeMessage returns when a read fails.
ZeroKey == <<FALSE, "", 0>>

MonKeys == Keys \cup {ZeroKey}

NoRing == [s \in 0 .. RingSize - 1 |-> 0]

VARIABLES
    recorded,       \* counter of messages, shared by the goroutines
    index,          \* index[g]: datagrams the reader of g has read
    ring,           \* ring[k]: numbers of the messages of key k, 0 for none
    when,           \* when[k]: last write, "recent" or over 15 minutes "ago"
    due,            \* rings found too old by the clock of the pending tick
    latest          \* history: latest[k], number of the last message of k

monVars == <<recorded, index, ring, when, due, latest>>

MonInit ==
    /\ recorded = 0
    /\ index = [g \in Groups |-> 0]
    /\ ring = [k \in MonKeys |-> NoRing]
    /\ when = [k \in MonKeys |-> "ago"]
    /\ due = {}
    /\ latest = [k \in MonKeys |-> 0]

-----------------------------------------------------------------------------

Record(g, k) ==
    /\ recorded < MaxRecorded
    /\ recorded' = recorded + 1
    /\ index' = [index EXCEPT ![g] = @ + 1]
    /\ ring' = [ring EXCEPT ![k][index[g] % RingSize] = recorded + 1]
    /\ when' = [when EXCEPT ![k] = "recent"]
    /\ latest' = [latest EXCEPT ![k] = recorded + 1]
    /\ UNCHANGED due

\* decodeMessage, as far as the key needs it.
decodeKey(d) == <<d[5], d[1], d[3]>>

MonitorRead(g, d) ==
    /\ Receive(g, d)
    /\ Record(g, decodeKey(d))

\* An error of the socket is not reported by decodeMessage.
MonitorReadError(g) ==
    /\ Record(g, ZeroKey)
    /\ UNCHANGED netVars

\* 15 minutes without a notification.
Elapse ==
    /\ \E k \in MonKeys : when[k] = "recent"
    /\ when' = [k \in MonKeys |-> "ago"]
    /\ UNCHANGED <<recorded, index, ring, due, latest, netVars>>

\* The ticker fires: what is compared later is the time of the tick.
CleanTick ==
    /\ due = {}
    /\ due' = {k \in MonKeys : ring[k] # NoRing /\ when[k] = "ago"}
    /\ due' # {}
    /\ UNCHANGED <<recorded, index, ring, when, latest, netVars>>

\* Fault: the rings found at the tick are removed without a second look.
CleanSweepDue ==
    /\ due # {}
    /\ ring' = [k \in MonKeys |-> IF k \in due THEN NoRing ELSE ring[k]]
    /\ due' = {}
    /\ UNCHANGED <<recorded, index, when, latest, netVars>>

\* Clean holds the lock: a ring written after the tick is not too old for it.
CleanSweep ==
    /\ due # {}
    /\ ring' = [k \in MonKeys |-> IF k \in due /\ when[k] = "ago"
                                  THEN NoRing ELSE ring[k]]
    /\ due' = {}
    /\ UNCHANGED <<recorded, index, when, latest, netVars>>

MonNext ==
    \/ \E g \in Groups :
          \/ \E d \in inbox[g] : MonitorRead(g, d)
          \/ MonitorReadError(g)
    \/ Elapse
    \/ CleanTick
    \/ CleanSweep

-----------------------------------------------------------------------------
(* Properties. *)

\* What ServeHTTP lists for a key.
Served(k) == {ring[k][s] : s \in DOMAIN ring[k]} \ {0}

\* A request answered within 15 minutes of a notification shows the newest one
\* of that stream: neither the other goroutines, which count datagrams on their
\* own and write the same rings, nor the removal of old rings hide it.
NewestServed ==
    \A k \in MonKeys : when[k] = "recent" => latest[k] \in Served(k)
=============================================================================
