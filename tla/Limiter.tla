------------------------------ MODULE Limiter -------------------------------
(***************************************************************************)
(* The limiter in front of the products of the distribution server.  A     *)
(* visitor is known by its remote address, that is, by its connection, and *)
(* the requests of a connection are served one after the other: what Allow *)
(* does under its two locks for an address is one step here.  The          *)
(* goroutine that purges visitors runs beside them, and the clock fills    *)
(* the buckets one token after the other.                                  *)
(***************************************************************************)
EXTENDS Naturals, FiniteSets

CONSTANTS
    Conns,          \* connections
    Burst,          \* size of a bucket: 10 in the code
    Limited,        \* the configured rate is positive: requests are limited
    MaxEarned       \* bound: tokens a bucket gets from the clock

ASSUME LimiterAssumption ==
    Burst \in Nat \ {0} /\ Limited \in BOOLEAN /\ MaxEarned \in Nat

VARIABLES
    visitors,       \* connections with an entry in the map
    bucket,         \* bucket[c]: requests the entry of c still allows
    old,            \* connections not seen for 120 seconds
    doomed,         \* visitors purge found too old and is about to delete
    granted,        \* granted[c]: requests allowed since c was idle
    earned          \* earned[c]: tokens its buckets got since from the clock

limiterVars == <<visitors, bucket, old, doomed, granted, earned>>

LimiterInit ==
    /\ visitors = {}
    /\ bucket = [c \in Conns |-> Burst]
    /\ old = {}
    /\ doomed = {}
    /\ granted = [c \in Conns |-> 0]
    /\ earned = [c \in Conns |-> 0]

\* Fault: the entry of a new visitor is not kept.
EnterForgets(c) == UNCHANGED visitors

\* A visitor that is not in the map is entered, with a full bucket.
Enter(c) == visitors' = visitors \cup {c}

\* limiter.Allow: its answer is allowed.
Allow(c, allowed) ==
    LET left == IF c \in visitors THEN bucket[c] ELSE Burst
    IN  /\ Enter(c)
        /\ old' = old \ {c}
        /\ allowed = (left > 0)
        /\ bucket' = [bucket EXCEPT ![c] = IF allowed THEN left - 1 ELSE left]
        /\ granted' = [granted EXCEPT ![c] = IF allowed THEN @ + 1 ELSE @]
        /\ UNCHANGED <<doomed, earned>>

\* External: a rate.Limiter gets a token when the time of one has passed, up to
\* the size of the bucket.
Refill(c) ==
    /\ c \in visitors
    /\ bucket[c] < Burst
    /\ earned[c] < MaxEarned
    /\ bucket' = [bucket EXCEPT ![c] = @ + 1]
    /\ earned' = [earned EXCEPT ![c] = @ + 1]
    /\ UNCHANGED <<visitors, old, doomed, granted>>

\* 120 seconds pass without a request of c: by then its bucket is full again.
Idle(c) ==
    /\ c \notin old
    /\ old' = old \cup {c}
    /\ bucket' = [bucket EXCEPT ![c] = Burst]
    /\ granted' = [granted EXCEPT ![c] = 0]
    /\ earned' = [earned EXCEPT ![c] = 0]
    /\ UNCHANGED <<visitors, doomed>>

\* What purge collects on a tick, under the lock for reading.
TooOld == visitors \cap old

Collect ==
    /\ doomed = {}
    /\ TooOld # {}
    /\ doomed' = TooOld
    /\ UNCHANGED <<visitors, bucket, old, granted, earned>>

\* It deletes them under the lock for writing, seen in the meantime or not.
Purge ==
    /\ doomed # {}
    /\ visitors' = visitors \ doomed
    /\ doomed' = {}
    /\ UNCHANGED <<bucket, old, granted, earned>>

\* Limit: without a rate the handler is called directly.
Limit(c, allowed) ==
    IF Limited THEN Allow(c, allowed) ELSE allowed = TRUE /\ UNCHANGED limiterVars

LimiterNext ==
    \/ \E c \in Conns : Idle(c) \/ Refill(c)
    \/ Collect
    \/ Purge

\* Since a connection was last idle it got no more requests than the clock
\* earned it and two buckets hold: the second bucket when purge deletes a
\* visitor that came back after purge had found it too old.
RateHeld == \A c \in Conns : granted[c] <= 2 * Burst + earned[c]
=============================================================================
