-------------------------------- MODULE Pool --------------------------------
(***************************************************************************)
(* The notification pool of the listen command: Notify, called by the loop *)
(* that stores packets, the goroutine that caches packets per origin, mode *)
(* and instance and empties its cache on every tick, one goroutine per key *)
(* and tick that summarises the cached packets in a message, and one       *)
(* goroutine per message and notifier that sends it.                       *)
(***************************************************************************)
EXTENDS Paths, Search, Multicast, FiniteSets

CONSTANTS
    Packets,        \* packets the listen command stores
    QueueCap,       \* capacity of the queue: 1000 in the code
    Options         \* Options[g]: filter of the notifier of group g

ASSUME PoolAssumption ==
    /\ QueueCap \in Nat \ {0}
    /\ IsFiniteSet(Packets)
    /\ DOMAIN Options = Groups
    /\ \A g \in Groups : Options[g].instance \in Int /\ Options[g].channels \in Seq(Int)
    /\ \A p \in Packets : p.realtime \in BOOLEAN /\ p.channel \in Int

KeyOf(p) == <<p.realtime, p.origin, p.instance>>

Keys == {KeyOf(p) : p \in Packets}

VARIABLES
    stored,         \* packets that were stored and given to Notify
    queue,          \* channel of the pool
    cache,          \* cache[k]: packets of key k since the last tick
    batches,        \* goroutines that summarise: the packets of each
    posts,          \* goroutines that notify: <<group, message>>
    entered,        \* history: packets that Notify queued
    tally           \* history: tally[k], sum of the counts of the messages

poolVars == <<stored, queue, cache, batches, posts, entered, tally>>

PoolInit ==
    /\ stored = {}
    /\ queue = <<>>
    /\ cache = [k \in Keys |-> <<>>]
    /\ batches = {}
    /\ posts = {}
    /\ entered = {}
    /\ tally = [k \in Keys |-> 0]

-----------------------------------------------------------------------------
(* Pool.Notify; a packet that is too old, or finds the queue full, is dropped. *)

NotifyQueue(p) ==
    /\ p \notin stored
    /\ Len(queue) < QueueCap
    /\ stored' = stored \cup {p}
    /\ queue' = Append(queue, p)
    /\ entered' = entered \cup {p}
    /\ UNCHANGED <<cache, batches, posts, tally, netVars>>

NotifyDrop(p) ==
    /\ p \notin stored
    /\ stored' = stored \cup {p}
    /\ UNCHANGED <<queue, cache, batches, posts, entered, tally, netVars>>

-----------------------------------------------------------------------------
(* notify, the goroutine with the cache, and the goroutines it starts. *)

CachePacket ==
    /\ queue # <<>>
    /\ queue' = Tail(queue)
    /\ cache' = [cache EXCEPT ![KeyOf(Head(queue))] = Append(@, Head(queue))]
    /\ UNCHANGED <<stored, batches, posts, entered, tally, netVars>>

Filled == {k \in Keys : cache[k] # <<>>}

\* Fault: the keys stay in the cache.
TickKeep ==
    /\ Filled # {}
    /\ batches' = batches \cup {cache[k] : k \in Filled}
    /\ UNCHANGED <<stored, queue, cache, posts, entered, tally, netVars>>

Tick ==
    /\ Filled # {}
    /\ batches' = batches \cup {cache[k] : k \in Filled}
    /\ cache' = [k \in Keys |-> <<>>]
    /\ UNCHANGED <<stored, queue, posts, entered, tally, netVars>>

\* first and last are the ends of the slice once sorted by sequence; packets
\* with the same sequence come in any order.
Ends(b, first, last) ==
    /\ Len(b) > 1 => first # last
    /\ \A n \in DOMAIN b : b[first].seq <= b[n].seq /\ b[n].seq <= b[last].seq

Message(b, first, last) ==
    [origin    |-> b[first].origin,
     instance  |-> b[first].instance,
     realtime  |-> b[first].realtime,
     count     |-> Len(b),
     sequence  |-> b[first].seq,
     channel   |-> b[first].channel,
     elapsed   |-> b[last].acq - b[first].acq,
     generated |-> b[first].vmu,
     acquired  |-> b[first].acq,
     reference |-> b[first].name,
     upi       |-> extractUserInfo(b[first])]

Summarize(b) ==
    /\ batches' = batches \ {b}
    /\ \E first, last \in DOMAIN b :
          /\ Ends(b, first, last)
          /\ posts' = posts \cup {<<g, Message(b, first, last)>> : g \in Groups}
    /\ tally' = [tally EXCEPT ![KeyOf(b[1])] = @ + Len(b)]
    /\ UNCHANGED <<stored, queue, cache, entered, netVars>>

-----------------------------------------------------------------------------
(* Options.Accept and notifier.Notify. *)

\* Fault: the search for a list in ascending order.
AcceptChannelAscending(chs, ch) ==
    Len(chs) = 0 \/ FoundAscending(chs, ch)

\* The comparison of the search expects the channels in descending order.
AcceptChannel(chs, ch) ==
    Len(chs) = 0 \/ FoundDescending(chs, ch)

AcceptSource(source, realtime) ==
    CASE source = "realtime" -> realtime
      [] source = "playback" -> ~realtime
      [] source = ""         -> TRUE
      [] OTHER               -> FALSE

Accept(o, m) ==
    /\ o.instance >= 0 => o.instance = m.instance
    /\ AcceptChannel(o.channels, m.channel)
    /\ AcceptSource(o.source, m.realtime)

\* Fault: the two times change places.
EncodeSwapped(m) ==
    <<m.origin, m.sequence, m.instance, m.channel, m.realtime, m.count,
      m.elapsed, m.acquired, m.generated, m.reference, m.upi>>

\* The fields of a datagram, in the order they are written.
Encode(m) ==
    <<m.origin, m.sequence, m.instance, m.channel, m.realtime, m.count,
      m.elapsed, m.generated, m.acquired, m.reference, m.upi>>

DecodeMessage(d) ==
    [origin |-> d[1], sequence |-> d[2], instance |-> d[3], channel |-> d[4],
     realtime |-> d[5], count |-> d[6], elapsed |-> d[7], generated |-> d[8],
     acquired |-> d[9], reference |-> d[10], upi |-> d[11]]

Post(g, m) ==
    /\ posts' = posts \ {<<g, m>>}
    /\ IF Accept(Options[g], m)
       THEN Send(g, Encode(m))
       ELSE UNCHANGED netVars
    /\ UNCHANGED <<stored, queue, cache, batches, entered, tally>>

PoolNext ==
    \/ \E p \in Packets : NotifyQueue(p) \/ NotifyDrop(p)
    \/ CachePacket
    \/ Tick
    \/ \E b \in batches : Summarize(b)
    \/ \E post \in posts : Post(post[1], post[2])

-----------------------------------------------------------------------------
(* Properties. *)

\* Where the packets of key k are in a sequence.
OfKey(s, k) == {n \in DOMAIN s : KeyOf(s[n]) = k}

\* Packets of key k that wait for a goroutine to summarise them.
InBatches(k) == UNION {{b} \X OfKey(b, k) : b \in batches}

\* Packets of key k that were queued.
Entered(k) == {p \in entered : KeyOf(p) = k}

\* The counts that the messages report add up: of the packets of a stream that
\* Notify queued, each is still queued, cached or with a goroutine, or it was
\* counted by exactly one message, whatever arrives between two ticks.
TallyExact ==
    \A k \in Keys :
        tally[k] + Len(cache[k]) + Cardinality(OfKey(queue, k))
            + Cardinality(InBatches(k))
        = Cardinality(Entered(k))

\* What the configuration of a notifier asks for.
Matches(o, m) ==
    /\ o.instance < 0 \/ m.instance = o.instance
    /\ o.channels = <<>> \/ m.channel \in ToSet(o.channels)
    /\ o.source \in {"", IF m.realtime THEN "realtime" ELSE "playback"}

\* The order that the search expects.
Descending(chs) == \A a, b \in DOMAIN chs : a <= b => chs[a] >= chs[b]

\* The filter of a notifier, a binary search included, lets exactly the messages
\* of its source, instance and channels pass (for channels in the order that the
\* search expects), and nothing else is on its way to the readers.
FilterExact ==
    \A g \in Groups : Descending(Options[g].channels) =>
        /\ \A post \in posts : post[1] = g =>
              (Accept(Options[g], post[2]) <=> Matches(Options[g], post[2]))
        /\ \A d \in inbox[g] : Matches(Options[g], DecodeMessage(d))
=============================================================================
