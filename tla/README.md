# Verification of hadock

This directory holds TLA+ specifications of hadock, the TLC configurations that
check them and TLAPS proofs of all its safety properties. Every definition is
translated from the code; `PROJECT.json` maps each of them to its lines.

## 1. The system

hadock receives high-rate data packets of the ground segment over TCP, archives
them and tells others about them.

| part | code | state | operations |
|---|---|---|---|
| listen pipeline | `cmd/hadock/listen.go`, `proto.go` | connections, three channels, one goroutine per stage | accept, decode, convert, store, notify, queue for the modules |
| hadock protocol | `proto.go`, `cmd/hadock/replay.go` | fragments collected by the decoder | write whole or in fragments, decode |
| forwarding plug-in | `TcpForwardPlugin/` | queue of buffers, flags `active` and `connected`, socket | `handlePacket`, `send`, client thread, `start`, `shutdown` |
| file storage | `storage/files.go`, `storage/storage.go` | files, metadata, links of the shares | `Store`, `writeMetadata`, `Link` |
| archive storage | `storage/archives.go`, `storage/hrdp.go`, `vmu/` | rolling files, one per key or per storage | filter, open, write, rotate |
| replay command | `cmd/hadock/replay.go` | connection, tokens scanned from the files | walk, scan, send |
| notification pool | `notifier.go` | queue, packets cached per origin | `Notify`, aggregation on a tick |
| cascading proxy | `cascading/proxy.go` | connection to a second hadock | write, reconnect |
| distribution server | `distrib/`, `cmd/hadock/distrib.go` | visitors of the rate limiter, rings of recent notifications | browse, fetch, download, purge, monitor |
| UDP forwarder | `cmd/hdk2udp` | readers per group, queue, counter | read notifications, compute the path of the file, write parameters |
| vmuzip, vmucat | `cmd/vmuzip`, `cmd/vmucat` | semaphore, goroutine per packet, counters | read, filter, export, count |
| tools | `cmd/mmaconv`, `plugins`, `internal`, `cmd/hadock/misc.go` | none that outlives a call | conversions |

The parts interact through channels (decoder, handler, `Convert`, `runListen`,
pool, modules), TCP (plug-in or replay to listen, proxy to a second listen), UDP
(pool to distribution server and UDP forwarder) and the file system (storage to
distribution server).

What is hard about it: a packet passes five goroutines and channels that are
closed one after the other; the plug-in shares a queue and two unlocked flags
between the threads of its host and its own thread, while the server comes and
goes; `Store` is a sequence of system calls, any of which can fail or be the
last one before a crash; valid and invalid copies of a packet arrive in any
order; notifications are collected between ticks, sent by goroutines that
overtake each other, over UDP, to programs that compute once more where the
packet was stored; rolling files are named after the second in which they are
opened, written by calls that fail half way, and read by their lengths while
they are written; a connection is copied to a second hadock that goes away in
the middle of a frame; products are served while their files are rewritten in
place. Section 7 and the list of hazards in `PROJECT.json` name the lines.

## 2. Modules

`Listen` is the listen command in binary mode. A packet is the pair of its
connection and its number. Each goroutine is a group of actions: `Accept` and
`AcceptFail` (accept loop), `ReadPacket`, `ReadFailure` and `ReadEnd`
(`DecodeBinaryPackets`), `HandlerRecv`, `HandlerSend`, `HandlerPanic` and
`HandlerClose` (closure of `ListenPackets`), the `Convert...` actions, the
`Main...` actions (loop of `runListen`: receive, `fs.Store`, `pool.Notify`, send
to the modules), `PoolRecv`, and `ModuleRecv` and `ModuleDone`. Channels are
bounded sequences, an unbuffered one is a joint step of sender and receiver, a
`select` with `default` is a pair of actions. What the code learns by decoding
(wanted instance, undecodable packet, too old for a notification) is chosen at
the step that looks at it. The outcome of `fs.Store` is only logged by the code,
so `tried` records the calls.

`LossyFifo` is the abstract specification of that pipeline: per connection,
frames are received, and later given to the storage at most once and in order;
frames may be passed over and never come back.

`TcpForward` is the forwarding plug-in. A buffer is named by its sequence
number. Critical sections are single steps, and so is every access to the
unlocked flags. `TakeSequence`, `CheckConnected` and `Push` are `handlePacket`
and `send` in a thread of the host; `Start`, `Shutdown` and `Joined` are `Init`
and `Reset`; the other actions are the client thread, with one action per
outcome of `socket`, `gethostbyname` and `connect`, and one per call of `::send`,
which waits when the socket has no room (`Blocked`). The server is external:
`ServerDown`, `ServerUp`, and `ServerReads`, which makes room.

`FileStore` is `filestore.Store` by system call, for valid and invalid copies of
tables and images, with shares. A name is a packet with the list of suffixes
that the code appended. Each call has an action for its failure, also those whose
error the code ignores (`StatFails`, `RemoveFails`, `UnlinkFails`); `spared`
remembers the names of which an invalid copy escaped.

`Codec` is the protocol between the replay command and the decoder: packets as
sequences of bytes, frames with fragment numbers of a limited width, and a
connection that ends anywhere.

`Announce` composes the notification chain out of five modules. `Paths` holds
the two computations of the path of a packet, `Directory` (`dirmaker.Prepare`,
from the packet) and `Reference` (`channel.Prepare` of the forwarder, from a
notification), as operators. `Multicast` is the network: a datagram may be lost,
overtaken or delivered twice, and one of the two reading programs listens.
`Pool` is the pool of the listen command: `NotifyQueue` and `NotifyDrop`
(`Pool.Notify`), `CachePacket` and `Tick` (the goroutine with the cache),
`Summarize` (goroutine per key and tick) and `Post` (goroutine per message and
notifier, with `Options.Accept` and the layout of a datagram). `Forward` is a
channel of the UDP forwarder: `Subscribe`, `SubscribeFail`, `ReadNotification`,
`Enqueue`, `EnqueueClosed` (a send to the closed queue) and `WriteParams`.
`Monitor` is the monitor of the distribution server: `MonitorRead` and
`MonitorReadError` write a slot of a ring, `CleanTick` and `CleanSweep` are the
ticker and the locked section of `Clean`, `Elapse` lets 15 minutes pass, and
`Served` is what a request sees.

`Archive` is the storages that write rolling files. `Setup` is `setupStorage`
for a configuration; `Store` and `NextStore` are `multistore.Store`, which calls
the storages one after the other; `Skip`, `OpenRoller`, `OpenFails`, `Write` and
`WriteFails` are `tarstore.Store` (with `storeMetadata`) and `hrdpstore.Store`;
`StoreFiles` is a storage of files among them, which is `FileStore` and of which
only the outcome counts here. `Made` takes the two names of a type or a format for
one.
`Roll` is the roller of package roll, which is external and may go on to the next
file between any two writes; `Crash` ends the process, and `Setup` may follow.
`Can` is the filter with its binary searches (`Search`). A file is the sequence
of its records, and `Vmu` says what the encoders write into a record and what the
scanners of replay and dispatch find in it: lengths, start and checksum.
`Replay` adds the replay command, which reads the files of one storage at any
time: `Connect`, `ReadFile` (walk and scanner), `WalkFails`, `Send`, `SendFails`,
`ReplayEnds`.

`Cascade` is a connection of listen with the proxy to a second hadock. `Read`,
then `WriteConn`, `WriteFails`, `WriteBreaks` or `WriteDiscard`, are one read
through the tee; `Failed` is the error path of `proxy.Write`, `Redial` and
`CloseOld` are `reconnect`; `RemoteRead` is the decoder of the second hadock with
its search for a preamble. Positions are bytes. `Break` and `RemoteChanges` are
the network and the second hadock.

`Limiter` is the rate limiter (`Enter` and `Allow`; `Refill` is the clock of a
bucket, one token at a time; `Collect` and `Purge` are the two locked sections of
`purge`), and `Products` puts it in front of the handlers that read the archive:
`Open`, `ReadHeader`, `ReadBody` and `Send` for a product, `List`, `Visit`,
`Entered`, `Copy` and `Close` for a tar or zip of a directory, `Browse` for a
listing. An entry of a tar enters the archive as it was sent, also when it is
shorter than its header says (`Short`) or was cut off because the file grew; what
the tar writer then does is external. `Create`, `Fill` and `Unlink` are the store
that writes and removes the files meanwhile.

`Extract` is vmuzip and vmucat: `Read` and `ReadFails` (goroutine that reads and
filters, an unbuffered channel), `Recv`, `Acquire`, `Return`, `CountPacket`
(main) and, per packet, a worker with `CreateFile`, `CreateFails`, `Export` and
`ExportFails`. `rivals` remembers which packets of one name were exported beside
each other or later.

`Search` holds the binary searches of package sort, which answer in their own way
when a list is not in the order that they expect: `Halve` is one turn of the loop,
`Search` repeats it. `Lists` holds the loops that leave elements of a list out
(`Only`) and what `sort.SliceStable` makes of a list.

The theorems are in modules of their own: `ListenProofs` (listen and its file
store), `TcpForwardProofs`, `ArchiveProofs` (rolling storages and replay),
`ProductsProofs` (limiter and products), `CascadeProofs` (the proxy, and the
protocol of `Codec`), `ExtractProofs` and `AnnounceProofs` (pool, network,
forwarder and monitor). `Lemmas` has what several of them need: induction over
numbers, sums of sequences as `FoldLeft` computes them, joined sequences as
`FlattenSeq` computes them, what `Only` leaves of a list, and what the binary
search finds.

Each `MC...` module gives the values of the configurations that run it. A
definition whose comment starts with "Fault:" is a plausible mistake in the code;
`PROJECT.json` lists which property finds it.

## 3. Runs

| run | question | result |
|---|---|---|
| `ListenSafety` | two connections of two frames, queues of 2, pool and modules: `Accounted` (each frame in exactly one place), `StoredInOrder`, `ExitDrained`, `AnnouncedAfterStore`, refinement of `LossyFifo` | holds |
| `ListenLive` | buffer 0, no pool: `ConnReleased` although the storage may hang, `QueuedSettles` if it does not, items being handed over without a buffer | holds |
| `ListenAbort` | `ReceivedIsHandled`: is every received packet handled when the process stops? | violated: an error of `Accept` closes the queue under the handlers |
| `Tcp` | two threads, three packets in a queue of 2, two sends per packet, two cycles of `Init` and `Reset`, a server that comes and goes and need not read: `OneOwner`, `WholePackets`, `OrderPerThread`, `QueueDrains`, `StartedReturns`, `ConnectsAgain` | holds |
| `TcpShutdown` | `ShutdownReturns` when `Reset` may come before the client thread has run | violated: the thread sets `active` again |
| `FileFaults` | four calls of `Store`, three faults or crashes anywhere: `GoodExcludesBad`, `AckedStays` (with at most one torn file per fault), `ShareMirrors`, `MetadataHasRaw` | holds |
| `CodecRoundTrip` | three packets, whole or in chunks: `DecodedIsSent` | holds |
| `Announce` | three packets of two streams, two notifiers: `TallyExact` (counts add up across ticks), `FilterExact`, `ReferenceStored` (a reference is the path of a stored packet of its stream), `NewestServed` (the monitor shows the newest notification) | holds |
| `Archive` | ten configurations of storages, two packets, a rotation, a failed write or a crash, a replay at any time: `StoredAsWanted` (`ReturnedStored`: no storage that wants a packet misses it without an error; `ArchivesFiltered`; `MetadataFollows`), `FilesStay`, `ReadsBack` (the scanner finds the records), `Played` (`PlayedInOrder`, `PlayedAll`) | holds |
| `Cascade` | two or three frames, reads of two sizes, two broken connections: `RemoteExact` (`RemoteOrdered`, `RemoteFinds`), `NoLeak`, `LocalEnds` (with `LocalComplete`), `Forwarded` (what is sent after a reconnection arrives) | holds |
| `Distrib` | three requests of a connection against a store that writes an image twice, a table, metadata and removes an invalid copy: `ServedWhole` (and never a header with older data), `DownloadComplete` (and which entries have the announced size), `RateHeld`, `Answered` | holds |
| `Extract` | ten command lines of vmuzip and vmucat over five packets, three of one name, three faults: `WorkersBounded`, `ExportedWhole` (and no pieces left), `SelectedExact` (and the counters add up), `Terminates` | holds |

Some properties hold only with an exception that the code makes. It is part of
the property and its comment, so that a second exception would be found:

- `QueueDrains`, `StartedReturns`: `::send` has no timeout
  (`TcpForwardClient.cpp:159`), so both need a server that does not keep a
  connection open and stop reading from it for good (`NotStuck`); with such a
  server the queue stays as it is and `Reset` does not return.
- `ConnectsAgain`: for a connection of which the plug-in knows that it is lost,
  and as long as descriptors are left: a refused attempt leaks its descriptor
  (`TcpForwardClient.cpp:95`). Here the code does less than `readme.txt:106-108`
  of the plug-in says: a connection that the server closes is noticed only when a
  `::send` on it fails (`TcpForwardClient.cpp:126`, `161`), so a server that goes
  away and comes back has no connection until packets are sent. Without the
  hypothesis `~connected` the property is violated.
- `GoodExcludesBad`: `Store` ignores the error of a removal (`files.go:85`) and
  takes every error of `os.Stat` (`files.go:74`) for the absence of a file; after
  either, both copies are there until the valid one is stored again.
- `MetadataHasRaw`: the metadata of an invalid image stays when the valid copy
  replaces its raw data (`files.go:110` looks for another name).
- `DecodedIsSent`: a packet whose length is a multiple of the chunk size has no
  final fragment (`replay.go:140`) and is mixed with the ones behind it.
- `ReturnedStored`, `FilesStay`: a file opened twice in one second is truncated
  (`archives.go:131`); the format hdk drops the errors of its writes
  (`hrdp.go:103`).
- `ArchivesFiltered`: for lists that are sorted; the code searches them as they
  are.
- `ReadsBack`, `PlayedAll`: up to the first record that was cut short in a file;
  and not a packet of which the sending failed.
- `RateHeld`: on top of what the clock refills, two buckets instead of one, when
  purge deletes a visitor that came back.
- `ServedWhole`: not for a product whose file is written in place meanwhile.
- `DownloadComplete`: when a file grows while it is copied the walk ends
  (`archive.go:88`), and the tar gets its trailer all the same (`archive.go:61`);
  when one shrinks, the tar ends there without a trailer; when one vanishes before
  it is visited, the walk ends as well (`archive.go:64`). What such an archive
  misses comes behind a file that was changed.
- `Answered`: for a client that reads its answer; the server sets no timeout for
  writing.
- `SelectedExact`: with two or more formats the search of vmuzip misses packets.
- `ExportedWhole`: packets of one name have one file. A later export overwrites an
  earlier one without a word (`vmuzip.go:136`), and one that fails removes the
  file, whoever wrote it (`vmuzip.go:144`).
- `NoLeak`: a goroutine that is still dialing when the handler returns leaves its
  connection open.
- `LocalEnds`: not while the second hadock accepts the connection and does not
  read.

## 4. Bounds

`MaxFrames`, `MaxPackets`, `MaxStarts`, `MaxStores`, `MaxFaults`, `MaxTime`,
`MaxRolls`, `MaxRequests`, `MaxCopies`, `MaxEarned` and `MaxBreaks` bound what the
environment does. Two connections and two frames are enough for a packet to
overtake another one of its own or of another connection at every stage; queues of
2 let a queue be empty, partly filled and full, 0 is the unbuffered case. Two
threads and three packets fill a queue of 2 and drop its oldest buffer, or leave
one in the hands of the sender and one behind it; two starts let buffers of a
first cycle meet the second, two descriptors let the first refused attempt leave
one and the second none. Three faults let a second and a third one meet what the
first left behind: an unlink that fails, then a crash, then a link. In `Codec` the
width of a fragment number is 4 instead of 65536, with packets of up to 4
fragments, of lengths that the chunk size does and does not divide. In `Announce`
two packets share a stream, so a message may count one or two of them; the
notifier of the second group filters by source, instance and a list of channels; a
ring of 2 slots and three records (`MaxRecorded`) let slots be written again; one
datagram may be delivered twice (`MaxDups`); the two configurations of the
forwarder use the default levels and most of the others. Numbers of parameters
wrap at 2 instead of 65536. Forwarder and monitor do not interact, so each
behaviour has one of them.

In `Archive` two packets, two seconds, one rotation and one fault put a rotation
or a fault before, between or behind the packets, within a second or not; the
configurations combine two storages of the three kinds, with lists that are empty,
sorted and not sorted, a missing directory and unknown schemes, types and formats;
a table, an image and a table of version 1 with an origin that does not fit into a
byte are sent, and a table of a channel the encoder does not know. Checksums are
sums modulo 256 over a few bytes. In `Cascade` frames of 4, 5 and 7 bytes (4 is
the preamble alone) and reads of 3 and 5 let a connection start at the border of a
frame, inside of one and in step with a later one, or out of step for good, and a
break cuts at any byte. In `Distrib` a bucket holds 1 instead of 10 requests and
gets one more from the clock (`MaxEarned`), a file has a header and a body, and a
connection, whose requests are served one after the other, makes three requests;
connections share only files and the table of visitors, so one is enough beside
the store and purge. In `Extract` three packets have one file name, two of them
one path; semaphores of 0, 1 and 3.

Connections are interchangeable in `ListenSafety` and are a symmetry set there;
the other runs use no symmetry.

## 5. Fairness

`Listen`: handlers and converter are weakly fair, because the Go runtime
schedules a goroutine that can run. Clients have no fairness, and neither has
the loop of `runListen`, which calls the file system; where its progress is
needed (`QueuedSettles`) it is a hypothesis of the property. Pool and modules
have none. `TcpForward`: the client thread, the return of the join and a call of
`handlePacket` that has begun are weakly fair; packets, `Reset` and the server
are not, and a `::send` to a server that does not read is not enabled, so that it
may hang for ever. `Cascade`: the handler of the client, the goroutine that
reconnects and the decoders of the second hadock, which is the same program, are
weakly fair; a write to a second hadock that does not read is not enabled either,
and neither is its decoder. `Products`: a handler that runs is weakly fair,
clients, store and purge are not. `Extract`: the goroutines of the commands are
weakly fair. `FileStore`, `Codec`, `Announce` and `Archive` have no liveness
property and no fairness.

## 6. Proofs

What follows is proved for every value of the constants that the named assumptions
allow: any number of connections, threads, packets, files and faults, any
capacity. The bounds of section 4 do not matter here. The assumptions only give
constants their types, with these exceptions: a TcpForward process builds at most
65535 packets (`TcpForwardAssumption`, the 16 bits of its sequence number do not
wrap within a run), a frame has at least the four bytes of its preamble
(`CascadeAssumption`), the packets of an archive storage are decoded by their
channel (`OfChannel` in `ArchiveAssumption`), the packets of an archive are listed
once each and vmuzip has no flag for user information (`ExtractAssumption`), a
file has a header and something behind it (`ProductsAssumption`), and the number
of the last fragment of a packet fits into its field (`CodecAssumption`): the
packets of replay have up to 8 MB, so that -s must be 129 or more; with less the
numbers wrap and the decoder would end a packet too early.

Every theorem `Spec => []P` rests on an inductive invariant, because none of the
properties is inductive as it stands.

**ListenProofs**: `TypeCorrect` (types and capacities), `OrderCorrect`
(`StoredInOrder`), `ExitCorrect` (`ExitDrained`), `AnnounceCorrect`
(`AnnouncedAfterStore`), `FramesAccounted` (`Accounted`), and `FifoCorrect`: `Spec
=> ImplementsFifo`, the refinement of `LossyFifo`. `OrderInv` adds `Single` (a
goroutine holds at most one packet, of its own connection) and `Staged`: of two
packets of one connection, the one further down the pipeline was sent first, the
queues are ascending, and no packet is beyond what was read. Each action moves one
packet over one boundary between stages, so its case of `OrderStep` redraws that
boundary; the actions that move no packet are covered by `OrderIdle`. `CloseInv`
says in which order the channels are closed, `AnnounceInv` that an item past the
store step was given to the storage. For the refinement a store step is `Deliver`,
because the packet in the loop comes after all stored ones; a read is `Receive`;
every other step stutters. `Unique` says that a frame is in at most one named
place, and in some place exactly when it was read; a step moves one frame from one
place to another, and that it leaves the first one needs `OrderInv`: the head of
an ascending queue is not in its rest. The cardinality that `Accounted` compares
comes in only at the end.

The file store is in the same module: `CopiesExclude` (`GoodExcludesBad`),
`AcknowledgedKept` (`AckedStays`), `MetadataDescribes` (`MetadataHasRaw`),
`ShareShows` (`ShareMirrors`). `NamesUsed` works out which names the code computes
by appending suffixes, among them the ones no file has, and `HereStep` what a step
can add to the data directory or remove from it; `Written`, `Excluded`,
`Described` and `Mirrored` say, for each system call of `Store`, what earlier
calls have left. They hold with a fault or a crash behind any call, except where
the property itself excludes faults; a name in `spared` is only the concern of
`Excluded`.

**TcpForwardProofs**: `TypeCorrect`, `BuffersOwned` (`OneOwner`), `ThreadOrder`
(`OrderPerThread`), `PacketsWhole` (`WholePackets`). `Control` says where the
client thread can be, given the unlocked flags, and `Hands` what each thread
holds. `Divided` replaces the count of owners by disjoint sets that together are
all buffers built, which every step can be checked against; `OwnedCount` gets the
count back. `Ordered` compares the places on the way (connection, hand of the
client thread, queue, hands of the host) pairwise, and `Framed` says how many
parts of the current packet are on the connection.

**ArchiveProofs**: `StoresRight` (`StoredAsWanted`, all three parts), `FilesKept`
(`FilesStay`), `ReadsRight` (`ReadsBack`) and `PlayedRight` (`Played`).
`ArchiveInv` says of the storages that files are well formed (`FilesOk`: an entry
passed the filter, a record has the length, start and checksum of its encoder),
that a roller writes to the newest file of its key (`RollersOk`), that metadata is
due only behind its image (`MetaDue`, `FollowsIn`), and that of every packet
returned, and of the storages already called for the one at hand, it is settled
whether it is written, lost or failed (`AllSettled`). A step of the storages is
`Grown`: a file is created anew within its second, or one item is put behind one
file; what each part needs is a lemma about `Grown`, and each action is shown to
be one. The checksum goes over the pieces of a packet one by one, and `SumPieces`
shows that this is the sum of the whole. For replay, `Ascends` says that the ids of
the records ascend in a file and from one file of a storage to the next, `Fresh`
that the packet being stored is newer than all of them, `WalkOk` that the files
still to be read are the later ones, `OrderOk` that what was sent, what was scanned
and what is still to be read follow each other, and `DueOk` that a packet that was
due is in one of the three, or behind a record that was cut short. They hold while
the storages go on writing behind the scanner.

**ProductsProofs**: `RateLimited` (`RateHeld`), `ProductsWhole` (`ServedWhole`)
and `DownloadsComplete` (`DownloadComplete`). `Metered` adds what the bucket still
holds to what was granted, and compares it with what the clock gave: a connection
that purge is about to delete has one bucket in sum, so that deleting it gives two
at most. `Fetched` relates a request to the file it reads: a file is the beginning
of its newest copy, what was read of it ascends, and if it was left alone what was
read is the beginning of it. `Fetches` takes the contents of the files as
parameters, so that one lemma, `WriterFetched`, covers the store and another one,
`UpdateFetched`, every step of a handler. `Gathered` is about downloads: a file
that was not touched since the walk listed the directory is still to be visited,
being copied, or whole in the archive, or the walk has ended behind a file that
was touched; `Ordering` keeps the entries in the order of the directory, which is
what "behind" means.

**CascadeProofs**: `NothingLeaks` (`NoLeak`), `SecondDecodes` (`RemoteExact`, both
parts) and, for `Codec`, `DecodesRight` (`DecodedIsSent`). `Tended` says that each
open connection is the current one or about to be closed and that a goroutine
dials exactly while the proxy discards. `Apart` gives every connection its own
part of the stream, and `Tracked` says of each where its decoder is: before the
first frame that is in step with it (`Searching`), or at the end of a frame and
without a gap since that one (`Following`). For `Codec`, `Splits` says what the
frames of a packet are: numbered from 0, without a gap, the last one final unless
the chunk size divides the length, and together the payload. `CodecInv` says that
the frames on the wire are at consecutive places of what was written (`Travels`);
that the fragments collected are the beginning of the packet at the place before
them or, behind a packet without a final fragment, hold a byte of an earlier one
(`Collected`); and that what was returned unmixed are the clear packets up to that
place. Fragments collected in order can only be sorted one way (`SortedSame`), and
what is joined of mixed ones has bytes of two packets (`JoinedHas`).

**ExtractProofs**: `WorkersLimited` (`WorkersBounded`), `ExportsWhole`
(`ExportedWhole`) and `SelectsExactly` (`SelectedExact`). `Started` ties the
semaphore to the goroutines that run, for which a packet must not be taken twice
(`Taken`). `Opened` says that an empty file has a writer, also when packets of one
name remove each other's files, and `FilesOf` what the files of a packet hold at
each step of its goroutine. `Beside` says that a goroutine that runs is a rival of
every packet of its name that was started, and `Mixed` that the packets in a file
are rivals of each other and of those that write to it. `Asked` says that what was
taken, with the packet on offer, is what the flags mean among the packets read so
far, and `Counted` that the counters of vmucat add up to the packets taken. That
the search of a list finds what is in it needs the list to be in the order of the
search (`SortedDownIs`), which for formats holds only up to one element.

**AnnounceProofs**: `CountsAddUp` (`TallyExact`), `FiltersExactly`
(`FilterExact`), `NewestIsServed` (`NewestServed`) and `ReferencesStored`
(`ReferenceStored`). `Apart` says that a packet is in one place of the pool,
without which the counts of the places could not be added. `Sent` says that a
message on its way is about a stored packet and passed the filter of its group;
that the filter, with its binary search, is the one of the configuration is
`Lemmas`' fact about `Search` in a descending list. `Ringed` carries the newest
record of a stream in its ring. `Carried` follows the message through the
forwarder, and `SamePath` shows that both computations of the path agree, level
by level, although one drops empty levels first and the other joins them.

Induction over data is done by sets: `Lemmas.Induct` says that a set with 0 and
the successors of its elements has all numbers, which follows from the least
element of its complement. What a recursive function computes is proved from it,
as for the sums, the joined sequences and the search.

Only model-checked is liveness (`ConnReleased`, `QueuedSettles`, `QueueDrains`,
`StartedReturns`, `ConnectsAgain`, `LocalEnds`, `Forwarded`, `Answered`,
`Terminates`), which is out of reach of the prover. Every other property of a
passing run is stated by a theorem. The prover has no use for `SelectSeq`,
`SetToSortSeq` and `SortSeq`; where the models filter or sort, they do it with
`FlattenSeq` (`Only`) or choose among the orders of a list (`Lists`,
`Codec!Sorted`), of which the proofs then show that only one is right.

## 7. What is not modelled

Not modelled:

- gzip mode of listen (`DecodeCompressedPackets`): its packets share one buffer
  that the next read overwrites, and its channel is never closed. No property of
  its packets holds, and no document says what the mode promises.
- `hadock.DialProxy` (`proxy.go`) has no caller.
- dispatch beyond its scanner and the commands of `misc.go`: they read files one
  by one and print or copy them.
- the plug-ins of listen: what they do with a packet is conversion and output;
  `Listen` has their queue and goroutine. `h264` and `mma` are empty.
- `mmaconv`, `internal/image` and `internal/science`: conversion of pixels and
  samples, arithmetic without control.
- generated protobuf code, HTML and HTTP, log output and its counters.
- a failing `pthread_create` in the plug-in: `shutdown` would join a thread that
  was never started, which is undefined.

Names of files in a directory that is browsed have the five fields that hadock
gives them (origin, sequence, two of the time, format); a name with fewer makes the
goroutine of `readDir` panic (`browse.go:106-110`) and ends the server, which is
not modelled. A format of the configuration stands for all its spellings in small
and capital letters.

Assumptions about what is not under `src/`: SIGPIPE is ignored by the host of the
plug-in; the roller may rotate between any two writes but not within one; the
forwarder runs in the time zone of the stores, and the conversions of `panda` from
VMU time to Unix time agree with each other; the payload of a frame holds no
preamble. Checksums are computed by the decoder and not enforced, so they have no
effect there. `ReferenceStored` leaves out the packets whose directory of level
"upi" has another name in notifications (live packets, packets without user
information or with spaces in it), the channels that the forwarder takes for
another kind of packet, and configurations that the two programs read differently
(`SameConfig`); `FilterExact` is about a list of channels in descending order,
which the search of `Options.Accept` expects; in ascending order none of the
channels would pass. The size that `encodeImage` writes into the header of an
image is computed with the length of the header of a table (`encode.go:119`);
neither scanner reads that field.

## 8. Findings

The two violated runs are disagreements between the code and its documents; the
entries under `findings` in `PROJECT.json` quote both. A third disagreement, about
reconnecting in the plug-in, is the exception of `ConnectsAgain` in section 3.
