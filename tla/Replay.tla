------------------------------- MODULE Replay -------------------------------
(***************************************************************************)
(* The replay command reads the files of a storage in the format of the    *)
(* HRDP archive, possibly while listen writes them, and sends their        *)
(* packets to a listen command.  The goroutines that walk the directories  *)
(* and scan the files hand their tokens over one by one: they are the      *)
(* sequence tokens here, filled file by file.                              *)
(***************************************************************************)
EXTENDS Archive

CONSTANT Counts     \* values of the flag -n, 0 for no limit

ASSUME ReplayAssumption == Counts \subseteq Int

VARIABLES
    rpc,            \* "start", "run", "done", "failed" or "panic"
    num,            \* flag -n
    walked,         \* storage the files of which are replayed
    todo,           \* names of the files still to be read
    tokens,         \* tokens scanned and not yet sent
    turn,           \* turns of the loop
    played,         \* tokens sent
    due             \* ids of the packets that replay has to send

replayVars == <<rpc, num, walked, todo, tokens, turn, played, due>>
vars == <<archiveVars, replayVars>>

ReplayInit ==
    /\ rpc = "start"
    /\ num = 0
    /\ walked = 0
    /\ todo = {}
    /\ tokens = <<>>
    /\ turn = 0
    /\ played = <<>>
    /\ due = {}

\* A token is the packet in it, by its id, or nothing, or a piece of a file.
Empty == 0
Junk  == -1

FileOf(name) == files[<<walked, NoKey, name>>]

\* Fault: the newest file is first.
WalkNextNewest(names) == Max(names)

\* filepath.Walk visits the files in the order of their names.
WalkNext(names) == Min(names)

\* The packets of a file in front of the first record that was cut short.
Whole(file) ==
    {file[m].pkt.id : m \in {n \in DOMAIN file : \A k \in 1 .. n : ~file[k].cut}}

\* Replay: connect and start the walk.
Connect(s) ==
    LET names == {f[3] : f \in {g \in DOMAIN files : g[1] = s}}
    IN  /\ rpc = "start"
        /\ stores[s].scheme = "hrdp"
        /\ stores[s].format = "vmu"
        /\ rpc' = "run"
        /\ num' \in Counts
        /\ walked' = s
        /\ todo' = names
        /\ due' = {r[1].id : r \in returned} \cap
                      UNION {Whole(files[<<s, NoKey, n>>]) : n \in names}
        /\ UNCHANGED <<archiveVars, tokens, turn, played>>

\* The walk scans one file.  At its end it hands over what is left, which is
\* empty, or a piece of a record with its headers, or what followed one: then
\* the length found there may make it panic, or be more than the buffer of the
\* scanner takes, which ends the walk.
ReadFile ==
    LET scan == Scan(FileOf(WalkNext(todo)))
        pkts == [n \in DOMAIN scan.records |-> scan.records[n].pkt.id]
    IN  /\ rpc = "run"
        /\ todo # {}
        /\ tokens = <<>>
        /\ todo' = todo \ {WalkNext(todo)}
        /\ \/ /\ tokens' = pkts \o (IF scan.rest = "empty" THEN <<Empty>> ELSE <<Junk>>)
              /\ UNCHANGED rpc
           \/ /\ scan.rest = "unknown"
              /\ rpc' \in {"panic", "failed"}
              /\ UNCHANGED tokens
        /\ UNCHANGED <<archiveVars, num, walked, turn, played, due>>

\* A file or a directory cannot be read: the walk ends, and the command with
\* it as if it had seen everything.
WalkFails ==
    /\ rpc = "run"
    /\ todo # {}
    /\ tokens = <<>>
    /\ Fault
    /\ todo' = {}
    /\ rpc' = "failed"
    /\ UNCHANGED <<options, pc, at, pkt, err, now, rollers, files, returned, failed,
                   lost, sent, rolls, num, walked, tokens, turn, played, due>>

Sends(token) == token # Empty

\* One turn of the loop of runReplay: an empty token takes a turn as well.
Send ==
    /\ rpc = "run"
    /\ tokens # <<>>
    /\ num <= 0 \/ turn < num
    /\ turn' = turn + 1
    /\ tokens' = Tail(tokens)
    /\ played' = IF Sends(Head(tokens)) THEN Append(played, Head(tokens)) ELSE played
    /\ UNCHANGED <<archiveVars, rpc, num, walked, todo, due>>

\* Writing to the connection fails: the token is counted and the loop goes on,
\* unless the error is not a temporary one of the network.
SendFails ==
    /\ rpc = "run"
    /\ tokens # <<>>
    /\ Sends(Head(tokens))
    /\ num <= 0 \/ turn < num
    /\ Fault
    /\ turn' = turn + 1
    /\ tokens' = Tail(tokens)
    /\ due' = due \ {Head(tokens)}
    /\ rpc' \in {"run", "failed"}
    /\ UNCHANGED <<options, pc, at, pkt, err, now, rollers, files, returned, failed,
                   lost, sent, rolls, num, walked, todo, played>>

\* The limit is reached, or the walk is over.
ReplayEnds ==
    /\ rpc = "run"
    /\ \/ num > 0 /\ turn >= num
       \/ todo = {} /\ tokens = <<>>
    /\ rpc' = "done"
    /\ UNCHANGED <<archiveVars, num, walked, todo, tokens, turn, played, due>>

ReplayNext ==
    \/ \E s \in DOMAIN stores : Connect(s)
    \/ ReadFile
    \/ WalkFails
    \/ Send
    \/ SendFails
    \/ ReplayEnds

Init == ArchiveInit /\ ReplayInit
Next == ReplayNext \/ (ArchiveNext /\ UNCHANGED replayVars)
Spec == Init /\ [][Next]_vars

-----------------------------------------------------------------------------
(* Properties of the composition. *)

\* The packets replay sends are in the order in which they were stored, each
\* at most once, over all rotations, restarts and pieces of records.
PlayedInOrder ==
    \A i, j \in DOMAIN played :
        i < j /\ played[i] # Junk /\ played[j] # Junk => played[i] < played[j]

\* A replay that ended without an error and without a limit has sent every
\* packet that had been stored when it started, wherever it was in the files and
\* whatever was written to them meanwhile, except a packet behind a record that
\* was cut short in its file and one of which the sending failed.
PlayedAll == rpc = "done" /\ num <= 0 => due \subseteq ToSet(played)

\* Replay sends the packets of the files in their order, and all of them.
Played == PlayedInOrder /\ PlayedAll
=============================================================================
