------------------------------ MODULE Products ------------------------------
(***************************************************************************)
(* The handlers of the distribution server that read the archive: products *)
(* (fetch.go), archives (archive.go) and browse (browse.go), while listen  *)
(* writes the files of the archive in place and removes some.              *)
(*                                                                         *)
(* A file is a sequence of pieces, the first of which is the header of the *)
(* raw data; a piece is the number of the copy it belongs to, 0 for a      *)
(* header that could not be read.                                          *)
(***************************************************************************)
EXTENDS Limiter, Lists

CONSTANTS
    Files,          \* names of files, in the order of a directory
    Metas,          \* the ones that end in .xml
    Bads,           \* the ones that end in .bad: removed when a valid copy comes
    Images,         \* the ones that hold an image, the others hold a table
    Present,        \* the ones that are there when the server starts
    Pieces,         \* pieces of a complete file
    MaxCopies,      \* bound: MaxCopies[f], how often f is written
    MaxRequests,    \* bound: requests
    Accepts,        \* media types a client may ask for: sets of types
    Absent          \* contents of a file that does not exist

ASSUME ProductsAssumption ==
    /\ Files \in Seq(STRING)
    /\ Pieces \in Nat \ {0, 1}
    /\ MaxCopies \in [ToSet(Files) -> Nat]
    /\ MaxRequests \in Nat

Name == ToSet(Files)

VARIABLES
    disk,           \* disk[f]: contents of file f
    copies,         \* copies[f]: how often f was written
    req,            \* req[c]: the request of c, see Idling
    touched,        \* touched[c]: files changed while c is served
    requests        \* requests so far

productVars == <<disk, copies, req, touched, requests>>
vars == <<limiterVars, productVars>>

\* No name, type or reason.
Blank == ""

\* A connection without a request, and the shape of a request.
Idling == [pc |-> "idle", kind |-> Blank, file |-> Blank, accept |-> {}, meta |-> FALSE,
           data |-> <<>>, todo |-> <<>>, size |-> 0, out |-> <<>>, code |-> 0, end |-> Blank]

Init ==
    /\ LimiterInit
    /\ disk = [f \in Name |-> IF f \in Present THEN [n \in 1 .. Pieces |-> 1] ELSE Absent]
    /\ copies = [f \in Name |-> IF f \in Present THEN 1 ELSE 0]
    /\ req = [c \in Conns |-> Idling]
    /\ touched = [c \in Conns |-> {}]
    /\ requests = 0

-----------------------------------------------------------------------------
(* The file store, seen from outside: os.Create, then the data, os.Remove. *)

Touch(f) == touched' = [c \in Conns |-> touched[c] \cup {f}]

Create(f) ==
    /\ copies[f] < MaxCopies[f]
    /\ IF disk[f] = Absent THEN copies[f] = 0 ELSE Len(disk[f]) = Pieces
    /\ disk' = [disk EXCEPT ![f] = <<>>]
    /\ copies' = [copies EXCEPT ![f] = @ + 1]
    /\ Touch(f)
    /\ UNCHANGED <<limiterVars, req, requests>>

Fill(f) ==
    /\ disk[f] # Absent
    /\ Len(disk[f]) < Pieces
    /\ disk' = [disk EXCEPT ![f] = Append(@, copies[f])]
    /\ Touch(f)
    /\ UNCHANGED <<limiterVars, copies, req, requests>>

Unlink(f) ==
    /\ f \in Bads
    /\ disk[f] # Absent
    /\ Len(disk[f]) = Pieces
    /\ disk' = [disk EXCEPT ![f] = Absent]
    /\ Touch(f)
    /\ UNCHANGED <<limiterVars, copies, req, requests>>

-----------------------------------------------------------------------------
(* Requests. *)

Update(c, r) == req' = [req EXCEPT ![c] = r]

\* The handler returns: the answer stays in req for the client.
Answer(c, code) ==
    Update(c, [req[c] EXCEPT !.pc = "done", !.code = code, !.accept = {},
                             !.data = IF code = 200 THEN @ ELSE <<>>])

Ready(c) == req[c].pc \in {"idle", "done"} /\ requests < MaxRequests

Ask(c, r) ==
    /\ Ready(c)
    /\ requests' = requests + 1
    /\ touched' = [touched EXCEPT ![c] = {f \in Name : disk[f] # Absent /\ Len(disk[f]) < Pieces}]
    /\ Update(c, r)
    /\ UNCHANGED <<disk, copies>>

\* A request for a product passes the limiter, or is refused with 429.
AskProduct(c, f, a) ==
    \E allowed \in BOOLEAN :
        /\ Limit(c, allowed)
        /\ Ask(c, [Idling EXCEPT !.kind = "product", !.file = f, !.accept = a,
                                 !.pc = IF allowed THEN "open" ELSE "done",
                                 !.code = IF allowed THEN 0 ELSE 429])

\* parseQuery: flat is never set, another type than tar and zip is refused.
AskArchive(c, type, meta) ==
    /\ Ask(c, [Idling EXCEPT !.kind = type, !.meta = meta,
                             !.pc = IF type \in {"tar", "zip"} THEN "list" ELSE "done",
                             !.code = IF type \in {"tar", "zip"} THEN 200 ELSE 400])
    /\ UNCHANGED limiterVars

\* Names of the directory now.
Names == Only(Files, {f \in Name : disk[f] # Absent})

\* The entries browse lists.
readDir == Only(Names, Name \ Metas)

\* Types of answers of browse, in the order in which it tries them.
Listings == <<"json", "xml", "csv">>

\* accept: the first type of the server the client names.
accept(a, vs) ==
    LET n == SelectInSeq(vs, LAMBDA v : v \in a)
    IN  IF n = 0 THEN Blank ELSE vs[n]

\* A listing is made at once: the directory is read before anything is sent,
\* or is not found.
Browse(c, a, found) ==
    LET none == ~found \/ accept(a, Listings) = Blank
    IN  /\ Ask(c, [Idling EXCEPT !.kind = "browse", !.accept = a, !.pc = "done",
                                 !.out = IF none THEN <<>> ELSE readDir,
                                 !.code = IF ~found THEN 404 ELSE IF none THEN 406 ELSE 200])
        /\ UNCHANGED limiterVars

-----------------------------------------------------------------------------
(* fetcher.ServeHTTP. *)

\* Types of products, in the order of the server.
types == <<"octet", "gif", "png", "jpeg", "csv">>

\* readFile or, for metadata, os.Open.
Open(c) ==
    /\ req[c].pc = "open"
    /\ IF disk[req[c].file] = Absent THEN Answer(c, 404)
       ELSE Update(c, [req[c] EXCEPT !.pc = "read"])
    /\ UNCHANGED <<limiterVars, disk, copies, touched, requests>>

\* The piece at the offset of a reader.  A file that was removed is still read
\* by those who have it open: it is not written any more.
PieceAt(f, n) == IF disk[f] # Absent /\ n <= Len(disk[f]) THEN <<disk[f][n]>> ELSE <<>>

\* The header: what is missing reads as zero, and the error is ignored.
ReadHeader(c) ==
    LET r     == req[c]
        piece == PieceAt(r.file, 1)
    IN  /\ r.pc = "read"
        /\ r.data = <<>>
        /\ disk[r.file] # Absent
        /\ IF "xml" \in r.accept
           THEN Update(c, [r EXCEPT !.data = piece, !.pc = IF piece = <<>> THEN "send" ELSE "read"])
           ELSE Update(c, [r EXCEPT !.data = IF piece = <<>> THEN <<0>> ELSE piece])
        /\ UNCHANGED <<limiterVars, disk, copies, touched, requests>>

\* Fault: the data is sent without what comes behind the header.
ReadBodyNot(c) ==
    /\ req[c].pc = "read"
    /\ req[c].data # <<>>
    /\ Update(c, [req[c] EXCEPT !.pc = "send"])
    /\ UNCHANGED <<limiterVars, disk, copies, touched, requests>>

\* Where the reader is in the file: a header that could not be read took nothing.
Offset(d) == IF d # <<>> /\ d[1] = 0 THEN Len(d) - 1 ELSE Len(d)

\* io.Copy: piece by piece up to the end of the file, wherever that is now.
ReadBody(c) ==
    LET r     == req[c]
        piece == PieceAt(r.file, Offset(r.data) + 1)
    IN  /\ r.pc = "read"
        /\ r.data # <<>>
        /\ disk[r.file] # Absent
        /\ Update(c, IF piece = <<>> THEN [r EXCEPT !.pc = "send"]
                                     ELSE [r EXCEPT !.data = @ \o piece])
        /\ UNCHANGED <<limiterVars, disk, copies, touched, requests>>

\* The file is removed under the reader: it reads on in the copy it has, which
\* was complete.
ReadRemoved(c) ==
    LET r == req[c]
        v == copies[r.file]
    IN  /\ r.pc = "read"
        /\ disk[r.file] = Absent
        /\ Update(c, [r EXCEPT !.pc = "send",
                               !.data = @ \o [n \in 1 .. Pieces - Offset(@) |-> v]])
        /\ UNCHANGED <<limiterVars, disk, copies, touched, requests>>

\* What the conversion of the data answers.  A header of zeros has no format;
\* data that was cut short may make the conversion panic, which ends the
\* request only.
Converted(r, type) ==
    LET format == IF r.file \in Images THEN {"gif", "png", "jpeg"} ELSE {"csv"}
    IN  CASE type = Blank       -> {406}
          [] type = "octet"     -> {200}
          [] r.data[1] = 0      -> {500}
          [] type \notin format -> {500}
          [] Len(r.data) < Pieces -> {200, 500, 0}
          [] OTHER              -> {200, 500}

Send(c) ==
    LET r == req[c]
    IN  /\ r.pc = "send"
        /\ IF "xml" \in r.accept THEN Answer(c, 200)
           ELSE \E code \in Converted(r, accept(r.accept, types)) : Answer(c, code)
        /\ UNCHANGED <<limiterVars, disk, copies, touched, requests>>

-----------------------------------------------------------------------------
(* downloader.ServeHTTP: writeTar and writeZip. *)

Entry(r) == [file |-> r.file, size |-> r.size, data |-> r.data]

\* filepath.Walk reads the names of the directory.
List(c) ==
    /\ req[c].pc = "list"
    /\ Update(c, [req[c] EXCEPT !.todo = Names, !.pc = "visit"])
    /\ UNCHANGED <<limiterVars, disk, copies, touched, requests>>

\* Fault: metadata is sent when it was not asked for.
SkipNone(r, f) == FALSE

Skipped(r, f) == ~r.meta /\ f \in Metas

\* The next name: a file that is gone ends the walk.
Visit(c) ==
    LET r == req[c]
        f == Head(r.todo)
    IN  /\ r.pc = "visit"
        /\ r.todo # <<>>
        /\ Update(c, IF disk[f] = Absent THEN [r EXCEPT !.pc = "vanished"]
                     ELSE IF Skipped(r, f) THEN [r EXCEPT !.todo = Tail(@)]
                     ELSE [r EXCEPT !.file = f, !.size = Len(disk[f]), !.todo = Tail(@),
                                    !.data = <<>>, !.pc = "enter"])
        /\ UNCHANGED <<limiterVars, disk, copies, touched, requests>>

\* External: a tar.Writer writes neither another header nor the trailer behind
\* an entry that is shorter than its header says.
Short(r) == r.kind = "tar" /\ r.out # <<>> /\ Len(Last(r.out).data) < Last(r.out).size

\* os.Open: a file that is gone is skipped.  The header of the entry has the
\* size found by the walk.
Entered(c) ==
    LET r == req[c]
    IN  /\ r.pc = "enter"
        /\ Update(c, [r EXCEPT !.pc = IF disk[r.file] = Absent THEN "visit"
                                      ELSE IF Short(r) THEN "short" ELSE "copy"])
        /\ UNCHANGED <<limiterVars, disk, copies, touched, requests>>

\* External: a tar.Writer takes no more than the size of the entry.
TooLong(r) == r.kind = "tar" /\ Len(r.data) = r.size

\* Fault: the copy waits for the bytes the header of the entry announces.
CopyWaits(c) ==
    LET r    == req[c]
        rest == PieceAt(r.file, Len(r.data) + 1)
    IN  /\ r.pc = "copy"
        /\ Update(c, IF Len(r.data) = r.size
                     THEN [r EXCEPT !.out = Append(@, Entry(r)), !.pc = "visit"]
                     ELSE [r EXCEPT !.data = @ \o rest])
        /\ UNCHANGED <<limiterVars, disk, copies, touched, requests>>

\* io.Copy to the entry: a file that grew ends the walk.
Copy(c) ==
    LET r     == req[c]
        rest  == IF disk[r.file] = Absent THEN [n \in 1 .. Pieces - Len(r.data) |-> copies[r.file]]
                 ELSE PieceAt(r.file, Len(r.data) + 1)
        grown == rest # <<>> /\ TooLong(r)
    IN  /\ r.pc = "copy"
        /\ Update(c, IF rest # <<>> /\ ~grown THEN [r EXCEPT !.data = Append(@, rest[1])]
                     ELSE [r EXCEPT !.out = Append(@, Entry(r)),
                                    !.pc = IF grown THEN "grown" ELSE "visit"])
        /\ UNCHANGED <<limiterVars, disk, copies, touched, requests>>

\* The archive is closed with its trailer, unless its last entry is short: the
\* errors of the walk are ignored.
Close(c) ==
    LET r == req[c]
    IN  /\ r.pc \in {"visit", "vanished", "grown", "short"}
        /\ r.pc = "visit" => r.todo = <<>>
        /\ Update(c, [r EXCEPT !.pc = "done", !.end = IF Short(r) THEN "short" ELSE r.pc])
        /\ UNCHANGED <<limiterVars, disk, copies, touched, requests>>

-----------------------------------------------------------------------------
Serve(c) ==
    \/ Open(c) \/ ReadHeader(c) \/ ReadBody(c) \/ ReadRemoved(c) \/ Send(c)
    \/ List(c) \/ Visit(c) \/ Entered(c) \/ Copy(c) \/ Close(c)

Asks(c) ==
    \/ \E f \in Name, a \in Accepts : AskProduct(c, f, a)
    \/ \E t \in {"tar", "zip", "rar"}, m \in BOOLEAN : AskArchive(c, t, m)
    \/ \E a \in Accepts, found \in BOOLEAN : Browse(c, a, found)

Writer(f) == Create(f) \/ Fill(f) \/ Unlink(f)

\* The server waits for requests, the store for packets.
Quiet ==
    /\ \A c \in Conns : req[c].pc \in {"idle", "done"}
    /\ UNCHANGED vars

Next ==
    \/ \E c \in Conns : Serve(c) \/ Asks(c)
    \/ \E f \in Name : Writer(f)
    \/ LimiterNext /\ UNCHANGED productVars
    \/ Quiet

Spec == Init /\ [][Next]_vars /\ \A c \in Conns : WF_vars(Serve(c))

-----------------------------------------------------------------------------
(* Properties. *)

Served(c) == req[c].pc = "done" /\ req[c].kind = "product" /\ req[c].code = 200

\* A product is one copy of its file, whole and with its header, unless the
\* file was written while the request was served; even then it never continues
\* the header of a copy with the data of an older one.
ServedWhole ==
    \A c \in Conns : Served(c) =>
        /\ req[c].file \notin touched[c] =>
             \E v \in 1 .. copies[req[c].file] : req[c].data = [n \in 1 .. Pieces |-> v]
        /\ \A i, j \in DOMAIN req[c].data : i < j => req[c].data[i] <= req[c].data[j]

Downloaded(c) == req[c].pc = "done" /\ req[c].kind \in {"tar", "zip"}

\* File g comes before file f in the directory.
Before(g, f) == \E i, j \in DOMAIN Files : i < j /\ Files[i] = g /\ Files[j] = f

\* The files an archive should hold: those browse shows, and the metadata when
\* they were asked for.
Due(c) == ToSet(readDir) \cup (IF req[c].meta THEN ToSet(Names) ELSE {})

\* An archive holds every file it should and that was not changed in the meantime,
\* whole, or ends early, and then misses only files that come behind one that was
\* changed: such an archive may have its trailer all the same.  Only the last
\* entry of a tar without a trailer is shorter than its header says, and there
\* are no metadata that were not asked for.
DownloadComplete ==
    \A c \in Conns : Downloaded(c) =>
        /\ \A f \in Due(c) \ touched[c] :
             \/ \E e \in ToSet(req[c].out) : e.file = f /\ e.data = disk[f]
             \/ req[c].end # "visit" /\ \E g \in touched[c] : Before(g, f)
        /\ req[c].kind = "tar" => \A n \in DOMAIN req[c].out :
             \/ Len(req[c].out[n].data) = req[c].out[n].size
             \/ req[c].end = "short" /\ n = Len(req[c].out)
        /\ ~req[c].meta => \A e \in ToSet(req[c].out) : e.file \notin Metas

\* Every request is answered, whatever is written in the meantime: for a client
\* that reads its answer, since the server sets no timeout for writing it.
Answered ==
    \A c \in Conns : req[c].pc # "idle" ~> req[c].pc = "done"
=============================================================================
