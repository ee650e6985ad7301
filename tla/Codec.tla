------------------------------- MODULE Codec --------------------------------
(***************************************************************************)
(* The hadock protocol between the replay command, which writes packets,   *)
(* and the decoder of the listen command.  A packet travels whole          *)
(* (protocol 1) or, when a chunk size is given, as numbered fragments      *)
(* (protocol 2) that the decoder collects until the number of a fragment   *)
(* equals the number of the last one.                                      *)
(*                                                                         *)
(* The k-th packet is the sequence of its bytes <<k, 1>>, <<k, 2>>, ...    *)
(* and a stream is a sequence of frames; bytes inside a header are not     *)
(* modelled.  The connection is TCP: it delivers in order, until it ends.  *)
(***************************************************************************)
EXTENDS Naturals, Sequences, SequencesExt, TLC, Lists

CONSTANTS
    PacketLengths,  \* lengths of the packets to replay
    ChunkSizes,     \* values of -s; 0 selects protocol 1
    Width,          \* 2^16 in the code: fragment numbers are uint16
    MaxPackets      \* bound: packets replayed

ASSUME CodecAssumption ==
    /\ PacketLengths \subseteq Nat \ {0}
    /\ ChunkSizes \subseteq Nat
    /\ Width \in Nat \ {0}
    /\ MaxPackets \in Nat
    \* The number of the last fragment fits, as for 8 MB (the buffer of walk) in
    \* chunks of 129 bytes.
    /\ \A len \in PacketLengths, c \in ChunkSizes : c # 0 => len \div c < Width

VARIABLES
    chunk,          \* -s of this run of the replay command
    sent,           \* lengths of the packets written
    wire,           \* frames written and not yet read
    frags,          \* fragments the decoder has collected
    decoded,        \* payloads the decoder has returned
    open            \* the connection is open for the writer

codecVars == <<chunk, sent, wire, frags, decoded, open>>

CodecInit ==
    /\ chunk \in ChunkSizes
    /\ sent = <<>>
    /\ wire = <<>>
    /\ frags = <<>>
    /\ decoded = <<>>
    /\ open = TRUE

-----------------------------------------------------------------------------
(* The writer, replay.Write. *)

Payload(k, len) == [j \in 1 .. len |-> <<k, j>>]

Chunks(size, len) == (len + size - 1) \div size

\* c in preparePacketV2.
LastNumber(size, len) == len \div size

\* preparePacketV1: protocol 1 has no numbers, a frame is a packet.
WholeFrame(k, len) ==
    <<[final |-> TRUE, curr |-> 0, payload |-> Payload(k, len)]>>

\* preparePacketV2; final is the test Curr == Last of the reader.
Fragments(size, k, len) ==
    [i \in 1 .. Chunks(size, len) |->
        [final   |-> (i - 1) % Width = LastNumber(size, len) % Width,
         curr    |-> (i - 1) % Width,
         payload |-> SubSeq(Payload(k, len), (i - 1) * size + 1,
                            IF i * size < len THEN i * size ELSE len)]]

\* The frames of a packet.
Prepared(size, k, len) ==
    IF size = 0 THEN WholeFrame(k, len) ELSE Fragments(size, k, len)

Write(len) ==
    /\ open
    /\ Len(sent) < MaxPackets
    /\ sent' = Append(sent, len)
    /\ wire' = wire \o Prepared(chunk, Len(sent) + 1, len)
    /\ UNCHANGED <<chunk, frags, decoded, open>>

\* The connection ends after any frame.
Cut ==
    /\ open
    /\ open' = FALSE
    /\ \E n \in 0 .. Len(wire) : wire' = SubSeq(wire, 1, n)
    /\ UNCHANGED <<chunk, sent, frags, decoded>>

-----------------------------------------------------------------------------
(* The reader, DecodePacket. *)

\* sort.Slice by Curr: any order of the fragments that is sorted.  Permutations is
\* what TLC enumerates fast, Bijection the same set, with a meaning for the proofs.
Sorted(fs) ==
    {gs \in {[i \in DOMAIN fs |-> fs[p[i]]] :
               p \in Permutations(DOMAIN fs) \cap Bijection(DOMAIN fs, DOMAIN fs)} :
        \A i, j \in DOMAIN gs : i < j => gs[i].curr <= gs[j].curr}

\* The payloads of the fragments, one after the other.
Joined(fs) == FlattenSeq([i \in DOMAIN fs |-> fs[i].payload])

\* Fault: the payload of the last fragment only.
ReadFrameLast ==
    /\ wire # <<>>
    /\ wire' = Tail(wire)
    /\ IF Head(wire).final
       THEN decoded' = Append(decoded, Head(wire).payload) /\ frags' = <<>>
       ELSE frags' = Append(frags, Head(wire)) /\ UNCHANGED decoded
    /\ UNCHANGED <<chunk, sent, open>>

ReadFrame ==
    /\ wire # <<>>
    /\ wire' = Tail(wire)
    /\ LET fs == Append(frags, Head(wire)) IN
       IF Head(wire).final
       THEN /\ \E gs \in Sorted(fs) : decoded' = Append(decoded, Joined(gs))
            /\ frags' = <<>>
       ELSE /\ frags' = fs
            /\ UNCHANGED decoded
    /\ UNCHANGED <<chunk, sent, open>>

\* Everything was read.
Finished ==
    /\ wire = <<>>
    /\ ~open \/ Len(sent) = MaxPackets
    /\ UNCHANGED codecVars

CodecNext == (\E len \in PacketLengths : Write(len)) \/ Cut \/ ReadFrame \/ Finished

CodecSpec == CodecInit /\ [][CodecNext]_codecVars

-----------------------------------------------------------------------------
(* Properties. *)

\* No fragment of such a packet is the final one.
Endless(size, len) == size # 0 /\ len % size = 0

\* The packets that do not follow one without a final fragment, nor are one.
Clear ==
    {k \in DOMAIN sent :
        ~Endless(chunk, sent[k]) /\ (k > 1 => ~Endless(chunk, sent[k - 1]))}
ClearPayloads ==
    LET ks == Only([k \in DOMAIN sent |-> k], Clear)
    IN  [n \in DOMAIN ks |-> Payload(ks[n], sent[ks[n]])]

\* The payloads with bytes of one packet only.
OfOne == {bytes \in ToSet(decoded) : \A b \in ToSet(bytes) : b[1] = bytes[1][1]}
Unmixed == Only(decoded, OfOne)

\* The decoder returns the packets that were written, byte for byte, in their
\* order, wherever the connection ends.  Only a packet whose length the chunk
\* size divides is mixed with the ones behind it, up to the next one whose
\* length it does not divide: from there on the packets are right again.  When
\* everything was read nothing is left waiting for a fragment that will never
\* come, but for such packets.
DecodedIsSent ==
    /\ IsPrefix(Unmixed, ClearPayloads)
    /\ wire = <<>> /\ open => Unmixed = ClearPayloads

=============================================================================
