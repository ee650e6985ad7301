-------------------------------- MODULE Vmu ---------------------------------
(***************************************************************************)
(* The records the rolling store appends to its files, in bytes: what the  *)
(* length field of a record announces, where the packet starts in it and   *)
(* how many bytes are written.  The bytes themselves are left out, except  *)
(* for the ones the checksum runs over.                                    *)
(*                                                                         *)
(* A packet has fields kind ("table", "image"), version (of its header),   *)
(* channel, origin, instance, realtime, head and body (sequences of bytes) *)
(* and id.                                                                 *)
(***************************************************************************)
EXTENDS Naturals, Sequences, SequencesExt

CONSTANT SumModulus     \* 2^32 in the code, smaller here so that sums wrap

ASSUME VmuAssumption == SumModulus \in Nat \ {0}

HRDPHeaderLen  == 14
HRDLSyncLen    == 8
VMUHLen        == 16
SDHLenV2       == 56
IDHLenV2       == 76
hrdpHeaderSize == 44

\* The channels of panda, external.
Science == 3
Videos  == {1, 2}

Width(fields) == FoldLeft(LAMBDA x, y : x + y, 0, fields)

\* hrdlSum.Write: the sum goes on over the pieces it is given.
WriteSum(sum, bs) == FoldLeft(LAMBDA s, b : (s + b) % SumModulus, sum, bs)
SumHRD(bs) == WriteSum(0, bs)

\* Bytes of the header of a packet, external: what panda's structures take.
HeaderBytes(p) == IF p.kind = "table" THEN 56 ELSE 76

-----------------------------------------------------------------------------
(* The format of the HRDP archive. *)

\* Fields written after the length: payload, origin, channel and two times.
HRDPHeader == <<2, 1, 1, 4, 1, 4, 1>>
HRDLSync   == <<4, 4>>
VMUHeader  == <<1, 1, 2, 4, 4, 2, 2>>

\* Fault: all packets are taken for tables.
sizeTable(p) ==
    HRDPHeaderLen + HRDLSyncLen + VMUHLen + 4 + SDHLenV2 + Len(p.body)

\* The length encodeHRDPHeader announces.
encodeHRDPHeader(p) ==
    HRDPHeaderLen + HRDLSyncLen + VMUHLen + 4
        + (IF p.channel = Science THEN SDHLenV2 ELSE IDHLenV2) + Len(p.body)

\* The checksum encodeTable and encodeImage write behind the body.
encodeSum(p) == WriteSum(WriteSum(0, p.head), p.body)

\* A record, or an error for an unknown channel or a header of the first version.
EncodePacket(p) ==
    LET start == 4 + Width(HRDPHeader) + Width(HRDLSync)
    IN  [ok    |-> p.channel \in Videos \cup {Science} /\ p.version = 2,
         pkt   |-> p,
         size  |-> encodeHRDPHeader(p),
         start |-> start,
         bytes |-> start + Width(VMUHeader) + HeaderBytes(p) + Len(p.body) + 4,
         sum   |-> encodeSum(p),
         cut   |-> FALSE]

-----------------------------------------------------------------------------
(* The format of hadock. *)

\* FCC, sequence, acquisition time, the two sides of an image, and the data.
encodeRawPacket(p) ==
    Width(<<4, 4, 8>>) + (IF p.kind = "image" THEN Width(<<2, 2>>) ELSE 0)
        + Len(p.body)

\* instance, channel, mode, origin, sequence, time and user information.
HadockHeader == <<1, 1, 1, 1, 4, 4, 32>>

\* A record, or an error when the origin is not a hexadecimal byte.
encodeHadock(p) ==
    [ok    |-> p.origin < 256,
     pkt   |-> p,
     size  |-> encodeRawPacket(p) + hrdpHeaderSize,
     start |-> 4,
     bytes |-> 4 + Width(HadockHeader) + encodeRawPacket(p),
     sum   |-> 0,
     cut   |-> FALSE]

-----------------------------------------------------------------------------
(* The scanners.  A file is a sequence of records; the write of one may     *)
(* have been cut short: then bytes is smaller than it was.                  *)

\* Where the token of scanVMUPackets and of scanPackets starts in a record.
TokenStart(format) ==
    IF format = "vmu" THEN 4 + HRDPHeaderLen + HRDLSyncLen ELSE 4

\* The records read while the scanner is at the start of a record.
InStep(file) ==
    SelectInSeq(file \o <<[size |-> 0, bytes |-> 0]>>,
                LAMBDA r : r.bytes # r.size + 4)

\* What a file yields: its records up to the first one that is not in step,
\* and then, at the end of the file, what is left of it as a last token.  What
\* follows a record that was cut short is not at the start of a record: the
\* length found there is any number.
Scan(file) ==
    LET n == InStep(file) - 1
    IN  [records |-> SubSeq(file, 1, n),
         rest    |-> IF n = Len(file) THEN "empty"
                     ELSE IF n = Len(file) - 1 THEN "partial" ELSE "unknown"]
=============================================================================
