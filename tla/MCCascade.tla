----------------------------- MODULE MCCascade ------------------------------
(* Instances of Cascade for TLC. *)
EXTENDS Cascade

\* Frames whose lengths are multiples of four bytes, and frames that are not.
MCStreams == {<<4, 4, 4>>, <<7, 5>>}
=============================================================================
