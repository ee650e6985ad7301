------------------------------ MODULE MCCodec -------------------------------
(* Instances of Codec for TLC. *)
EXTENDS Codec
=============================================================================
