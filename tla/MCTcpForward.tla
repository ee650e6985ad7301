---------------------------- MODULE MCTcpForward ----------------------------
(* Instances of TcpForward for TLC. *)
EXTENDS TcpForward
=============================================================================
