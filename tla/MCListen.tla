------------------------------ MODULE MCListen ------------------------------
(* Instances of Listen for TLC. *)
EXTENDS Listen, TLC

\* Connections are interchangeable in the safety runs.
ConnSymmetry == Permutations(Conns)
=============================================================================
