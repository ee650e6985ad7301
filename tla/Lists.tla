------------------------------- MODULE Lists --------------------------------
(* Lists the code makes by going through another one. *)
EXTENDS Naturals, Sequences, SequencesExt

\* The elements of s that are in S, in their order.
Only(s, S) == FlattenSeq([n \in DOMAIN s |-> IF s[n] \in S THEN <<s[n]>> ELSE <<>>])

\* The orders in which the elements of s can be put.
Orders(s) == {[n \in DOMAIN s |-> s[p[n]]] : p \in Bijection(DOMAIN s, DOMAIN s)}

\* What sort.SliceStable makes of a list of numbers.
SortedUp(s)   == CHOOSE t \in Orders(s) : \A i, j \in DOMAIN t : i <= j => t[i] <= t[j]
SortedDown(s) == CHOOSE t \in Orders(s) : \A i, j \in DOMAIN t : i <= j => t[i] >= t[j]
=============================================================================
