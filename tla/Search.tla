------------------------------- MODULE Search -------------------------------
(* The binary searches of Go's package sort, external: the code calls them *)
(* on lists it has sorted, and on lists it has not.                        *)
EXTENDS Naturals, Sequences

\* One turn of the loop: half of the indexes i .. j - 1 are left, the ones
\* before or after the middle; T holds the indexes where the function is true.
Halve(r, T) ==
    LET h == (r.i + r.j) \div 2
    IN  IF r.i >= r.j THEN r
        ELSE IF h \in T THEN [i |-> r.i, j |-> h]
                        ELSE [i |-> h + 1, j |-> r.j]

\* sort.Search(n, f): binary search for the first index where f is true.  The
\* loop ends after n turns at the latest.
Search(n, T) ==
    LET loop[s \in 0 .. n] == IF s = 0 THEN [i |-> 0, j |-> n]
                                       ELSE Halve(loop[s - 1], T)
    IN  loop[n].i

\* x is at the index found in a list searched as ascending.
FoundAscending(vs, x) ==
    LET ix == Search(Len(vs), {i \in 0 .. Len(vs) - 1 : vs[i + 1] >= x})
    IN  ix < Len(vs) /\ vs[ix + 1] = x

\* x is at the index found in a list searched as descending.
FoundDescending(vs, x) ==
    LET ix == Search(Len(vs), {i \in 0 .. Len(vs) - 1 : vs[i + 1] <= x})
    IN  ix < Len(vs) /\ vs[ix + 1] = x
=============================================================================
