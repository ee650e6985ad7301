----------------------------- MODULE MCProducts -----------------------------
(* Instances of Products for TLC. *)
EXTENDS Products

\* A directory with an image, an invalid copy and the metadata of the image,
\* and a table; the image is still to come.
MCFiles   == <<"i", "i.bad", "i.xml", "t">>
MCAccepts == {{"octet", "png"}, {"png"}, {"xml"}, {"csv"}, {}}
MCCopies  == [f \in ToSet(MCFiles) |-> IF f = "i" THEN 2 ELSE 1]
=============================================================================
