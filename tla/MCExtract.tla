----------------------------- MODULE MCExtract ------------------------------
(* Instances of Extract for TLC. *)
EXTENDS Extract

\* Two images of one name in different directories, one of them
\* recorded twice, and two tables.
MCPackets ==
    <<[id |-> 1, name |-> "x", dir |-> "d", format |-> 1, channel |-> 1,
       realtime |-> TRUE, origin |-> "33", upi |-> "a"],
      [id |-> 2, name |-> "x", dir |-> "e", format |-> 2, channel |-> 2,
       realtime |-> FALSE, origin |-> "33", upi |-> "b"],
      [id |-> 3, name |-> "y", dir |-> "d", format |-> 3, channel |-> 3,
       realtime |-> TRUE, origin |-> "51", upi |-> "a"],
      [id |-> 4, name |-> "z", dir |-> "d", format |-> 3, channel |-> 3,
       realtime |-> FALSE, origin |-> "51", upi |-> "b"],
      [id |-> 5, name |-> "x", dir |-> "d", format |-> 1, channel |-> 1,
       realtime |-> FALSE, origin |-> "33", upi |-> "a"]>>

VmuZip == [app |-> "zip", formats |-> <<>>, channels |-> <<>>, mode |-> "", limit |-> 0,
           parallel |-> 3, raw |-> FALSE, flat |-> FALSE, src |-> "", upi |-> ""]
VmuCat == [VmuZip EXCEPT !.app = "cat"]

MCFlagSets ==
    {[VmuZip EXCEPT !.flat = TRUE, !.raw = TRUE, !.channels = <<2, 1>>],
     [VmuZip EXCEPT !.channels = <<3, 1, 2>>, !.raw = TRUE, !.limit = 2],
     [VmuZip EXCEPT !.formats = <<3>>, !.limit = 1],
     [VmuZip EXCEPT !.formats = <<3, 1>>],
     [VmuZip EXCEPT !.mode = "realtime", !.parallel = 1],
     [VmuZip EXCEPT !.parallel = -1],
     VmuZip,
     VmuCat,
     [VmuCat EXCEPT !.upi = "a", !.mode = "playback"],
     [VmuCat EXCEPT !.channels = <<1, 3>>, !.src = "51"]}
=============================================================================
