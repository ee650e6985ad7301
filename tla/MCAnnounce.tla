----------------------------- MODULE MCAnnounce -----------------------------
(* Instances of Announce for TLC. *)
EXTENDS Announce

\* Two images of one stream, the later one with the smaller VMU time, and
\* a played back table; their times lie in different hours.
LiveA == [name |-> <<"a">>, kind |-> "image", channel |-> 1, realtime |-> TRUE,
          origin |-> "41", instance |-> OPS, seq |-> 1, vmu |-> 125,
          acq |-> 187, info |-> <<"run">>]
LiveB == [LiveA EXCEPT !.name = <<"b">>, !.channel = 2, !.seq = 2, !.vmu = 58,
                       !.acq = 253]
Table == [name |-> <<"t">>, kind |-> "table", channel |-> 3,
          realtime |-> FALSE, origin |-> "51", instance |-> SIM1, seq |-> 1,
          vmu |-> 3000, acq |-> 5000, info |-> <<"exp">>]

MCPackets == {LiveA, LiveB, Table}

MCOptions == [g1 |-> [source |-> "", instance |-> -1, channels |-> <<>>],
              g2 |-> [source |-> "realtime", instance |-> OPS,
                      channels |-> <<2, 1>>]]

\* The default levels, and most of the others.
MCConfigs == {[levels |-> <<>>, time |-> "", interval |-> 5],
              [levels |-> <<"archive", "", "type", "hour", "acq", "upi">>,
               time |-> "acq", interval |-> 7]}
=============================================================================
