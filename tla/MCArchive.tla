----------------------------- MODULE MCArchive ------------------------------
(* Instances of Archive and Replay for TLC. *)
EXTENDS Replay

Control(t, a, r) == [type |-> t, accept |-> a, reject |-> r]
All == Control("", <<>>, <<>>)

Files   == [scheme |-> "file", format |-> "", located |-> TRUE,
            control |-> Control("", <<1>>, <<>>)]
Tar(c)  == [scheme |-> "tar", format |-> "", located |-> TRUE, control |-> c]
Hrdp(f) == [scheme |-> "hrdp", format |-> f, located |-> TRUE, control |-> All]
None    == [scheme |-> "", format |-> "", located |-> TRUE, control |-> All]
Gone    == [scheme |-> "tar", format |-> "", located |-> FALSE, control |-> All]

MCConfigs ==
    {<<Tar(All), Hrdp("hrdp")>>,
     <<Hrdp("hadock"), Tar(Control("origin", <<51, 64>>, <<>>))>>,
     <<Files, [Tar(Control("source", <<>>, <<64>>)) EXCEPT !.scheme = "archive"]>>,
     <<Tar(Control("channel", <<1>>, <<1, 3>>))>>,
     <<Tar(Control("", <<>>, <<3, 1>>))>>,
     <<None, Tar(Control("unknown", <<>>, <<>>))>>,
     <<None>>, <<>>, <<Hrdp("vmu"), Gone>>, <<Hrdp("csv")>>}

Common == [id |-> 0, instance |-> 255, realtime |-> TRUE]
MCPackets ==
    {Common @@ [kind |-> "table", version |-> 2, channel |-> 3, origin |-> 51,
                head |-> <<3, 1>>, body |-> <<200, 100>>],
     Common @@ [kind |-> "image", version |-> 2, channel |-> 1, origin |-> 64,
                head |-> <<1, 2>>, body |-> <<7>>],
     Common @@ [kind |-> "table", version |-> 1, channel |-> 3, origin |-> 300,
                head |-> <<3, 9>>, body |-> <<>>],
     Common @@ [kind |-> "table", version |-> 2, channel |-> 4, origin |-> 51,
                head |-> <<4, 1>>, body |-> <<5>>]}

=============================================================================
