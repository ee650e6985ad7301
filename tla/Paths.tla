------------------------------- MODULE Paths --------------------------------
(***************************************************************************)
(* The two places that compute where the raw data of a packet is archived: *)
(* the stores, from the packet (dirmaker.Prepare), and the UDP forwarder,  *)
(* from a notification (channel.Prepare).  A path is a sequence of         *)
(* directories, a directory a sequence of words, numbers or both.          *)
(*                                                                         *)
(* A configuration is a record [levels, time, interval]; a packet has      *)
(* fields name, kind, channel, realtime, origin, instance, seq, vmu, acq   *)
(* and info, the words of its user information.  Times count minutes.      *)
(***************************************************************************)
EXTENDS Integers, Sequences, SequencesExt

CONSTANT EpochOffset    \* between VMU time and Unix time, in minutes

\* panda.AdjustGenerationTime and panda.GenerationTimeFromEpoch.
Adjust(t) == t + EpochOffset

Classic   == <<"instance", "type", "mode", "source">>
TimeLevel == <<"year", "doy", "hour", "minute">>

DefaultLevels == <<"classic", "vmu">>

\* An option or a level that is not set.
Unset == ""

\* Levels of a store: empty ones are dropped first.
checkLevels(ls) ==
    LET vs == FlattenSeq([n \in DOMAIN ls |-> IF ls[n] = Unset THEN <<>> ELSE <<ls[n]>>])
    IN  IF vs = <<>> THEN DefaultLevels ELSE vs

\* Levels of a forwarder, set in its main.
forwarderLevels(ls) == IF ls = <<>> THEN DefaultLevels ELSE ls

\* The levels that a level stands for, and the time of these.
Members(level) ==
    CASE level = "classic"       -> Classic
      [] level \in {"vmu", "acq"} -> TimeLevel
      [] OTHER                   -> <<level>>

MembersTime(level, t, vmu, acq) ==
    CASE level = "vmu" -> vmu
      [] level = "acq" -> acq
      [] OTHER         -> t

\* Years have 365 days here; g is the interval, 0 for none.
TimeDir(level, t, g) ==
    CASE level = "year"   -> << <<t \div 525600>> >>
      [] level = "doy"    -> << <<(t \div 1440) % 365>> >>
      [] level = "hour"   -> << <<(t \div 60) % 24>> >>
      [] level = "minute" -> IF g > 0 THEN << <<((t \div g) * g) % 60>> >>
                                      ELSE <<>>

TEST == 0
SIM1 == 1
SIM2 == 2
OPS  == 255

instanceDir(i) ==
    CASE i = TEST          -> <<"TEST">>
      [] i \in {SIM1, SIM2} -> <<"SIM", i>>
      [] i = OPS           -> <<"OPS">>
      [] OTHER             -> <<"DATA-", i>>

modeDir(realtime) == IF realtime THEN <<"realtime">> ELSE <<"playback">>

\* User information as text, with its spaces replaced by sep.
Text(info, sep) == IF Len(info) < 2 THEN info ELSE <<sep>> \o info

-----------------------------------------------------------------------------
(* The stores. *)

typeDir(kind) == IF kind = "table" THEN <<"sciences">> ELSE <<"images">>

getUPI(p) ==
    IF p.info # <<>> THEN Text(p.info, "-")
    ELSE IF p.kind = "table" THEN <<"SCIENCES">> ELSE <<"IMAGES">>

packetDir(level, t, g, p) ==
    CASE level = "upi"      -> <<getUPI(p)>>
      [] level = "instance" -> <<instanceDir(p.instance)>>
      [] level = "type"     -> <<typeDir(p.kind)>>
      [] level = "mode"     -> <<modeDir(p.realtime)>>
      [] level = "source"   -> << <<p.origin>> >>
      [] level \in ToSet(TimeLevel) -> TimeDir(level, t, g)
      [] OTHER              -> << <<level>> >>

packetDirs(level, t, g, p) ==
    LET ms == Members(level)
        mt == MembersTime(level, t, Adjust(p.vmu), p.acq)
    IN  FlattenSeq([i \in DOMAIN ms |-> packetDir(ms[i], mt, g, p)])

prepareDirectory(ls, g, p, t) ==
    FlattenSeq([n \in DOMAIN ls |-> packetDirs(ls[n], t, g, p)])

Directory(cfg, p) ==
    prepareDirectory(checkLevels(cfg.levels), cfg.interval, p,
                     IF cfg.time \in {"vmu", Unset} THEN Adjust(p.vmu) ELSE p.acq)

-----------------------------------------------------------------------------
(* The notifications and the forwarder. *)

extractUserInfo(p) ==
    IF p.realtime \/ p.info = <<>>
    THEN IF p.kind = "table" THEN <<"SCIENCE">> ELSE <<"IMAGE">>
    ELSE Text(p.info, " ")

whichType(channel) ==
    CASE channel \in {1, 2} -> <<"images">>
      [] channel = 3        -> <<"sciences">>
      [] OTHER              -> <<"unknown">>

\* path.Join ignores an empty level.
messageDir(level, t, g, m) ==
    CASE level = Unset      -> <<>>
      [] level = "upi"      -> <<m.upi>>
      [] level = "instance" -> <<instanceDir(m.instance)>>
      [] level = "type"     -> <<whichType(m.channel)>>
      [] level = "mode"     -> <<modeDir(m.realtime)>>
      [] level = "source"   -> << <<m.origin>> >>
      [] level \in ToSet(TimeLevel) -> TimeDir(level, t, g)
      [] OTHER              -> << <<level>> >>

messageDirs(level, t, g, m) ==
    LET ms == Members(level)
        mt == MembersTime(level, t, Adjust(m.generated), m.acquired)
    IN  FlattenSeq([i \in DOMAIN ms |-> messageDir(ms[i], mt, g, m)])

prepareReference(ls, m, g, t) ==
    FlattenSeq([n \in DOMAIN ls |-> messageDirs(ls[n], t, g, m)])

Reference(cfg, m) ==
    prepareReference(forwarderLevels(cfg.levels), m, cfg.interval,
                     IF cfg.time = "acq" THEN m.acquired
                                         ELSE Adjust(m.generated))
=============================================================================
