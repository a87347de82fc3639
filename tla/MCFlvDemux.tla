---------------------------- MODULE MCFlvDemux ----------------------------
(***************************************************************************)
(* Instances of FlvDemux: small files whose tags differ in what the        *)
(* demuxer tells apart, and seeks to their times.                          *)
(***************************************************************************)
EXTENDS FlvDemux

Tag(type, time, key, codec, packet, items) ==
  [type |-> type, time |-> time, cts |-> 0, key |-> key, codec |-> codec,
   packet |-> packet, items |-> items]

Video(time, key) == Tag("video", time, key, "configured", "raw", {})
Plain(time, key) == Tag("video", time, key, "plain", "raw", {})
Audio(time) == Tag("audio", time, FALSE, "plain", "raw", {})
Config == Tag("video", 0, TRUE, "configured", "config", {})
Script(items) == Tag("script", 0, FALSE, "plain", "none", items)
Table1 == Script({"times", "filepositions"})

\* Files to seek in: an index at the end, one at the start, one
\* in between, none, and audio alone.
SeekFiles == {
  <<Config, Video(0, TRUE), Audio(1), Video(3, TRUE), Table1>>,
  <<Table1, Plain(0, TRUE), Plain(2, FALSE), Audio(3), Plain(4, TRUE)>>,
  <<Script({"duration"}), Plain(1, TRUE), Plain(2, FALSE), Audio(3)>>,
  <<Plain(0, TRUE), Table1, Plain(2, TRUE), Plain(3, FALSE), Plain(4, TRUE)>>,
  <<Audio(0), Script({"par"}), Audio(2)>>}

\* What PushDelivers asks of the files.
ASSUME PushFilesSettled == \A f \in SeekFiles : Settled(f)

\* Times that turn back, by little and by much, and past the largest; a stream
\* that comes too late; codecs that change, lack their configuration or are
\* unknown; packets without a frame; metadata that comes late.
End == Tag("video", 3, FALSE, "configured", "end", {})
Broken(type) == Tag(type, 0, FALSE, "plain", "none", {})
Later(tag, cts) == [tag EXCEPT !.cts = cts]

TagFiles == {
  <<Audio(6), Audio(7), Plain(7, TRUE), Audio(2), Plain(6, FALSE), Audio(3)>>,
  <<Plain(13, TRUE), Later(Plain(15, FALSE), 2), Plain(1, FALSE)>>,
  <<Plain(6, TRUE), Plain(1, TRUE), Plain(2, FALSE)>>,
  <<Audio(0), Audio(8), Plain(9, TRUE)>>,
  <<Video(0, TRUE), Config, Later(Video(1, TRUE), -2), Script({"par"}),
    Video(2, FALSE), End>>,
  <<Plain(0, TRUE), Script({"par"}), Config, Video(3, TRUE),
    Tag("video", 4, TRUE, "unsupported", "raw", {})>>,
  <<Broken("audio"), Tag("other", 0, FALSE, "plain", "none", {}), Audio(1),
    Broken("video")>>}

DemuxFiles == SeekFiles \cup TagFiles

BothFlags == {Streams}

SeekEvents ==
  [target : {2, 3}, flush : BOOLEAN, key_unit : {FALSE}, after : {FALSE}]

\* Only the first files are sought in, in them downstream takes everything, and
\* in the others upstream can do everything.
Scenario ==
  IF file \in SeekFiles
  THEN (\A p \in Streams : demux.pad[p].flow \in {"OK", "FLUSHING"}) /\ restarts + seeks <= 2
  ELSE seeks = 0 /\ upstream.seekable /\ upstream.sized

===========================================================================
