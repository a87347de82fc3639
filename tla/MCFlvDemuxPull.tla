-------------------------- MODULE MCFlvDemuxPull --------------------------
(***************************************************************************)
(* Instances of FlvDemuxPull: files of several sections, and seeks into    *)
(* them from both ends.                                                    *)
(***************************************************************************)
EXTENDS FlvDemuxPull

Tag(type, time, key, codec, packet, items) ==
  [type |-> type, time |-> time, cts |-> 0, key |-> key, codec |-> codec,
   packet |-> packet, items |-> items]

Video(time, key) == Tag("video", time, key, "configured", "raw", {})
Plain(time, key) == Tag("video", time, key, "plain", "raw", {})
Audio(time) == Tag("audio", time, FALSE, "plain", "raw", {})
Config(time) == Tag("video", time, TRUE, "configured", "config", {})
Table1 == Tag("script", 0, FALSE, "plain", "none", {"times", "filepositions"})
Unknown == Tag("other", 0, FALSE, "plain", "none", {})

\* An index at the end; none; none to be made past an unknown tag; a new
\* configuration between sections; audio alone.
PullFiles == {
  <<Config(0), Video(0, TRUE), Audio(1), Video(2, TRUE), Video(4, TRUE), Table1>>,
  <<Plain(0, TRUE), Plain(1, FALSE), Audio(2), Plain(3, TRUE), Plain(5, TRUE)>>,
  <<Plain(0, TRUE), Unknown, Plain(2, TRUE), Plain(4, FALSE)>>,
  <<Config(0), Video(1, TRUE), Video(2, TRUE), Config(3), Video(3, TRUE), Video(5, TRUE)>>,
  <<Audio(0), Audio(2), Audio(3), Audio(5)>>}

\* What PullDelivers asks of the files.
ASSUME PullFilesSettled == \A f \in PullFiles : Settled(f)

PullFlags == {Streams, {"audio"}}

\* Seeks to key units flush, those to the one after go forwards.
PullEvents ==
  {ev \in [target : {1, 3}, rate : {-1, 1}, flush : BOOLEAN, key_unit : BOOLEAN,
           after : BOOLEAN] :
     (ev.key_unit => ev.flush) /\ (ev.after => ev.key_unit /\ ev.rate = 1)}

\* A restart takes the place of a seek.
AtMostTwo == restarts + seeks <= 2

===========================================================================
