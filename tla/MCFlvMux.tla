----------------------------- MODULE MCFlvMux -----------------------------
(* Small sets of buffers for module FlvMux. *)
EXTENDS FlvMux

\* Two units make a millisecond and eight milliseconds fill the clock.
Buffer(dts, pts, delta) == [dts |-> dts, pts |-> pts, delta |-> delta]

\* Decoding times, some with a later presentation, one buffer without the
\* former, one without either, and a time past the wrap.
TimesBuffers ==
  {Buffer(2, 2, FALSE), Buffer(3, 4, TRUE), Buffer(5, 9, TRUE),
   Buffer(TIME_NONE, 8, FALSE), Buffer(TIME_NONE, TIME_NONE, FALSE),
   Buffer(18, 18, FALSE)}

\* Times up to the largest int32 and past it: what a file is made of.
FileBuffers ==
  {Buffer(1, 1, FALSE), Buffer(4, 6, TRUE), Buffer(8, 8, FALSE),
   Buffer(12, 12, FALSE)}

\* New tags are written once, and not until a header has come through.
FewTags ==
  /\ Cardinality(Kind("meta")) =< 2
  /\ mux.new_tags => mux.state = "DATA"

\* Only the order of the buffers: downstream takes everything, both pads have
\* codec data before anything arrives, and there are no new tags.
OnlyTimes ==
  /\ mux.flow # "FLUSHING" /\ ~mux.new_tags
  /\ \A p \in Streams : ~pad[p].renewed
  /\ \A p \in Streams : pad[p].codec => pad[p].codec_data
  /\ arrived > 0 => \A p \in Streams : p \in Present /\ pad[p].codec

\* A file of which downstream takes everything, and whose pads stay.
OnlyFile ==
  /\ mux.flow # "FLUSHING" /\ FewTags
  /\ \A p \in Streams : ~pad[p].renewed /\ ~pad[p].codec_data
  /\ arrived > 0 /\ Present # Streams => Present = {"video"}

\* A stream made of any of the first, or a file made of any of the second.
OutputBuffers == TimesBuffers \cup FileBuffers

Queued(S) ==
  /\ \A p \in Streams : \A i \in DOMAIN pad[p].queue : pad[p].queue[i] \in S
  /\ \A i \in Media : out[i].buffer \in S

StreamOrFile ==
  IF mux.streamable THEN OnlyTimes /\ Queued(TimesBuffers)
  ELSE OnlyFile /\ Queued(FileBuffers) /\ restarts = 0

\* What is said of the order of tags, whatever their times.
OneBuffer == {Buffer(2, 2, FALSE)}
=============================================================================
