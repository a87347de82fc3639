------------------------------ MODULE FlvMux ------------------------------
(***************************************************************************)
(* The FLV muxer (src/uflv/gstflvmux.c): one audio and one video input are *)
(* merged by time into one sequence of FLV tags.  The base class           *)
(* GstAggregator is external: it queues what arrives at a pad, and its one *)
(* task calls aggregate when every pad has a buffer or has ended, or, on a *)
(* live pipeline, when the time get_next_time gave has passed.  Whatever   *)
(* arrives while aggregate runs may as well have arrived before: caps and  *)
(* tags are handled by the same task, so one call is one step.             *)
(*                                                                         *)
(* Times are running times in units of which MSECOND make a millisecond.   *)
(* Tags are what the downstream gets; each counts as one byte.             *)
(***************************************************************************)
EXTENDS Integers, Sequences, FiniteSets

CONSTANTS
  Buffers,            \* what may arrive: records [dts, pts, delta]
  Streamables,        \* values of the property streamable
  Seekables,          \* answers of downstream to the seeking query
  Live,               \* the sources are live: aggregate may time out
  MSECOND, U32, MAX_INDEX_ENTRIES,
  MaxBuffers,         \* bound: buffers that arrive in one session
  MaxRestarts         \* bound: flushes and restarts

\* No time, unsigned (GST_CLOCK_TIME_NONE read as a gint64) and signed.
TIME_NONE == -1
STIME_NONE == -2

Times == Nat \cup {TIME_NONE}
G_MAXINT32 == U32 \div 2 - 1

ASSUME MuxAssumption ==
  /\ Buffers \subseteq [dts : Times, pts : Times, delta : BOOLEAN]
  /\ Streamables \subseteq BOOLEAN /\ Seekables \subseteq BOOLEAN
  /\ Live \in BOOLEAN
  /\ MSECOND \in Nat \ {0} /\ U32 \in Nat \ {0, 1}
  /\ MAX_INDEX_ENTRIES \in Nat \ {0}
  /\ MaxBuffers \in Nat /\ MaxRestarts \in Nat

VARIABLES
  mux,        \* struct GstUFlvMux, what it has pushed and rewritten
  sinkpads,   \* the pads requested, in that order
  pad,        \* pad[p]: struct GstUFlvMuxPad and what waits at it
  arrived, restarts

vars == <<mux, sinkpads, pad, arrived, restarts>>

Streams == {"audio", "video"}
Present == {sinkpads[i] : i \in DOMAIN sinkpads}

NoFile == [written |-> FALSE, duration |-> 0, index_len |-> 0, entries |-> {}]

NoBuffer == [dts |-> TIME_NONE, pts |-> TIME_NONE, delta |-> FALSE]

Chunk(kind, streams) ==
  [kind |-> kind, streams |-> streams, ts |-> 0, cts |-> 0,
   buffer |-> NoBuffer]

\* gst_flv_mux_pad_flush, and the queue the base class empties with it.
FlushedPad(q) ==
  [q EXCEPT !.last_timestamp = 0, !.pts = STIME_NONE, !.dts = STIME_NONE,
            !.queue = <<>>, !.eos = FALSE, !.renewed = FALSE]

\* codec is TRUE once it is not G_MAXUINT, codec_data once it is not NULL;
\* renewed is history: caps have come since the header was written.
NewPad ==
  [codec |-> FALSE, codec_data |-> FALSE, last_timestamp |-> 0,
   pts |-> STIME_NONE, dts |-> STIME_NONE, queue |-> <<>>, eos |-> FALSE,
   renewed |-> FALSE]

\* gst_flv_mux_reset; out and file are those of the session that begins.
Reset(m) ==
  [m EXCEPT !.state = "HEADER", !.first_timestamp = STIME_NONE,
            !.last_dts = 0, !.byte_count = 0, !.index = <<>>,
            !.new_tags = FALSE, !.flow = "OK", !.out = <<>>, !.file = NoFile]

Init ==
  /\ \E s \in Streamables :
       mux = [state |-> "HEADER", streamable |-> s, new_tags |-> FALSE,
              first_timestamp |-> STIME_NONE, last_dts |-> 0,
              byte_count |-> 0, index |-> <<>>,
              flow |-> "OK", room |-> 0, out |-> <<>>, file |-> NoFile]
  /\ sinkpads = <<>>
  /\ pad = [p \in Streams |-> NewPad]
  /\ arrived = 0 /\ restarts = 0

(***************************************************************************)
(* Tags.                                                                   *)
(***************************************************************************)

\* t / GST_MSECOND stored in a guint32; -1 / GST_MSECOND is 0.
Ms(t) == IF t < 0 THEN 0 ELSE (t \div MSECOND) % U32

\* The times of a pad before they are put in order.
RawDts(q) == IF q.dts = STIME_NONE THEN Ms(q.last_timestamp) ELSE Ms(q.dts)
RawPts(q) == IF q.dts = STIME_NONE THEN Ms(q.last_timestamp) ELSE Ms(q.pts)

\* Mutant: times may go backwards.
Dts_Unclamped(m, q) == RawDts(q)

\* Never behind the tag before it, of whichever stream.
Dts(m, q) == IF RawDts(q) < m.last_dts THEN m.last_dts ELSE RawDts(q)

\* Mutant: the composition time is taken before the time is put in order.
Cts_OfRaw(m, q) == IF RawPts(q) > RawDts(q) THEN RawPts(q) - RawDts(q) ELSE 0

Cts(m, q) == IF RawPts(q) > Dts(m, q) THEN RawPts(q) - Dts(m, q) ELSE 0

\* gst_flv_mux_buffer_to_tag: a tag of stream p, whose pad is q.
Tag(m, p, q, kind, b) ==
  [kind |-> kind, streams |-> {p}, cts |-> Cts(m, q), buffer |-> b,
   ts |-> IF m.first_timestamp = STIME_NONE THEN Dts(m, q)
          ELSE (Dts(m, q) - Ms(m.first_timestamp)) % U32]

\* gst_flv_mux_push, of several buffers until one is refused: downstream has
\* room for m.room more before it refuses.  The refused one is counted.
Push(m, chunks) ==
  IF Len(chunks) <= m.room
  THEN [m EXCEPT !.out = @ \o chunks, !.room = @ - Len(chunks),
                 !.byte_count = @ + Len(chunks)]
  ELSE [m EXCEPT !.out = @ \o SubSeq(chunks, 1, m.room), !.room = 0,
                 !.byte_count = @ + m.room + 1, !.flow = "FLUSHING"]

\* A tag is made and pushed.
PushTag(m, p, q, kind, b) ==
  Push([m EXCEPT !.last_dts = Dts(m, q)], <<Tag(m, p, q, kind, b)>>)

(***************************************************************************)
(* The header.                                                             *)
(***************************************************************************)

\* Mutant: audio codec data is written only where there is none for video.
CodecTag_EitherOr(m, p) ==
  IF /\ p \in Present /\ pad[p].codec /\ pad[p].codec_data
     /\ p = "audio" => ~pad["video"].codec_data
  THEN <<Tag(m, p, pad[p], "codec", NoBuffer)>> ELSE <<>>

\* codec_data stands for that of a codec that needs it: H.264, H.265, AAC.
\* No pad has a time before the header, so neither moves last_dts.
CodecTag(m, p) ==
  IF p \in Present /\ pad[p].codec /\ pad[p].codec_data
  THEN <<Tag(m, p, pad[p], "codec", NoBuffer)>> ELSE <<>>

WriteHeader(m, seekable) ==
  Push([m EXCEPT !.streamable = @ \/ ~seekable],
       <<Chunk("header", {p \in Present : pad[p].codec}), Chunk("meta", {})>>
         \o CodecTag(m, "video") \o CodecTag(m, "audio"))

\* GST_BUFFER_DTS_OR_PTS
Time(b) == IF b.dts # TIME_NONE THEN b.dts ELSE b.pts

Waiting == {i \in DOMAIN sinkpads : pad[sinkpads[i]].queue # <<>>}
Timed == {i \in Waiting : Time(pad[sinkpads[i]].queue[1]) # TIME_NONE}
TimeAt(i) == Time(pad[sinkpads[i]].queue[1])

\* The earliest buffer, on a tie that of the first pad; when none has a
\* time, that of the last.
BestIndex ==
  IF Timed # {}
  THEN CHOOSE i \in Timed : \A j \in Timed :
         TimeAt(i) < TimeAt(j) \/ (TimeAt(i) = TimeAt(j) /\ i =< j)
  ELSE CHOOSE i \in Waiting : \A j \in Waiting : j =< i

\* The header is written once.  A failure leaves the state as it is.
Begin(m, seekable) ==
  IF m.state = "DATA" THEN m
  ELSE LET h == WriteHeader(m, seekable) IN
         IF h.flow # "OK" THEN h
         ELSE [h EXCEPT !.state = "DATA",
                        !.first_timestamp =
                           IF Waiting # {} THEN TimeAt(BestIndex) ELSE 0]

\* New tags make a metadata tag, unless none of them is written there.
TakeTags(m, written) ==
  [(IF m.new_tags /\ written THEN Push(m, <<Chunk("meta", {})>>) ELSE m)
     EXCEPT !.new_tags = FALSE]

(***************************************************************************)
(* Buffers.                                                                *)
(***************************************************************************)

Popped(p) ==
  LET b == pad[p].queue[1] IN
    [pad[p] EXCEPT !.queue = <<>>, !.dts = Time(b),
                   !.pts = IF b.pts # TIME_NONE THEN b.pts ELSE Time(b)]

\* Without streamable, what is too large for an int32 is not written.
Fits(m, q) ==
  m.streamable \/ (q.dts - m.first_timestamp) \div MSECOND =< G_MAXINT32

\* Mutant: the position is taken after the tag is pushed.
UpdateIndex_After(m, p, b) ==
  IF (p = "video" /\ b.delta) \/ b.pts = TIME_NONE THEN m
  ELSE [m EXCEPT !.index =
          Append(@, [position |-> m.byte_count + 1, time |-> b.pts])]

\* The code builds the index backwards and reverses it at the end.
UpdateIndex(m, p, b) ==
  IF (p = "video" /\ b.delta) \/ b.pts = TIME_NONE THEN m
  ELSE [m EXCEPT !.index =
          Append(@, [position |-> m.byte_count, time |-> b.pts])]

WriteBuffer(m, p, q, b) ==
  PushTag(IF m.streamable THEN m ELSE UpdateIndex(m, p, b), p, q, "media", b)

(***************************************************************************)
(* The end.                                                                *)
(***************************************************************************)

WriteEos(m) ==
  IF "video" \in Present
  THEN PushTag(m, "video", pad["video"], "eos", NoBuffer) ELSE m

\* Mutant: the shorter stream counts.
DetermineDuration_Least ==
  CHOOSE t \in {pad[p].last_timestamp : p \in Present} :
    \A p \in Present : pad[p].last_timestamp >= t

DetermineDuration ==
  CHOOSE t \in {pad[p].last_timestamp : p \in Present} :
    \A p \in Present : pad[p].last_timestamp =< t

\* Mutant: one entry too many may be kept.
IndexSkip_Short(len) ==
  IF len > MAX_INDEX_ENTRIES THEN len \div MAX_INDEX_ENTRIES ELSE 1

\* Every IndexSkip-th entry is kept.
IndexSkip(len) ==
  IF len > MAX_INDEX_ENTRIES THEN 1 + len \div MAX_INDEX_ENTRIES ELSE 1

IndexLen(len) == (len + IndexSkip(len) - 1) \div IndexSkip(len)

Rewritten(m) ==
  LET len == Len(m.index) IN
    [written |-> TRUE, duration |-> DetermineDuration,
     index_len |-> IF len = 0 THEN 0 ELSE IndexLen(len),
     entries |-> {i \in 1..len : (i - 1) % IndexSkip(len) = 0}]

\* Nothing is rewritten if downstream refuses to seek back.
RewriteHeader(m) ==
  IF m.streamable \/ m.room = 0 THEN m
  ELSE [m EXCEPT !.file = Rewritten(m), !.byte_count = @ + 1]

(***************************************************************************)
(* Actions.                                                                *)
(***************************************************************************)

\* gst_flv_mux_create_new_pad
RequestPad(p) ==
  /\ mux.state = "HEADER" /\ p \notin Present
  /\ sinkpads' = Append(sinkpads, p)
  /\ pad' = [pad EXCEPT ![p] = NewPad]
  /\ UNCHANGED <<mux, arrived, restarts>>

\* gst_flv_mux_release_pad; there are at most two pads.
ReleasePad(p) ==
  /\ p \in Present
  /\ sinkpads' = IF Head(sinkpads) = p THEN Tail(sinkpads) ELSE <<Head(sinkpads)>>
  /\ pad' = [pad EXCEPT ![p] = NewPad]
  /\ UNCHANGED <<mux, arrived, restarts>>

\* Something comes down pad p, behind what came before it.
Input(p) == p \in Present /\ mux.flow = "OK" /\ pad[p].queue = <<>> /\ ~pad[p].eos

\* gst_flv_mux_video_pad_setcaps, gst_flv_mux_audio_pad_setcaps
SetCaps(p, codec_data) ==
  /\ Input(p)
  /\ pad' = [pad EXCEPT ![p].codec = TRUE, ![p].codec_data = @ \/ codec_data,
                        ![p].renewed = @ \/ mux.state = "DATA"]
  /\ UNCHANGED <<mux, sinkpads, arrived, restarts>>

NewTags(p) ==
  /\ Input(p) /\ mux' = [mux EXCEPT !.new_tags = TRUE]
  /\ UNCHANGED <<sinkpads, pad, arrived, restarts>>

\* No buffer comes before the caps, and the decoding times of one stream do
\* not decrease.
Arrive(p, b) ==
  /\ Input(p) /\ pad[p].codec /\ (p = "audio" => ~b.delta)
  /\ b.dts # TIME_NONE => b.dts >= pad[p].last_timestamp
  /\ arrived < MaxBuffers /\ arrived' = arrived + 1
  /\ pad' = [pad EXCEPT ![p].queue = <<b>>]
  /\ UNCHANGED <<mux, sinkpads, restarts>>

Eos(p) ==
  /\ Input(p) /\ pad' = [pad EXCEPT ![p].eos = TRUE]
  /\ UNCHANGED <<mux, sinkpads, arrived, restarts>>

\* gst_flv_mux_flush and gst_flv_mux_start; the pads are flushed before.
Restart ==
  /\ restarts < MaxRestarts /\ restarts' = restarts + 1
  /\ mux' = Reset(mux) /\ arrived' = 0
  /\ pad' = [p \in Streams |-> FlushedPad(pad[p])]
  /\ UNCHANGED sinkpads

\* Mutant: every pad must have a buffer.
NextTimeKnown_AllWaiting ==
  /\ mux.state = "HEADER" => \A p \in Present : pad[p].codec
  /\ Present # {} /\ Waiting = DOMAIN sinkpads

\* gst_flv_mux_get_next_time gives a time, and not "wait for data".
NextTimeKnown ==
  /\ mux.state = "HEADER" => \A p \in Present : pad[p].codec
  /\ Waiting # {}

AllPadsReady ==
  Present # {} /\ \A p \in Present : pad[p].queue # <<>> \/ pad[p].eos

\* The base class calls aggregate.
Called == mux.flow = "OK" /\ (AllPadsReady \/ (Live /\ NextTimeKnown))

\* What downstream takes in one call is at most a header of four, new tags, a
\* tag and the rewritten header.
Rooms == 0..7
WithRoom(room) == [mux EXCEPT !.room = room]
Leave(m) == mux' = [m EXCEPT !.room = 0] /\ UNCHANGED <<sinkpads, arrived, restarts>>

AggregateHeaderFails(room, seekable) ==
  LET m == Begin(WithRoom(room), seekable) IN
    /\ Called /\ m.flow # "OK"
    /\ Leave(m) /\ UNCHANGED pad

AggregateBuffer(room, seekable, written) ==
  LET begun == Begin(WithRoom(room), seekable)
      p == sinkpads[BestIndex]
      b == pad[p].queue[1]
      m == WriteBuffer(TakeTags(begun, written), p, Popped(p), b)
  IN /\ Called /\ begun.flow = "OK" /\ Waiting # {} /\ Fits(begun, Popped(p))
     /\ Leave(m)
     /\ pad' = [pad EXCEPT ![p] =
                  IF m.flow = "OK" /\ b.dts # TIME_NONE
                  THEN [Popped(p) EXCEPT !.last_timestamp = b.dts]
                  ELSE Popped(p)]

\* The buffer is dropped, and the stream goes on.
AggregateTooLarge(room, seekable, written) ==
  LET begun == Begin(WithRoom(room), seekable)
      p == sinkpads[BestIndex]
  IN /\ Called /\ begun.flow = "OK" /\ Waiting # {} /\ ~Fits(begun, Popped(p))
     /\ Leave(TakeTags(begun, written))
     /\ pad' = [pad EXCEPT ![p] = Popped(p)]

AggregateEos(room, seekable, written) ==
  LET begun == Begin(WithRoom(room), seekable)
      m == RewriteHeader(WriteEos(TakeTags(begun, written)))
  IN /\ Called /\ begun.flow = "OK" /\ Waiting = {}
     /\ Leave([m EXCEPT !.flow = "EOS"])
     /\ UNCHANGED pad

Aggregate ==
  \E room \in Rooms, seekable \in Seekables :
    \/ AggregateHeaderFails(room, seekable)
    \/ \E written \in BOOLEAN :
         \/ AggregateBuffer(room, seekable, written)
         \/ AggregateTooLarge(room, seekable, written)
         \/ AggregateEos(room, seekable, written)

Next ==
  \/ \E p \in Streams :
       \/ RequestPad(p) \/ ReleasePad(p) \/ NewTags(p) \/ Eos(p)
       \/ \E codec_data \in BOOLEAN : SetCaps(p, codec_data)
       \/ \E b \in Buffers : Arrive(p, b)
  \/ Restart
  \/ Aggregate

Spec == Init /\ [][Next]_vars

\* The task of the base class runs; the clock of a live pipeline goes on.
FairSpec == Spec /\ WF_vars(Aggregate)

(***************************************************************************)
(* Properties.                                                             *)
(***************************************************************************)

ChunkType ==
  [kind : {"header", "meta", "codec", "media", "eos"}, streams : SUBSET Streams,
   ts : 0..(U32 - 1), cts : 0..(U32 - 1), buffer : Buffers \cup {NoBuffer}]

MuxType ==
  [state : {"HEADER", "DATA"}, streamable : BOOLEAN, new_tags : BOOLEAN,
   first_timestamp : Times \cup {STIME_NONE}, last_dts : 0..(U32 - 1),
   byte_count : Nat, index : Seq([position : Nat, time : Nat]),
   flow : {"OK", "FLUSHING", "EOS"}, room : Nat, out : Seq(ChunkType),
   file : [written : BOOLEAN, duration : Nat, index_len : Nat,
           entries : SUBSET Nat]]

PadType ==
  [codec : BOOLEAN, codec_data : BOOLEAN, last_timestamp : Nat,
   pts : Times \cup {STIME_NONE}, dts : Times \cup {STIME_NONE},
   queue : {<<>>} \cup {<<b>> : b \in Buffers}, eos : BOOLEAN, renewed : BOOLEAN]

\* Every variable has its type: in particular a tag's times are 32 bits wide.
TypeOK ==
  /\ mux \in MuxType /\ mux.room = 0
  /\ sinkpads \in {<<>>, <<"audio">>, <<"video">>,
                  <<"audio", "video">>, <<"video", "audio">>}
  /\ pad \in [Streams -> PadType]
  /\ arrived \in 0..MaxBuffers /\ restarts \in 0..MaxRestarts

out == mux.out
Kind(kind) == {i \in DOMAIN out : out[i].kind = kind}
Media == Kind("media")
Of(i) == CHOOSE p \in Streams : out[i].streams = {p}

\* A session starts with one header, and every stream that has a media tag
\* is announced in its flags, whichever pad was late: get_next_time does not
\* let the header be written before each pad has its codec.  A decoder finds
\* the codec data of a stream, once, before its first media tag, if the
\* stream had any when the header was written.
HeaderPrepares ==
  /\ out # <<>> => Kind("header") = {1}
  /\ \A i \in Media :
       LET p == Of(i) IN
       /\ p \in out[1].streams
       /\ (p \in Present /\ pad[p].codec_data /\ ~pad[p].renewed) =>
            Cardinality({j \in Kind("codec") : out[j].streams = {p} /\ j < i}) = 1

\* librtmp "expects timestamps to go forward not only inside one stream, but
\* also between the audio & video streams" (gstflvmux.c:1076).
NeverBackwards ==
  \A i, j \in Media \cup Kind("codec") \cup Kind("eos") :
    i < j => out[i].ts =< out[j].ts

MsOf(t) == IF t < 0 THEN 0 ELSE t \div MSECOND
InOrder(i) == \A j \in Media : j < i => MsOf(Time(out[j].buffer)) =< MsOf(Time(out[i].buffer))

\* What arrives in order, and before milliseconds fill 32 bits, keeps its time
\* relative to the first buffer of its session, after a flush as well.  What is
\* moved to be in order is shown when it was to be: the tag's time and its
\* composition time add up to the presentation time, unless that has passed.
TimesKept ==
  \A i \in Media :
    LET b == out[i].buffer
        t == MsOf(Time(b))
        shown == MsOf(b.pts) - MsOf(mux.first_timestamp)
    IN t < U32 =>
         /\ InOrder(i) => out[i].ts = t - MsOf(mux.first_timestamp)
         /\ (b.pts # TIME_NONE /\ MsOf(b.pts) < U32 /\ out[i].ts =< shown)
              => out[i].ts + out[i].cts = shown

\* An index entry points at the tag it was made for: the byte count and the
\* tags pushed agree whatever metadata came in between.
IndexPositions ==
  \A k \in DOMAIN mux.index :
    LET e == mux.index[k] IN
      \/ e.position + 1 \in Media /\ out[e.position + 1].buffer.pts = e.time
      \/ e.position >= Len(out) /\ mux.flow = "FLUSHING"

FIXED == 11 + 8 + 22 + 10
FILLER == 14

\* The rewritten index stays in the space reserved for it, and when it is
\* shorter "there is at least 18 bytes free" (gstflvmux.c:1612) for the filler.
IndexFits ==
  mux.file.written =>
    LET used == FIXED + 18 * mux.file.index_len
        reserved == FIXED + 18 * MAX_INDEX_ENTRIES
    IN used = reserved \/ used + FILLER =< reserved

\* The duration that is rewritten covers every media tag with a decoding time
\* of the streams that are still there.
DurationCovers ==
  mux.file.written =>
    \A i \in Media :
      (out[i].streams \subseteq Present /\ out[i].buffer.dts # TIME_NONE
        /\ MsOf(Time(out[i].buffer)) < U32)
      => MsOf(Time(out[i].buffer)) =< MsOf(mux.file.duration)

\* On a live pipeline a silent stream does not hold up the other: once the
\* header is out, a buffer that waits is taken.
NoStarvation ==
  \A p \in Streams :
    (Live /\ mux.state = "DATA" /\ pad[p].queue # <<>>)
      ~> (pad[p].queue = <<>> \/ mux.flow # "OK")
=============================================================================
