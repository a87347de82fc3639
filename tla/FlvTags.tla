------------------------------ MODULE FlvTags ------------------------------
(***************************************************************************)
(* What the FLV demuxer (src/uflv/gstflvdemux.c) does with one tag, in     *)
(* whichever mode it got it: the pads it makes, the caps, times, segments  *)
(* and buffers it pushes, and the index it keeps.                          *)
(*                                                                         *)
(* A file is a header and its tags.  Bytes are counted in units: the       *)
(* header is unit 0, and tag i is three units, its first four bytes (type  *)
(* and size), the rest of it, and the four bytes that repeat its size.     *)
(* Times are milliseconds, which the file keeps in 32 bits.                *)
(***************************************************************************)
EXTENDS MemIndex

CONSTANTS
  Files,                   \* the files that may come: sequences of tags
  RESYNC_THRESHOLD, NO_MORE_PADS_THRESHOLD, U32

Streams == {"audio", "video"}
TIME_NONE == -1

\* A codec whose packets need a configuration that comes in a tag of its own
\* (AAC, H.264, H.265), one that needs none, and one the demuxer lacks.
Codecs == {"configured", "plain", "unsupported"}

\* packet: "raw" holds a frame, "config" the configuration, "end" a packet
\* header and no frame, "none" nothing.  items: what a script tag sets before
\* its end or its first bad item.
Tags == [type : {"audio", "video", "script", "other"},
         time : 0..(U32 - 1), cts : Int, key : BOOLEAN, codec : Codecs,
         packet : {"raw", "config", "end", "none"},
         items : SUBSET {"duration", "par", "times", "filepositions"}]

ASSUME TagsAssumption ==
  /\ U32 \in Nat \ {0}
  /\ RESYNC_THRESHOLD \in 1..(U32 \div 2)
  /\ NO_MORE_PADS_THRESHOLD \in Nat
  /\ Files \subseteq Seq(Tags)

FLV_HEADER_SIZE == 1
FLV_TAG_TYPE_SIZE == 1
SIZE_OF_SIZE == 1
tag_size == 2
Position(i) == FLV_HEADER_SIZE + 3 * (i - 1)
Size(f) == Position(Len(f) + 1)
TagAt(f, pos) == (pos - FLV_HEADER_SIZE) \div 3 + 1
Starts(f) == {Position(i) : i \in DOMAIN f}

HasPayload(tag) == tag.type \in Streams /\ tag.packet = "raw"

\* A file whose streams keep their codec, and whose metadata do not change the
\* caps of a stream that needs a configuration: new caps drop the configuration,
\* and the frames up to the next one are left out without a discontinuity.
Settled(f) ==
  /\ \A i, j \in DOMAIN f :
       f[i].type \in Streams /\ f[i].type = f[j].type => f[i].codec = f[j].codec
  /\ \A i, j \in DOMAIN f :
       f[i].type = "script" /\ "par" \in f[i].items
       => ~(f[j].type = "video" /\ f[j].codec = "configured")

\* The numbers of some tags in the order of the file.
InOrder(S) ==
  CHOOSE s \in [1..Cardinality(S) -> S] : \A j, k \in DOMAIN s : j < k => s[j] < s[k]

\* The tags in the table of times and filepositions such a file holds.
Keyframes(f) ==
  {i \in DOMAIN f : f[i].type = "video" /\ f[i].key /\ HasPayload(f[i])}

---------------------------------------------------------------------------

NoSegment == [rate |-> 0, start |-> 0, position |-> 0, stop |-> TIME_NONE]
WholeSegment == [rate |-> 1, start |-> 0, position |-> 0, stop |-> TIME_NONE]
NoCaps == [codec |-> "none", codec_data |-> FALSE, par |-> FALSE]

\* What downstream of one pad has seen since its last flush; tag is the
\* number of the last tag it got a buffer of.
NothingOut == [tag |-> 0, dts |-> 0, pts |-> 0, discont |-> FALSE,
               resync |-> FALSE, segment |-> NoSegment, eos |-> FALSE]

NewPad ==
  [exists |-> FALSE, codec_data |-> FALSE, codec |-> "none", caps |-> NoCaps,
   need_discont |-> TRUE, need_segment |-> TRUE, last |-> 0,
   time_offset |-> 0, start |-> TIME_NONE, first_ts |-> TIME_NONE,
   done |-> FALSE, flow |-> "OK", out |-> NothingOut]

\* gst_flv_demux_init and the change to PAUSED, which makes a new index.
NewDemux ==
  [state |-> "HEADER", offset |-> 0, cur_tag_offset |-> 0, tag |-> 0,
   has |-> {}, got_par |-> FALSE, no_more_pads |-> FALSE, duration |-> TIME_NONE,
   times |-> FALSE, filepositions |-> FALSE, indexed |-> FALSE,
   upstream_seekable |-> FALSE, file_size |-> 0, index |-> <<>>,
   index_max_pos |-> 0, index_max_time |-> 0, segment |-> WholeSegment,
   new_seg_event |-> NoSegment, pad |-> [p \in Streams |-> NewPad], ret |-> "OK"]

\* gst_flv_demux_cleanup, beside the fields of one mode.  The two pads are
\* removed; the codec of a stream, its first time and whether it is done stay.
gst_flv_demux_cleanup(d) ==
  [NewDemux EXCEPT !.pad =
     [p \in Streams |-> [NewPad EXCEPT !.codec = d.pad[p].codec,
                                       !.first_ts = d.pad[p].first_ts,
                                       !.done = d.pad[p].done]]]

\* What the demuxer's record and a pad hold.
FlowReturns == {"OK", "NOT_LINKED", "EOS", "ERROR", "FLUSHING"}
States == {"HEADER", "TAG_TYPE", "TAG_VIDEO", "TAG_AUDIO", "TAG_SCRIPT", "SKIP", "SEEK"}
Segments == [rate : {-1, 0, 1}, start : Int, position : Int, stop : Int]
OutType ==
  [tag : Nat, dts : Nat, pts : Nat, discont : BOOLEAN, resync : BOOLEAN,
   segment : Segments, eos : BOOLEAN]
PadType ==
  [exists : BOOLEAN, codec_data : BOOLEAN, codec : Codecs \cup {"none"},
   caps : [codec : Codecs \cup {"none"}, codec_data : BOOLEAN, par : BOOLEAN],
   need_discont : BOOLEAN, need_segment : BOOLEAN, last : 0..(U32 - 1),
   time_offset : Nat, start : Int, first_ts : Int, done : BOOLEAN,
   flow : FlowReturns, out : OutType]
DemuxType ==
  [state : States, offset : Nat, cur_tag_offset : Nat, tag : Nat,
   has : SUBSET Streams, got_par : BOOLEAN, no_more_pads : BOOLEAN,
   duration : Int, times : BOOLEAN, filepositions : BOOLEAN, indexed : BOOLEAN,
   upstream_seekable : BOOLEAN, file_size : Nat, index : Seq(Entries),
   index_max_pos : Nat, index_max_time : Nat, segment : Segments,
   new_seg_event : Segments, pad : [Streams -> PadType], ret : FlowReturns]

Existing(d) == {p \in Streams : d.pad[p].exists}

\* What an event leaves of what has gone out of a pad.
EventOut(out, event) ==
  IF event = "EOS" THEN [out EXCEPT !.eos = TRUE] ELSE NothingOut

\* An event to every pad there is: EOS or FLUSH_STOP.
gst_flv_demux_push_src_event(d, event) ==
  [d EXCEPT !.pad = [p \in Streams |->
     IF d.pad[p].exists THEN [d.pad[p] EXCEPT !.out = EventOut(@, event)]
     ELSE d.pad[p]]]

gst_flow_combiner_reset(d) ==
  [d EXCEPT !.pad = [p \in Streams |-> [d.pad[p] EXCEPT !.flow = "OK"]]]

gst_flow_combiner_update_pad_flow(d, p, flow) ==
  LET e == [d EXCEPT !.pad[p].flow = flow]
      flows == {e.pad[q].flow : q \in Existing(e)}
  IN [e EXCEPT !.ret =
        IF flow \in {"FLUSHING", "ERROR"} THEN flow
        ELSE IF flows = {"NOT_LINKED"} THEN "NOT_LINKED"
        ELSE IF flows \subseteq {"EOS", "NOT_LINKED"} THEN "EOS" ELSE "OK"]

\* Mutant: streams do not learn of a seek.
Discont_Forgotten(d) == d

\* Every stream is told that its next buffer comes from elsewhere.
Discont(d) ==
  [d EXCEPT !.pad = [p \in Streams |-> [d.pad[p] EXCEPT !.need_discont = TRUE]]]

\* A seek or an upstream segment asks for a new segment on every stream.
NeedSegment(d, event) ==
  [d EXCEPT !.new_seg_event = event,
     !.pad = [p \in Streams |-> [d.pad[p] EXCEPT !.need_segment = TRUE]]]

---------------------------------------------------------------------------
(* The index. *)

AddEntries(d, entries) ==
  LET added == {entries[k] : k \in DOMAIN entries}
  IN [d EXCEPT !.index = gst_mem_index_add_associations(@, entries),
        !.index_max_pos = Max({@} \cup {entry.pos : entry \in added}),
        !.index_max_time = Max({@} \cup {entry.time : entry \in added})]

Missing(d, pos) ==
  gst_mem_index_get_assoc_entry(d.index, "EXACT", FALSE, "pos", pos) = NULL

gst_flv_demux_parse_and_add_index_entry(d, entry) ==
  IF d.upstream_seekable /\ Missing(d, entry.pos) THEN AddEntries(d, <<entry>>) ELSE d

\* The same for some tags of a file, one after the other.
AddTags(d, f, tags) ==
  LET new == InOrder({i \in tags : Missing(d, Position(i))})
  IN IF ~d.upstream_seekable THEN d
     ELSE AddEntries(d, [k \in DOMAIN new |->
            [time |-> f[new[k]].time, pos |-> Position(new[k]),
             key |-> f[new[k]].type # "video" \/ f[new[k]].key]])

\* A time past the longest one known is the new duration.
Lengthen(d, ts) == [d EXCEPT !.duration = Max({@, ts})]

---------------------------------------------------------------------------
(* Script tags. *)

gst_flv_demux_parse_metadata_item(d, tag) ==
  [d EXCEPT !.duration = IF "duration" \in tag.items THEN tag.time ELSE @,
            !.got_par = @ \/ "par" \in tag.items,
            !.times = @ \/ "times" \in tag.items,
            !.filepositions = @ \/ "filepositions" \in tag.items]

gst_flv_demux_parse_tag_script(d, f, tag) ==
  LET e == gst_flv_demux_parse_metadata_item([d EXCEPT !.ret = "OK"], tag)
  IN IF e.times /\ e.filepositions
     THEN [AddTags(e, f, Keyframes(f)) EXCEPT !.indexed = TRUE]
     ELSE e

---------------------------------------------------------------------------
(* Audio and video tags. *)

\* gst_flv_demux_audio_negotiate and gst_flv_demux_video_negotiate: caps wait
\* for the configuration, and the codec is noted all the same.
Negotiate(d, p, codec) ==
  IF codec = "unsupported" THEN [d EXCEPT !.ret = "ERROR"]
  ELSE IF codec = "configured" /\ ~d.pad[p].codec_data
  THEN [d EXCEPT !.pad[p].codec = codec]
  ELSE [d EXCEPT !.pad[p].codec = codec,
                 !.pad[p].caps = [codec |-> codec,
                                  codec_data |-> d.pad[p].codec_data,
                                  par |-> p = "video" /\ d.got_par]]

GotPar(d, p) == [d EXCEPT !.got_par = @ /\ p = "audio"]

AddPad(d, p, codec) ==
  IF d.pad[p].exists THEN d
  ELSE LET e == Negotiate(d, p, codec) IN
    IF e.ret = "ERROR" THEN e
    ELSE [GotPar(e, p) EXCEPT !.pad[p].exists = TRUE,
            !.no_more_pads = @ \/ \A q \in Streams \ {p} : d.pad[q].exists]

RenewCaps(d, p, codec) ==
  IF codec = d.pad[p].codec /\ ~(p = "video" /\ d.got_par) THEN d
  ELSE LET e == Negotiate([d EXCEPT !.pad[p].codec_data = FALSE], p, codec)
       IN IF e.ret = "ERROR" THEN e ELSE GotPar(e, p)

\* The difference of two times as a gint32.
Ddts(dts, last) == ((dts - last + U32 \div 2) % U32) - U32 \div 2

Resyncs(pad, dts) ==
  ~pad.need_discont /\ Ddts(dts, pad.last) <= -RESYNC_THRESHOLD

gst_flv_demux_update_resync(pad, dts) ==
  [pad EXCEPT !.last = dts,
     !.time_offset = IF Resyncs(pad, dts) THEN @ - Ddts(dts, pad.last) ELSE @]

\* A composition time that would lead to a negative time is raised to it.
Pts(tag) == LET cts == IF tag.cts < -tag.time THEN -tag.time ELSE tag.cts
            IN (tag.time + cts) % U32

\* The segment a buffer at ts is pushed into: the one prepared, or one that
\* starts with the buffer.
Announce(d, p, ts) ==
  LET e == [d EXCEPT !.segment.position = ts]
      starting == [e EXCEPT !.segment.start = ts,
                            !.new_seg_event = [e.segment EXCEPT !.start = ts]]
      g == IF d.new_seg_event = NoSegment THEN starting ELSE e
  IN IF ~d.pad[p].need_segment THEN e
     ELSE [g EXCEPT !.pad[p].need_segment = FALSE,
                    !.pad[p].out.segment = g.new_seg_event]

\* Six seconds of one stream without the other: no other pad will come.
GiveUpWaiting(d, p, ts) ==
  LET start == IF d.pad[p].start = TIME_NONE THEN ts ELSE d.pad[p].start
  IN [d EXCEPT !.pad[p].start = start,
        !.no_more_pads = @ \/ ts - start > NO_MORE_PADS_THRESHOLD]

\* audio_first_ts is set by the first buffer of a section; video_first_ts by
\* every one that comes while audio_first_ts is not set.
FirstTs(d, p, ts) ==
  IF d.pad["audio"].first_ts # TIME_NONE THEN d
  ELSE [d EXCEPT !.pad[p].first_ts = ts]

\* In reverse an EOS past the stop of the segment ends the section only.
Flow(d, p, flow) ==
  IF flow = "EOS" /\ d.segment.rate < 0 /\ d.segment.position > d.segment.stop
  THEN [d EXCEPT !.pad[p].done = TRUE, !.ret = "OK"]
  ELSE gst_flow_combiner_update_pad_flow(d, p, flow)

\* Only the audio of a file without video is indexed.
IndexesBuffer(d, p) == ~d.indexed /\ (p = "audio" => "video" \notin d.has)

\* While it flushes, and after the end of the stream, a pad takes no buffer.
Closed == {"FLUSHING", "AFTER_EOS"}

PushBuffer(d, p, i, tag, flow) ==
  LET pad == d.pad[p]
      synced == gst_flv_demux_update_resync(pad, tag.time)
      pts == Pts(tag) + synced.time_offset
      a == Lengthen([d EXCEPT !.pad[p] = [synced EXCEPT !.need_discont = FALSE]], pts)
      b == IF IndexesBuffer(d, p)
           THEN gst_flv_demux_parse_and_add_index_entry(a,
                  [time |-> pts, pos |-> d.cur_tag_offset,
                   key |-> p = "audio" \/ tag.key])
           ELSE a
      c == GiveUpWaiting(FirstTs(Announce(b, p, pts), p, pts), p, pts)
  IN Flow(IF flow \in Closed THEN c
          ELSE [c EXCEPT !.pad[p].out =
                  [@ EXCEPT !.tag = i, !.dts = tag.time + synced.time_offset,
                            !.pts = pts, !.discont = pad.need_discont,
                            !.resync = Resyncs(pad, tag.time)]],
          p, IF flow = "AFTER_EOS" THEN "EOS" ELSE flow)

\* A stream that comes too late, an audio packet too short to have a body, and
\* what comes before its configuration, are dropped.
Dropped(d, p, tag) ==
  \/ ~d.pad[p].exists /\ d.no_more_pads
  \/ p = "audio" /\ tag.packet = "none"
  \/ tag.codec = "configured" /\ tag.packet = "raw" /\ ~d.pad[p].codec_data

\* gst_flv_demux_parse_tag_audio and gst_flv_demux_parse_tag_video; flow is
\* what downstream returns for the buffer, if there is one.
ParseMedia(d, i, tag, flow) ==
  LET p == tag.type
      e == [d EXCEPT !.ret = "OK"]
      renewed == LET g == AddPad(e, p, tag.codec) IN
                 IF g.ret = "ERROR" THEN g ELSE RenewCaps(g, p, tag.codec)
  IN IF Dropped(d, p, tag) THEN e
     ELSE IF tag.packet = "none" THEN [e EXCEPT !.ret = "ERROR"]
     ELSE IF tag.codec = "configured" /\ tag.packet = "config"
     THEN LET g == [e EXCEPT !.pad[p].codec_data = TRUE]
          IN IF d.pad[p].exists THEN Negotiate(g, p, tag.codec) ELSE g
     ELSE IF renewed.ret = "ERROR" \/ tag.packet # "raw" THEN renewed
     ELSE PushBuffer(renewed, p, i, tag, flow)

\* Any tag, by the state parse_tag_type left.
ParseTag(d, f, i, flow) ==
  CASE d.state = "TAG_SCRIPT" -> gst_flv_demux_parse_tag_script(d, f, f[i])
    [] d.state \in {"TAG_AUDIO", "TAG_VIDEO"} -> ParseMedia(d, i, f[i], flow)
    [] OTHER -> [d EXCEPT !.ret = "OK"]

gst_flv_demux_parse_tag_type(d, tag) ==
  [d EXCEPT !.state = CASE tag.type = "video" -> "TAG_VIDEO"
                        [] tag.type = "audio" -> "TAG_AUDIO"
                        [] tag.type = "script" -> "TAG_SCRIPT"
                        [] OTHER -> "SKIP",
            !.has = @ \cup ({tag.type} \cap Streams), !.ret = "OK"]

\* The flags of the header and the answer to the seeking query.
gst_flv_demux_parse_header(d, flags, seekable) ==
  [d EXCEPT !.has = flags, !.upstream_seekable = seekable, !.ret = "OK"]

---------------------------------------------------------------------------
(* Seeking. *)

\* gst_segment_do_seek: a seek to a time, forwards or in reverse from it.
\* The segment of a reverse seek stops at the time and starts at 0.
gst_segment_do_seek(segment, target, rate) ==
  [rate |-> rate, position |-> target,
   start |-> IF rate > 0 THEN target ELSE 0,
   stop |-> IF rate > 0 THEN TIME_NONE ELSE target]

\* Mutant: the two directions are swapped.
SnapMethod_Swapped(after) == IF after THEN "BEFORE" ELSE "AFTER"

SnapMethod(after) == IF after THEN "AFTER" ELSE "BEFORE"

FoundEntry(d, segment, after) ==
  gst_mem_index_get_assoc_entry(d.index, SnapMethod(after), TRUE, "time",
                                segment.position)

\* Without an entry the byte position stays 0: the start of the file.
gst_flv_demux_find_offset(d, segment, after) ==
  LET entry == FoundEntry(d, segment, after)
  IN IF entry = NULL THEN 0 ELSE d.index[entry].pos

\* A seek to key units moves the segment to the one found.
KeyUnitSegment(d, segment, key_unit, after) ==
  LET entry == FoundEntry(d, segment, after) IN
  IF entry = NULL \/ ~key_unit THEN segment
  ELSE [segment EXCEPT !.start = d.index[entry].time,
                       !.position = d.index[entry].time]

===========================================================================
