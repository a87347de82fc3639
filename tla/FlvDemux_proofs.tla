-------------------------- MODULE FlvDemux_proofs --------------------------
(***************************************************************************)
(* The demuxer in push mode, for any file, chunks of any size and seeks of *)
(* another thread at any moment: the index leads to the tags it names, the *)
(* first seek without an index is answered before playback is over, and    *)
(* each stream is delivered in the order of the file.                      *)
(***************************************************************************)
EXTENDS FlvDemux, FlvTags_proofs

AllEvents == Events \cup {NoEvent}
RequestType == [seeking : BOOLEAN, event : AllEvents, building : BOOLEAN]
UpstreamType ==
  [pos : Nat, discont : BOOLEAN, segment : BOOLEAN, eos : BOOLEAN,
   flushing : BOOLEAN, stopped : BOOLEAN, seekable : BOOLEAN, sized : BOOLEAN]
AppType ==
  [pc : {"idle", "request", "flush", "stop", "jump", "assign"},
   kind : {"none", "seek", "stay", "build"}, offset : Nat, segment : Segments,
   event : AllEvents]
PastType ==
  [raced : BOOLEAN, jumped : BOOLEAN, garbled : BOOLEAN, null_seek : BOOLEAN,
   stayed : BOOLEAN, goal : Int]

TypeOK ==
  /\ file \in Files /\ flags \in Flags
  /\ demux \in DemuxType /\ request \in RequestType /\ flushing \in BOOLEAN
  /\ adapter \in [at : Nat, len : Nat]
  /\ chain \in {"idle", "parse", "typed", "parsed"}
  /\ upstream \in UpstreamType /\ app \in AppType
  /\ seeks \in Nat /\ restarts \in Nat /\ past \in PastType

(***************************************************************************)
(* Where the threads are.                                                  *)
(***************************************************************************)
StateOf(type) ==
  CASE type = "video" -> "TAG_VIDEO" [] type = "audio" -> "TAG_AUDIO"
    [] type = "script" -> "TAG_SCRIPT" [] OTHER -> "SKIP"

\* The adapter ends where upstream is.
Whole == adapter.at + adapter.len = upstream.pos

\* chain has a chunk of the file, and the state of a tag that of one there is.
ChainInv ==
  /\ chain # "idle" =>
       ~upstream.discont /\ Whole /\ upstream.pos <= FileSize /\ upstream.pos > 0
  /\ ~upstream.discont /\ adapter.len > 0 => Whole
  /\ demux.state \in TagStates =>
       demux.tag \in DOMAIN file /\ demux.state = StateOf(file[demux.tag].type)
  /\ chain \in {"typed", "parsed"} =>
       demux.tag \in DOMAIN file /\ demux.state \in TagStates \cup {"SEEK"}

\* The flush is the application's thread's, and a seek is made with an index,
\* or one is wanted.
AppInv ==
  /\ flushing = upstream.flushing /\ (flushing => app.pc = "stop")
  /\ app.pc # "idle" => app.kind # "none"
  /\ app.pc # "idle" /\ app.kind \in {"seek", "stay"} => demux.indexed
  /\ app.pc = "request" => app.kind = "build"
  /\ app.pc = "jump" => app.kind = "seek"
  /\ app.pc = "stop" => upstream.seekable
  /\ app.pc \in {"flush", "stop"} => app.kind \in {"seek", "build"}
  /\ demux.file_size \in {0, FileSize}
  /\ app.kind = "build" /\ app.pc \in {"flush", "stop", "assign"} =>
       app.offset = FileSize - SIZE_OF_SIZE
  /\ app.kind = "build" => app.event # NoEvent
  /\ demux.file_size # 0 \/ app.pc # "idle" \/ Existing(demux) # {} => file # <<>>

PushInv == TypeOK /\ ChainInv /\ AppInv

(***************************************************************************)
(* The offsets.                                                            *)
(***************************************************************************)
\* What chain met in state SEEK at the start of the file it throws away.
Swallowed == demux.state = "SEEK" /\ ~upstream.seekable /\ adapter.at = 0

\* The offset is that of the adapter.
Counted ==
  \/ Swallowed
  \/ adapter.at = IF chain = "parsed" THEN demux.offset + tag_size ELSE demux.offset

\* An upstream that cannot seek begins at the start of the file.
Untouched ==
  ~upstream.seekable =>
    /\ upstream.discont => upstream.pos = 0
    /\ upstream.pos = 0 => adapter.at = 0
    /\ adapter.at = 0 => Existing(demux) = {} /\ demux.file_size = 0 /\ app.pc = "idle"

OffsetInv ==
  Calm /\ ~demux.indexed =>
    /\ ~upstream.discont => Whole
    /\ chain # "idle" => Counted
    /\ chain # "idle" /\ adapter.at = 0 =>
         chain = "parse" /\ demux.ret = "OK" /\ demux.state \in {"HEADER", "SEEK"}
    /\ chain = "idle" /\ ~upstream.discont /\ ~flushing =>
         Swallowed \/ (Counted /\ adapter.at > 0)
    /\ upstream.discont /\ app.pc # "assign" =>
         upstream.pos = 0 \/ demux.offset \in {0, upstream.pos}
    /\ app.pc = "assign" => upstream.discont /\ upstream.pos = app.offset
    /\ demux.state \in TagStates => demux.cur_tag_offset = Position(demux.tag)

\* The time a stream last had is that of a frame before.
TimeInv ==
  Calm /\ ~demux.indexed =>
    \A p \in Streams :
      LET pad == demux.pad[p] IN
      /\ pad.time_offset # 0 => TurnsBack(p)
      /\ upstream.discont => pad.need_discont
      /\ ~pad.need_discont =>
           \E m \in Frames(p) : pad.last = file[m].time /\ Position(m + 1) <= adapter.at

IndexInv == Untouched /\ OffsetInv /\ TimeInv /\ IndexTrue

(***************************************************************************)
(* The bytes at hand.                                                      *)
(***************************************************************************)
\* At a tag, past its first bytes, or at the end.
AtTag ==
  \/ adapter.at \in Starts(file) \cup {FileSize}
  \/ \E i \in DOMAIN file : adapter.at = Position(i) + FLV_TAG_TYPE_SIZE

\* They are those the state stands for.
AtState ==
  /\ chain = "typed" => adapter.at = Position(demux.tag) + FLV_TAG_TYPE_SIZE
  /\ chain = "parsed" => adapter.at = Position(demux.tag + 1)
  /\ chain \in {"idle", "parse"} =>
       IF demux.state = "SEEK" THEN AtTag ELSE Expected(demux.state)

(***************************************************************************)
(* The first seek without an index.                                        *)
(***************************************************************************)
Able == upstream.seekable /\ upstream.sized /\ seeks = 1

\* chain was not asked for anything yet.
Unasked ==
  /\ ~request.seeking /\ request.event = NoEvent /\ ~request.building
  /\ demux.state # "SEEK"

\* Upstream has not been moved for a seek yet.
OnTheWay ==
  /\ Able /\ app.kind = "build"
  /\ \/ app.pc = "request"
     \/ app.pc \in {"flush", "stop"} /\ request.event # NoEvent

\* A seek finds a stream, and chain as it was if it is the first.
SeekInv ==
  /\ seeks = 0 => app.pc = "idle" /\ Unasked
  /\ seeks = 1 /\ app.pc # "idle" /\ (app.pc = "request" \/ app.kind # "build") => Unasked
  /\ app.pc # "idle" => Existing(demux) # {}
  /\ seeks # 0 => file # <<>>

\* Until then chain reads on from the start of the file.
Unmoved == (seeks = 0 /\ upstream.seekable) \/ OnTheWay

WayInv ==
  Unmoved =>
    /\ adapter.at = 0 => Existing(demux) = {}
    /\ upstream.discont => upstream.pos = 0 /\ adapter.at = 0
    /\ ~upstream.discont => Whole /\ Counted /\ AtState /\ (chain = "idle" => adapter.at > 0)
    /\ chain # "idle" /\ adapter.at = 0 =>
         chain = "parse" /\ demux.ret = "OK" /\ demux.state = "HEADER"

\* And it has met the seek or will with the next chunk.
MeetInv ==
  OnTheWay /\ app.pc # "request" =>
    request.seeking \/ (demux.state = "SEEK" /\ chain \in {"idle", "parse"})

\* Upstream has something to send, or chain to parse, before it is given up.
Waited == Able /\ request.event # NoEvent /\ app.pc \in {"assign", "idle"}

AnswerInv ==
  Waited =>
    /\ ~upstream.eos /\ ~flushing /\ ~upstream.stopped
    /\ chain = "idle" /\ upstream.discont =>
         \/ upstream.pos = 0
         \/ upstream.pos = FileSize - SIZE_OF_SIZE /\ (request.seeking \/ demux.state = "SEEK")
         \/ upstream.pos = Position(Len(file)) /\ demux.state = "TAG_TYPE"
    /\ chain = "idle" /\ ~upstream.discont =>
         /\ Whole /\ upstream.pos < FileSize /\ AtState
         /\ demux.state \in {"TAG_TYPE", "TAG_SCRIPT"}
    /\ chain # "idle" => demux.ret = "OK"
    /\ chain = "parse" =>
         \/ demux.state = "SEEK"
         \/ demux.state = "HEADER" /\ adapter.at = 0 /\ adapter.len > 0
         \/ demux.state = "TAG_TYPE" /\ adapter.at \in Starts(file)
         \/ demux.state = "TAG_SCRIPT" /\ AtState
    /\ chain = "typed" => AtState /\ demux.state \in TagStates
    /\ chain = "parsed" => file[demux.tag].type = "script"

AnsweredInv == SeekInv /\ WayInv /\ MeetInv /\ AnswerInv

(***************************************************************************)
(* The streams.                                                            *)
(***************************************************************************)
\* An upstream that cannot seek leaves chain on its way.
FixedInv ==
  ~upstream.seekable =>
    /\ app.pc = "assign" => app.kind # "build"
    /\ ~past.stayed /\ ~upstream.discont =>
         /\ Whole
         /\ Swallowed \/ (Counted /\ AtState /\ (chain = "idle" => adapter.at > 0))
    /\ ~past.stayed /\ chain # "idle" /\ adapter.at = 0 =>
         chain = "parse" /\ demux.ret = "OK" /\ demux.state \in {"HEADER", "SEEK"}

\* Only a pad that got a buffer and whose configuration is known goes on without
\* a discontinuity.
PadInv(d, p) ==
  LET pad == d.pad[p] IN
  /\ ~pad.exists => pad.need_discont
  /\ \A i \in DOMAIN file : file[i].type = p =>
       /\ pad.codec \in {"none", file[i].codec}
       /\ pad.exists => pad.codec = file[i].codec
  /\ ~pad.need_discont /\ pad.codec = "configured" => pad.codec_data

ParInv(d) ==
  d.got_par => \A i \in DOMAIN file : ~(file[i].type = "video" /\ file[i].codec = "configured")

StreamInv == ParInv(demux) /\ \A p \in Streams : PadInv(demux, p)

\* Upstream ends, or chain is about to return what makes it end.
Failing ==
  \/ chain = "idle" /\ upstream.stopped
  \/ chain = "parse" /\ demux.ret # "OK"
  \/ chain = "parsed" /\ demux.ret # "OK" /\ file[demux.tag].type # "script"

\* A stream that goes on without a discontinuity.
GoesOn(p) ==
  LET pad == demux.pad[p] IN
  ~(pad.need_discont \/ pad.out.eos \/ flushing \/ Failing \/ upstream.discont)

\* What the stream got last is behind, and no later frame of it is.
Continues(p) ==
  LET last == demux.pad[p].out.tag IN
  /\ last # 0 /\ Position(last + 1) <= adapter.at
  /\ \A k \in Frames(p) : last < k => adapter.at <= Position(k) + FLV_TAG_TYPE_SIZE

Sound == past.jumped \/ past.stayed => Calm

OrderInv ==
  Sound => \A p \in Streams :
    /\ upstream.discont =>
         \/ demux.pad[p].need_discont
         \/ past.jumped /\ app.pc = "assign" /\ app.kind = "seek"
    /\ GoesOn(p) =>
         /\ Continues(p) /\ Whole
         /\ ~past.jumped /\ ~past.stayed => AtState

DeliverInv == FixedInv /\ StreamInv /\ OrderInv

---------------------------------------------------------------------------
(* What the steps are made of. *)

Fields(d, e) ==
  /\ e.tag = d.tag /\ e.cur_tag_offset = d.cur_tag_offset /\ e.got_par = d.got_par
  /\ e.indexed = d.indexed /\ e.file_size = d.file_size /\ e.index = d.index
  /\ e.ret = d.ret

Stream(x, y) ==
  /\ y.exists = x.exists /\ y.codec = x.codec /\ y.codec_data = x.codec_data
  /\ SameTimes(x, y)

\* Nothing of what the properties are about.
Quiet(d, e) ==
  /\ e \in DemuxType /\ Fields(d, e) /\ e.state = d.state /\ e.offset = d.offset
  /\ \A p \in Streams : /\ Stream(d.pad[p], e.pad[p]) /\ e.pad[p].out = d.pad[p].out
                        /\ e.pad[p].need_discont = d.pad[p].need_discont

\* Every stream has a discontinuity.
Breaks(d, e) ==
  /\ e \in DemuxType /\ Fields(d, e) /\ e.state = d.state /\ e.offset = d.offset
  /\ \A p \in Streams : /\ Stream(d.pad[p], e.pad[p]) /\ e.pad[p].out = d.pad[p].out
                        /\ e.pad[p].need_discont

\* And what went out of it is forgotten.
Flushes(d, e) ==
  /\ e \in DemuxType /\ Fields(d, e)
  /\ e.state = (IF d.state = "SEEK" THEN "SEEK" ELSE "TAG_TYPE")
  /\ e.offset = (IF d.state = "SEEK" THEN d.offset ELSE 0)
  /\ \A p \in Streams :
       /\ Stream(d.pad[p], e.pad[p]) /\ e.pad[p].need_discont
       /\ e.pad[p].out = IF d.pad[p].exists THEN NothingOut ELSE d.pad[p].out

LEMMA QuietSelf ==
  ASSUME NEW d \in DemuxType
  PROVE  Quiet(d, d)
BY DEF Quiet, Fields, Stream, SameTimes

LEMMA QuietTrans ==
  ASSUME NEW d, NEW e, NEW g, Quiet(d, e), Quiet(e, g)
  PROVE  Quiet(d, g)
BY DEF Quiet, Fields, Stream, SameTimes

LEMMA BreaksTrans ==
  ASSUME NEW d, NEW e, NEW g, Breaks(d, e), Quiet(e, g)
  PROVE  Breaks(d, g)
BY DEF Breaks, Quiet, Fields, Stream, SameTimes

LEMMA PadKept ==
  ASSUME NEW x \in PadType
  PROVE  /\ LET y == [x EXCEPT !.flow = "OK"] IN
            Stream(x, y) /\ y.out = x.out /\ y.need_discont = x.need_discont
         /\ LET y == [x EXCEPT !.need_segment = TRUE] IN
            Stream(x, y) /\ y.out = x.out /\ y.need_discont = x.need_discont
         /\ LET y == [x EXCEPT !.need_discont = TRUE] IN
            Stream(x, y) /\ y.out = x.out /\ y.need_discont
BY DEF PadType, Stream, SameTimes

LEMMA ResetQuiet ==
  ASSUME NEW d \in DemuxType
  PROVE  Quiet(d, gst_flow_combiner_reset(d))
<1> DEFINE e == gst_flow_combiner_reset(d)
<1>1. /\ e \in DemuxType /\ e = [d EXCEPT !.pad = e.pad]
      /\ \A p \in Streams : e.pad[p] = [d.pad[p] EXCEPT !.flow = "OK"]
  BY CombinerResetType
<1> HIDE DEF e
<1>2. \A p \in Streams : d.pad[p] \in PadType
  BY PadOf
<1>3. Fields(d, e) /\ e.state = d.state /\ e.offset = d.offset
  BY <1>1 DEF DemuxType, Fields
<1>4. ASSUME NEW p \in Streams
      PROVE  /\ Stream(d.pad[p], e.pad[p]) /\ e.pad[p].out = d.pad[p].out
             /\ e.pad[p].need_discont = d.pad[p].need_discont
  BY <1>1, <1>2, PadKept
<1>5. Quiet(d, e)
  BY <1>1, <1>3, <1>4 DEF Quiet
<1>. QED BY <1>5 DEF e

LEMMA NeedSegmentQuiet ==
  ASSUME NEW d \in DemuxType, NEW event \in Segments
  PROVE  Quiet(d, NeedSegment(d, event))
<1> DEFINE e == NeedSegment(d, event)
<1>1. /\ e \in DemuxType /\ e = [d EXCEPT !.new_seg_event = event, !.pad = e.pad]
      /\ \A p \in Streams : e.pad[p] = [d.pad[p] EXCEPT !.need_segment = TRUE]
  BY NeedSegmentType
<1> HIDE DEF e
<1>2. \A p \in Streams : d.pad[p] \in PadType
  BY PadOf
<1>3. Fields(d, e) /\ e.state = d.state /\ e.offset = d.offset
  BY <1>1 DEF DemuxType, Fields
<1>4. ASSUME NEW p \in Streams
      PROVE  /\ Stream(d.pad[p], e.pad[p]) /\ e.pad[p].out = d.pad[p].out
             /\ e.pad[p].need_discont = d.pad[p].need_discont
  BY <1>1, <1>2, PadKept
<1>5. Quiet(d, e)
  BY <1>1, <1>3, <1>4 DEF Quiet
<1>. QED BY <1>5 DEF e

LEMMA ConfiguredQuiet ==
  ASSUME NEW d \in DemuxType, NEW segment \in Segments
  PROVE  Quiet(d, Configured(d, segment))
<1> DEFINE a == [d EXCEPT !.segment = segment]
<1>1. Quiet(d, a)
  BY DEF Quiet, Fields, Stream, SameTimes, DemuxType
<1>2. a \in DemuxType
  BY <1>1 DEF Quiet
<1> HIDE DEF a
<1>3. Quiet(a, NeedSegment(a, segment))
  BY <1>2, NeedSegmentQuiet
<1>4. Configured(d, segment) = NeedSegment(a, segment)
  BY DEF Configured, a
<1>. QED BY <1>1, <1>3, <1>4, QuietTrans

LEMMA DiscontBreaks ==
  ASSUME NEW d \in DemuxType
  PROVE  Breaks(d, Discont(d))
<1> DEFINE e == Discont(d)
<1>1. /\ e \in DemuxType /\ e = [d EXCEPT !.pad = e.pad]
      /\ \A p \in Streams : e.pad[p] = [d.pad[p] EXCEPT !.need_discont = TRUE]
  BY DiscontType
<1> HIDE DEF e
<1>2. \A p \in Streams : d.pad[p] \in PadType
  BY PadOf
<1>3. Fields(d, e) /\ e.state = d.state /\ e.offset = d.offset
  BY <1>1 DEF DemuxType, Fields
<1>4. ASSUME NEW p \in Streams
      PROVE  /\ Stream(d.pad[p], e.pad[p]) /\ e.pad[p].out = d.pad[p].out
             /\ e.pad[p].need_discont
  BY <1>1, <1>2, PadKept
<1>5. Breaks(d, e)
  BY <1>1, <1>3, <1>4 DEF Breaks
<1>. QED BY <1>5 DEF e

LEMMA SoughtBreaks ==
  ASSUME NEW d \in DemuxType
  PROVE  Breaks(d, Sought(d))
<1> DEFINE a == gst_flow_combiner_reset(d)
<1>1. Quiet(d, a) /\ a \in DemuxType
  BY ResetQuiet DEF Quiet
<1> HIDE DEF a
<1>2. Breaks(a, Discont(a))
  BY <1>1, DiscontBreaks
<1>3. Breaks(d, Discont(a))
  BY <1>1, <1>2 DEF Breaks, Quiet, Fields, Stream, SameTimes
<1>. QED BY <1>3 DEF Sought, a

LEMMA FlushedDoes ==
  ASSUME NEW d \in DemuxType
  PROVE  Flushes(d, Flushed(d))
<1> DEFINE a == Discont(d)
           e == gst_flv_demux_push_src_event(a, "FLUSH_STOP")
<1>1. Breaks(d, a) /\ a \in DemuxType
  BY DiscontBreaks DEF Breaks
<1>2. Flushed(d) = IF d.state = "SEEK" THEN e ELSE [e EXCEPT !.state = "TAG_TYPE", !.offset = 0]
  BY DEF Flushed
<1> HIDE DEF a
<1>3. /\ e \in DemuxType /\ e = [a EXCEPT !.pad = e.pad]
      /\ \A p \in Streams :
           e.pad[p] = IF a.pad[p].exists
                      THEN [a.pad[p] EXCEPT !.out = EventOut(@, "FLUSH_STOP")] ELSE a.pad[p]
  BY <1>1, PushEventType
<1> HIDE DEF e
<1>4. \A p \in Streams : a.pad[p] \in PadType
  BY <1>1, PadOf
<1>5. Fields(d, e) /\ e.state = d.state /\ e.offset = d.offset
  BY <1>1, <1>3 DEF DemuxType, Fields, Breaks
<1>6. ASSUME NEW p \in Streams
      PROVE  /\ Stream(d.pad[p], e.pad[p]) /\ e.pad[p].need_discont
             /\ e.pad[p].out = IF d.pad[p].exists THEN NothingOut ELSE d.pad[p].out
  <2>1. \A out : EventOut(out, "FLUSH_STOP") = NothingOut
    BY DEF EventOut
  <2>2. /\ Stream(d.pad[p], a.pad[p]) /\ a.pad[p].out = d.pad[p].out
        /\ a.pad[p].need_discont /\ a.pad[p] \in PadType
    BY <1>1, <1>4 DEF Breaks
  <2>3. e.pad[p] = IF a.pad[p].exists THEN [a.pad[p] EXCEPT !.out = NothingOut] ELSE a.pad[p]
    BY <1>3, <2>1
  <2>4. CASE a.pad[p].exists
    BY <2>2, <2>3, <2>4 DEF PadType, Stream, SameTimes
  <2>5. CASE ~a.pad[p].exists
    BY <2>2, <2>3, <2>5 DEF Stream
  <2>. QED BY <2>4, <2>5
<1> DEFINE g == [e EXCEPT !.state = "TAG_TYPE", !.offset = 0]
<1>7. g \in DemuxType /\ Fields(e, g) /\ g.state = "TAG_TYPE" /\ g.offset = 0 /\ g.pad = e.pad
  BY <1>3 DEF DemuxType, Fields, States
<1> HIDE DEF g
<1>8. CASE d.state = "SEEK"
  BY <1>2, <1>3, <1>5, <1>6, <1>8 DEF Flushes
<1>9. CASE d.state # "SEEK"
  <2>1. Flushed(d) = g
    BY <1>2, <1>9 DEF g
  <2>2. Fields(d, g)
    BY <1>5, <1>7 DEF Fields
  <2>. QED BY <1>6, <1>7, <1>9, <2>1, <2>2 DEF Flushes
<1>. QED BY <1>8, <1>9

LEMMA FileIs ==
  ASSUME TypeOK
  PROVE  /\ file \in Seq(Tags) /\ DOMAIN file = 1..Len(file) /\ Len(file) \in Nat
         /\ \A i \in DOMAIN file : file[i] \in Tags /\ file[i].time \in 0..(U32 - 1)
                                   /\ i \in Nat
         /\ FileSize = 3 * Len(file) + 1 /\ FileSize \in Nat
         /\ \A i \in DOMAIN file : /\ Position(i) \in Nat /\ Position(i) = 3 * i - 2
                                   /\ Position(i + 1) = 3 * i + 1
                                   /\ i >= 1 /\ i <= Len(file)
<1>1. file \in Seq(Tags)
  BY TagsAssumption DEF TypeOK
<1>2. \A i \in DOMAIN file : file[i] \in Tags /\ i \in Nat /\ i >= 1 /\ i <= Len(file)
  BY <1>1
<1>3. \A tag \in Tags : tag.time \in 0..(U32 - 1)
  BY TagsAssumption DEF Tags
<1>4. \A i \in DOMAIN file : Position(i) = 3 * i - 2 /\ Position(i + 1) = 3 * i + 1
  <2> SUFFICES ASSUME NEW i \in DOMAIN file
               PROVE  Position(i) = 3 * i - 2 /\ Position(i + 1) = 3 * i + 1
    OBVIOUS
  <2>1. i \in Int /\ i + 1 \in Int
    BY <1>2
  <2>. QED BY <2>1, PositionIs
<1>5. FileSize = 3 * Len(file) + 1
  BY <1>1, PositionIs DEF FileSize, Size
<1>6. Len(file) \in Nat /\ DOMAIN file = 1..Len(file)
  BY <1>1
<1>7. \A i \in DOMAIN file : Position(i) \in Nat
  BY <1>2, <1>4
<1>8. FileSize \in Nat
  BY <1>5, <1>6
<1>. QED BY <1>1, <1>2, <1>3, <1>4, <1>5, <1>6, <1>7, <1>8

LEMMA EventIs ==
  ASSUME NEW ev \in Events
  PROVE  /\ ev.target \in Nat /\ ev.flush \in BOOLEAN /\ ev.key_unit \in BOOLEAN
         /\ ev.after \in BOOLEAN /\ ev # NoEvent
<1>1. ev \in [target : Nat, flush : BOOLEAN, key_unit : BOOLEAN, after : BOOLEAN]
  BY PushAssumption
<1>2. NoEvent.target \notin Nat
  BY DEF NoEvent, TIME_NONE
<1>. QED BY <1>1, <1>2

\* The segment and the place of a seek.
LEMMA FoundType ==
  ASSUME NEW d \in DemuxType, NEW ev \in Events
  PROVE  /\ FoundSegment(d, ev) \in Segments /\ FoundOffset(d, ev) \in Nat
         /\ \/ FoundOffset(d, ev) = 0
            \/ \E k \in DOMAIN d.index : FoundOffset(d, ev) = d.index[k].pos
<1> DEFINE segment == SeekSegment(d, ev)
<1>1. segment \in Segments
  <2>1. d.segment \in Segments /\ ev.target \in Int /\ 1 \in {-1, 1}
    BY EventIs DEF DemuxType
  <2>. QED BY <2>1, DoSeekType DEF SeekSegment
<1> HIDE DEF segment
<1>2. KeyUnitSegment(d, segment, ev.key_unit, ev.after) \in Segments
  BY <1>1, EventIs, KeyUnitSegmentType
<1>3. FoundSegment(d, ev) \in Segments
  BY <1>1, <1>2 DEF FoundSegment, segment
<1>4. /\ FoundOffset(d, ev) = gst_flv_demux_find_offset(d, segment, ev.after)
  BY DEF FoundOffset, segment
<1>. QED BY <1>1, <1>3, <1>4, EventIs, FindOffsetType

SameStreams(d, e) ==
  \A p \in Streams : /\ Stream(d.pad[p], e.pad[p]) /\ e.pad[p].out = d.pad[p].out
                     /\ e.pad[p].need_discont = d.pad[p].need_discont

BrokenStreams(d, e) ==
  \A p \in Streams : /\ Stream(d.pad[p], e.pad[p]) /\ e.pad[p].need_discont
                     /\ e.pad[p].out \in {d.pad[p].out, NothingOut}

\* flv_demux_seek_to_offset moved upstream, or could not.
SoughtTo(d, offset) ==
  /\ demux' \in DemuxType /\ Fields(d, demux')
  /\ \/ /\ ~upstream.seekable /\ demux' = d
        /\ UNCHANGED <<adapter, flushing, upstream>>
     \/ /\ upstream.seekable /\ demux'.offset = offset /\ BrokenStreams(d, demux')
        /\ demux'.state = (IF d.state = "SEEK" THEN "SEEK" ELSE "TAG_TYPE")
        /\ adapter' = [adapter EXCEPT !.len = 0] /\ flushing' = FALSE
        /\ upstream' = Moved(offset)

LEMMA SeekToOffsetDoes ==
  ASSUME TypeOK, NEW d \in DemuxType, NEW offset \in Nat, SeekToOffset(d, offset)
  PROVE  SoughtTo(d, offset)
<1>1. CASE upstream.seekable
  <2> DEFINE a == Flushed(d)
             e == [a EXCEPT !.offset = offset]
  <2>1. Flushes(d, a)
    BY FlushedDoes
  <2>2. demux' = e /\ adapter' = [adapter EXCEPT !.len = 0] /\ flushing' = FALSE
        /\ upstream' = Moved(offset)
    BY <1>1 DEF SeekToOffset, Clear
  <2>. HIDE DEF a
  <2>3. /\ e \in DemuxType /\ Fields(a, e) /\ e.state = a.state /\ e.offset = offset
        /\ e.pad = a.pad
    BY <2>1 DEF Flushes, DemuxType, Fields
  <2>. HIDE DEF e
  <2>4. BrokenStreams(d, e)
    BY <2>1, <2>3 DEF Flushes, BrokenStreams
  <2>5. Fields(d, e) /\ e.state = (IF d.state = "SEEK" THEN "SEEK" ELSE "TAG_TYPE")
    BY <2>1, <2>3 DEF Flushes, Fields
  <2>. QED BY <1>1, <2>2, <2>3, <2>4, <2>5 DEF SoughtTo
<1>2. CASE ~upstream.seekable
  <2>1. demux' = d /\ UNCHANGED <<adapter, flushing, upstream>>
    BY <1>2 DEF SeekToOffset
  <2>. QED BY <1>2, <2>1 DEF SoughtTo, Fields
<1>. QED BY <1>1, <1>2

\* What a seek in the streaming thread leaves, by whether upstream was asked and
\* could move.
Stays(history) ==
  /\ SameStreams(demux, demux') /\ demux'.ret = demux.ret /\ demux'.state = "TAG_TYPE"
  /\ past' = [history EXCEPT !.stayed = TRUE]
  /\ UNCHANGED <<flushing, adapter, upstream>>

Goes(ev, history) ==
  /\ upstream.seekable
  /\ BrokenStreams(demux, demux') /\ demux'.ret = demux.ret /\ demux'.state = "TAG_TYPE"
  /\ upstream' = Moved(FoundOffset(demux, ev))
  /\ IF ev.flush THEN adapter' = [adapter EXCEPT !.len = 0] /\ flushing' = FALSE
     ELSE UNCHANGED <<adapter, flushing>>
  /\ past' = [history EXCEPT !.jumped = @ \/ ~ev.flush]

Refused(history) ==
  /\ ~upstream.seekable
  /\ BrokenStreams(demux, demux') /\ demux'.ret = "ERROR" /\ demux'.state = "SEEK"
  /\ upstream' = [upstream EXCEPT !.stopped = TRUE]
  /\ past' = history /\ UNCHANGED <<flushing, adapter>>

LEMMA ServeDoes ==
  ASSUME TypeOK, demux.state = "SEEK", NEW ev \in Events, NEW history, Serve(ev, history)
  PROVE  /\ demux' \in DemuxType /\ Fields([demux EXCEPT !.ret = demux'.ret], demux')
         /\ demux'.offset = demux.offset
         /\ Stays(history) \/ Goes(ev, history) \/ Refused(history)
<1> DEFINE segment == FoundSegment(demux, ev)
           d == IF ev.flush THEN Flushed(demux) ELSE demux
<1>1. demux \in DemuxType /\ segment \in Segments
  BY FoundType DEF TypeOK
<1>2. \A e : e \in DemuxType =>
        /\ [e EXCEPT !.state = "TAG_TYPE"] \in DemuxType
        /\ [e EXCEPT !.state = "TAG_TYPE"].state = "TAG_TYPE"
        /\ [e EXCEPT !.state = "TAG_TYPE"].pad = e.pad
        /\ [e EXCEPT !.state = "TAG_TYPE"].offset = e.offset
        /\ Fields(e, [e EXCEPT !.state = "TAG_TYPE"])
  BY DEF DemuxType, States, Fields
<1> DEFINE moves == Moves(demux, ev)
<1>3. CASE ~moves
  <2> DEFINE e == Configured(demux, segment)
  <2>1. Quiet(demux, e)
    BY <1>1, ConfiguredQuiet
  <2>2. /\ demux' = [e EXCEPT !.state = "TAG_TYPE"]
        /\ past' = [history EXCEPT !.stayed = TRUE]
        /\ UNCHANGED <<flushing, adapter, upstream>>
    BY <1>3 DEF Serve
  <2>. HIDE DEF e
  <2>3. e \in DemuxType
    BY <2>1 DEF Quiet
  <2>4. /\ demux' \in DemuxType /\ demux'.state = "TAG_TYPE" /\ demux'.pad = e.pad
        /\ demux'.offset = e.offset /\ Fields(e, demux')
    BY <1>2, <2>2, <2>3
  <2>5. SameStreams(demux, demux') /\ demux'.ret = demux.ret
    BY <2>1, <2>4 DEF Quiet, SameStreams, Fields
  <2>6. Fields([demux EXCEPT !.ret = demux'.ret], demux') /\ demux'.offset = demux.offset
    BY <1>1, <2>1, <2>4 DEF Quiet, Fields, DemuxType
  <2>. QED BY <2>2, <2>4, <2>5, <2>6 DEF Stays
<1>4. CASE moves /\ upstream.seekable
  <2> DEFINE a == Sought(d)
             e == Configured(a, segment)
  <2>1. /\ d \in DemuxType /\ Fields(demux, d) /\ d.offset = demux.offset
        /\ \A p \in Streams : Stream(demux.pad[p], d.pad[p])
                              /\ d.pad[p].out \in {demux.pad[p].out, NothingOut}
    <3>1. CASE ev.flush
      <4>1. Flushes(demux, d)
        BY <1>1, <3>1, FlushedDoes
      <4>. HIDE DEF d
      <4>. QED BY <4>1 DEF Flushes
    <3>2. CASE ~ev.flush
      BY <1>1, <3>2 DEF Fields, Stream, SameTimes
    <3>. QED BY <3>1, <3>2
  <2>. HIDE DEF d
  <2>2. Breaks(d, a) /\ a \in DemuxType
    BY <2>1, SoughtBreaks DEF Breaks
  <2>. HIDE DEF a
  <2>3. Quiet(a, e)
    BY <1>1, <2>2, ConfiguredQuiet
  <2>4. /\ demux' = [e EXCEPT !.state = "TAG_TYPE"]
        /\ upstream' = Moved(FoundOffset(demux, ev))
        /\ IF ev.flush THEN adapter' = [adapter EXCEPT !.len = 0] /\ flushing' = FALSE
           ELSE UNCHANGED <<adapter, flushing>>
        /\ past' = [history EXCEPT !.jumped = @ \/ ~ev.flush]
    BY <1>4 DEF Serve, Clear, a, d
  <2>. HIDE DEF e
  <2>5. Breaks(d, e) /\ e \in DemuxType
    BY <2>2, <2>3, BreaksTrans DEF Breaks
  <2>6. /\ demux' \in DemuxType /\ demux'.state = "TAG_TYPE" /\ demux'.pad = e.pad
        /\ demux'.offset = e.offset /\ Fields(e, demux')
    BY <1>2, <2>4, <2>5
  <2>7. BrokenStreams(demux, demux')
    BY <2>1, <2>5, <2>6 DEF Breaks, BrokenStreams, Stream, SameTimes
  <2>8. /\ Fields([demux EXCEPT !.ret = demux'.ret], demux') /\ demux'.offset = demux.offset
        /\ demux'.ret = demux.ret
    BY <1>1, <2>1, <2>5, <2>6 DEF Breaks, Fields, DemuxType
  <2>. QED BY <1>4, <2>4, <2>6, <2>7, <2>8 DEF Goes
<1>5. CASE moves /\ ~upstream.seekable
  <2> DEFINE e == Sought(demux)
  <2>1. Breaks(demux, e) /\ e \in DemuxType
    BY <1>1, SoughtBreaks DEF Breaks
  <2>2. /\ demux' = [e EXCEPT !.ret = "ERROR"]
        /\ upstream' = [upstream EXCEPT !.stopped = TRUE]
        /\ past' = history /\ UNCHANGED <<flushing, adapter>>
    BY <1>5 DEF Serve
  <2>. HIDE DEF e
  <2>3. /\ demux' \in DemuxType /\ demux'.state = e.state /\ demux'.pad = e.pad
        /\ demux'.offset = e.offset /\ demux'.ret = "ERROR"
        /\ Fields([e EXCEPT !.ret = demux'.ret], demux')
    BY <2>1, <2>2 DEF DemuxType, Fields, FlowReturns
  <2>4. BrokenStreams(demux, demux')
    BY <2>1, <2>3 DEF Breaks, BrokenStreams
  <2>5. /\ Fields([demux EXCEPT !.ret = demux'.ret], demux') /\ demux'.offset = demux.offset
        /\ demux'.state = "SEEK"
    BY <1>1, <2>1, <2>3 DEF Breaks, Fields, DemuxType
  <2>. QED BY <1>5, <2>2, <2>3, <2>4, <2>5 DEF Refused
<1>. QED BY <1>3, <1>4, <1>5

HasPar == \E i \in DOMAIN file : file[i].type = "script" /\ "par" \in file[i].items

\* What parsing the tag at hand leaves.
TagDoes(m, flow) ==
  LET tag == file[demux.tag] IN
  /\ m \in DemuxType /\ SamePlace(demux, m) /\ m.file_size = demux.file_size
  /\ demux.indexed => m.indexed
  /\ m.got_par => demux.got_par \/ HasPar
  /\ tag.type \in Streams =>
       MediaDoes(demux, m, demux.tag, tag, flow) /\ m.indexed = demux.indexed
  /\ tag.type \notin Streams => m.pad = demux.pad /\ m.ret = "OK"
  /\ tag.type = "script" => Lists(demux, m, file, Keyframes(file))
  /\ tag.type = "other" => m.index = demux.index

LEMMA ParseTagDoes ==
  ASSUME TypeOK, ChainInv, demux.state \in TagStates, NEW flow \in Returns
  PROVE  TagDoes(ParseTag(demux, file, demux.tag, flow), flow)
<1> DEFINE i == demux.tag
           tag == file[i]
           m == ParseTag(demux, file, i, flow)
<1>1. /\ demux \in DemuxType /\ i \in DOMAIN file /\ tag \in Tags /\ i \in Nat
      /\ file \in Seq(Tags) /\ demux.state = StateOf(tag.type)
  BY FileIs DEF TypeOK, ChainInv
<1>2. /\ tag.type = "script" <=> demux.state = "TAG_SCRIPT"
      /\ tag.type \in Streams <=> demux.state \in {"TAG_AUDIO", "TAG_VIDEO"}
      /\ tag.type \in Streams \cup {"script", "other"}
  BY <1>1 DEF StateOf, Streams, Tags
<1>3. CASE tag.type = "script"
  <2> DEFINE n == gst_flv_demux_parse_tag_script(demux, file, tag)
  <2>1. m = n
    BY <1>2, <1>3 DEF ParseTag
  <2>2. /\ n \in DemuxType /\ SamePlace(demux, n) /\ n.pad = demux.pad /\ n.ret = "OK"
        /\ n.got_par = (demux.got_par \/ "par" \in tag.items)
        /\ n.file_size = demux.file_size /\ (demux.indexed => n.indexed)
        /\ Lists(demux, n, file, Keyframes(file))
    BY <1>1, ScriptType
  <2>. HIDE DEF n, m
  <2>3. m.got_par => demux.got_par \/ HasPar
    BY <1>1, <1>3, <2>1, <2>2 DEF HasPar
  <2>4. tag.type \notin Streams
    BY <1>3 DEF Streams
  <2>5. TagDoes(m, flow)
    BY <1>3, <2>1, <2>2, <2>3, <2>4 DEF TagDoes
  <2>. QED BY <2>5 DEF m
<1>4. CASE tag.type \in Streams
  <2>1. m = ParseMedia(demux, i, tag, flow)
    BY <1>2, <1>4 DEF ParseTag
  <2>2. MediaDoes(demux, m, i, tag, flow)
    BY <1>1, <1>4, <2>1, ParseMediaDoes
  <2>. HIDE DEF m
  <2>3. tag.type \notin {"script", "other"}
    BY <1>4 DEF Streams
  <2>4. /\ m \in DemuxType /\ SamePlace(demux, m) /\ m.file_size = demux.file_size
        /\ m.indexed = demux.indexed /\ (m.got_par => demux.got_par)
    BY <2>2 DEF MediaDoes
  <2>5. TagDoes(m, flow)
    BY <1>4, <2>2, <2>3, <2>4 DEF TagDoes
  <2>. QED BY <2>5 DEF m
<1>5. CASE tag.type = "other"
  <2>1. m = [demux EXCEPT !.ret = "OK"]
    BY <1>2, <1>5 DEF ParseTag, Streams
  <2>. HIDE DEF m
  <2>2. /\ m \in DemuxType /\ SamePlace(demux, m) /\ m.pad = demux.pad
        /\ m.index = demux.index /\ m.got_par = demux.got_par /\ m.ret = "OK"
        /\ m.indexed = demux.indexed /\ m.file_size = demux.file_size
    BY <1>1, <2>1 DEF DemuxType, SamePlace, FlowReturns
  <2>3. tag.type \notin Streams \cup {"script"}
    BY <1>5 DEF Streams
  <2>4. TagDoes(m, flow)
    BY <1>5, <2>2, <2>3 DEF TagDoes
  <2>. QED BY <2>4 DEF m
<1>. QED BY <1>2, <1>3, <1>4, <1>5

LEMMA ReturnedIs ==
  ASSUME TypeOK, NEW flow \in Returned
  PROVE  /\ flow \in Returns
         /\ flow = "FLUSHING" => flushing
         /\ flow = "AFTER_EOS" => /\ file[demux.tag].type \in Existing(demux)
                                  /\ demux.pad[file[demux.tag].type].out.eos
BY PushAssumption DEF Returned, Returns, FlowReturns

\* Where a tag starts, and that it is there as a whole.
LEMMA AtStart ==
  ASSUME TypeOK, ChainInv, ParseTagType
  PROVE  LET i == TagAt(file, adapter.at) IN
         i \in DOMAIN file /\ adapter.at = Position(i) /\ file[i] \in Tags /\ i \in Nat
<1>1. /\ adapter.len >= 1 /\ adapter.at \in Starts(file) \cup {FileSize}
      /\ chain = "parse" /\ demux.state = "TAG_TYPE"
  BY DEF ParseTagType, Parsing, Available, FLV_TAG_TYPE_SIZE, Expected
<1>2. adapter.at + adapter.len = upstream.pos /\ upstream.pos <= FileSize
  BY <1>1 DEF ChainInv, Whole
<1>3. adapter.at \in Nat /\ adapter.len \in Nat /\ upstream.pos \in Nat
  BY DEF TypeOK, UpstreamType
<1>4. adapter.at # FileSize
  BY <1>1, <1>2, <1>3, FileIs
<1>5. PICK i \in DOMAIN file : adapter.at = Position(i)
  BY <1>1, <1>4 DEF Starts
<1>6. i \in Int
  BY FileIs
<1>7. TagAt(file, adapter.at) = i
  BY <1>5, <1>6, TagAtPosition
<1>. QED BY <1>5, <1>7, FileIs

LEMMA HeaderDoes ==
  ASSUME TypeOK, ParseHeader
  PROVE  /\ demux' \in DemuxType /\ Fields([demux EXCEPT !.ret = "OK"], demux')
         /\ demux'.state = "TAG_TYPE" /\ demux'.offset = demux.offset + 1
         /\ demux'.pad = demux.pad /\ demux'.ret = "OK"
         /\ adapter' = [at |-> adapter.at + 1, len |-> adapter.len - 1]
         /\ adapter.at = 0 /\ adapter.len >= 1
<1> DEFINE seekable == upstream.seekable /\ upstream.sized
           e == gst_flv_demux_parse_header(demux, flags, seekable)
<1>1. demux \in DemuxType /\ flags \in SUBSET Streams /\ seekable \in BOOLEAN
  BY PushAssumption DEF TypeOK, UpstreamType
<1>2. e \in DemuxType /\ e = [demux EXCEPT !.has = flags, !.upstream_seekable = seekable, !.ret = "OK"]
  BY <1>1, HeaderType
<1>3. demux' = [e EXCEPT !.offset = @ + 1, !.state = "TAG_TYPE"]
  BY DEF ParseHeader, FLV_HEADER_SIZE
<1>4. /\ adapter' = [at |-> adapter.at + 1, len |-> adapter.len - 1]
      /\ adapter.at = 0 /\ adapter.len >= 1
  BY DEF ParseHeader, FLV_HEADER_SIZE, Take, Expected, Available
<1> HIDE DEF e, seekable
<1>5. /\ e.pad = demux.pad /\ e.offset = demux.offset /\ e.ret = "OK"
      /\ Fields([demux EXCEPT !.ret = "OK"], e)
  BY <1>1, <1>2 DEF DemuxType, Fields
<1>6. /\ demux' \in DemuxType /\ demux'.state = "TAG_TYPE" /\ demux'.offset = e.offset + 1
      /\ demux'.pad = e.pad /\ demux'.ret = e.ret /\ Fields(e, demux')
  <2>1. e \in DemuxType
    BY <1>2
  <2>2. e.offset + 1 \in Nat
    BY <2>1 DEF DemuxType
  <2>. QED BY <1>3, <2>1, <2>2 DEF DemuxType, Fields, States
<1>. QED BY <1>4, <1>5, <1>6 DEF Fields

LEMMA TypeDoes ==
  ASSUME TypeOK, ChainInv, ParseTagType
  PROVE  LET i == TagAt(file, adapter.at) IN
         /\ i \in DOMAIN file /\ adapter.at = Position(i)
         /\ demux' \in DemuxType /\ demux'.state = StateOf(file[i].type)
         /\ demux'.offset = demux.offset + 1 /\ demux'.cur_tag_offset = demux.offset
         /\ demux'.tag = i /\ demux'.pad = demux.pad /\ demux'.got_par = demux.got_par
         /\ demux'.indexed = demux.indexed /\ demux'.index = demux.index
         /\ demux'.file_size = demux.file_size /\ demux'.ret = "OK"
         /\ adapter' = [at |-> adapter.at + 1, len |-> adapter.len - 1] /\ adapter.len >= 1
<1> DEFINE i == TagAt(file, adapter.at)
           d == [demux EXCEPT !.cur_tag_offset = demux.offset, !.tag = i, !.offset = @ + 1]
<1>1. i \in DOMAIN file /\ adapter.at = Position(i) /\ file[i] \in Tags /\ i \in Nat
  BY AtStart
<1>2. /\ demux' = gst_flv_demux_parse_tag_type(d, file[i])
      /\ adapter' = [at |-> adapter.at + 1, len |-> adapter.len - 1] /\ adapter.len >= 1
  BY DEF ParseTagType, FLV_TAG_TYPE_SIZE, Take, Available
<1> HIDE DEF i
<1>3. /\ d \in DemuxType /\ d.offset = demux.offset + 1 /\ d.cur_tag_offset = demux.offset
      /\ d.tag = i /\ d.pad = demux.pad /\ d.got_par = demux.got_par
      /\ d.indexed = demux.indexed /\ d.index = demux.index /\ d.file_size = demux.file_size
  <2>1. demux \in DemuxType
    BY DEF TypeOK
  <2>2. i \in Nat /\ demux.offset \in Nat /\ demux.offset + 1 \in Nat
    BY <1>1, <2>1 DEF DemuxType
  <2>. QED BY <2>1, <2>2 DEF DemuxType
<1> HIDE DEF d
<1>4. /\ demux' \in DemuxType /\ demux'.state = StateOf(file[i].type)
      /\ demux'.ret = "OK" /\ demux'.pad = d.pad /\ demux'.index = d.index
      /\ demux'.offset = d.offset /\ demux'.cur_tag_offset = d.cur_tag_offset
      /\ demux'.got_par = d.got_par /\ demux'.file_size = d.file_size
  BY <1>1, <1>2, <1>3, TagTypeType DEF StateOf
<1>5. demux'.tag = d.tag /\ demux'.indexed = d.indexed
  BY <1>2, <1>3 DEF gst_flv_demux_parse_tag_type, DemuxType
<1>. QED BY <1>1, <1>2, <1>3, <1>4, <1>5 DEF i

---------------------------------------------------------------------------
(* The threads and the types. *)

LEMMA StreamsExist ==
  ASSUME NEW d, NEW e, \A p \in Streams : Stream(d.pad[p], e.pad[p])
  PROVE  Existing(e) = Existing(d)
BY DEF Existing, Stream

LEMMA SegmentDoes ==
  ASSUME TypeOK, Segment
  PROVE  Quiet(demux, demux')
<1> DEFINE a == NeedSegment(demux, NoSegment)
<1>1. Quiet(demux, a) /\ a \in DemuxType
  BY NeedSegmentQuiet, NewPadType DEF TypeOK, Quiet
<1>2. demux' = gst_flow_combiner_reset(a)
  BY DEF Segment
<1> HIDE DEF a
<1>. QED BY <1>1, <1>2, ResetQuiet, QuietTrans

\* Every stream there is has ended.
Ended(d, e) ==
  /\ e \in DemuxType /\ Fields(d, e) /\ e.state = d.state /\ e.offset = d.offset
  /\ \A p \in Streams :
       /\ Stream(d.pad[p], e.pad[p]) /\ e.pad[p].need_discont = d.pad[p].need_discont
       /\ e.pad[p].out.tag = d.pad[p].out.tag
       /\ e.pad[p].out.discont = d.pad[p].out.discont
       /\ e.pad[p].out.eos = (d.pad[p].exists \/ d.pad[p].out.eos)

LEMMA SinkEosDoes ==
  ASSUME TypeOK, SinkEos
  PROVE  Ended(demux, demux')
<1> DEFINE a == [demux EXCEPT !.no_more_pads = TRUE]
           e == gst_flv_demux_push_src_event(a, "EOS")
<1>0. demux \in DemuxType
  BY DEF TypeOK
<1>1. /\ a \in DemuxType /\ Fields(demux, a) /\ a.state = demux.state
      /\ a.offset = demux.offset /\ a.pad = demux.pad
  BY <1>0 DEF DemuxType, Fields
<1>2. demux' = IF Existing(demux) = {} THEN demux ELSE e
  BY DEF SinkEos
<1>3. \A p \in Streams : demux.pad[p] \in PadType
  BY <1>0, PadOf
<1>4. CASE Existing(demux) = {}
  <2>1. demux' = demux /\ \A p \in Streams : ~demux.pad[p].exists
    BY <1>2, <1>4 DEF Existing
  <2>2. \A p \in Streams : demux.pad[p].out.eos \in BOOLEAN
    BY <1>3 DEF PadType, OutType
  <2>. QED BY <1>0, <2>1, <2>2 DEF Ended, Fields, Stream, SameTimes
<1>5. CASE Existing(demux) # {}
  <2>. HIDE DEF a
  <2>1. /\ e \in DemuxType /\ e = [a EXCEPT !.pad = e.pad]
        /\ \A p \in Streams :
             e.pad[p] = IF a.pad[p].exists THEN [a.pad[p] EXCEPT !.out = EventOut(@, "EOS")]
                        ELSE a.pad[p]
    BY <1>1, PushEventType
  <2>. HIDE DEF e
  <2>2. demux' = e
    BY <1>2, <1>5
  <2>3. Fields(demux, e) /\ e.state = demux.state /\ e.offset = demux.offset
    BY <1>1, <2>1 DEF DemuxType, Fields
  <2>4. ASSUME NEW p \in Streams
        PROVE  /\ Stream(demux.pad[p], e.pad[p])
               /\ e.pad[p].need_discont = demux.pad[p].need_discont
               /\ e.pad[p].out.tag = demux.pad[p].out.tag
               /\ e.pad[p].out.discont = demux.pad[p].out.discont
               /\ e.pad[p].out.eos = (demux.pad[p].exists \/ demux.pad[p].out.eos)
    <3>1. \A x \in PadType :
            LET y == [x EXCEPT !.out = [x.out EXCEPT !.eos = TRUE]] IN
            /\ Stream(x, y) /\ y.need_discont = x.need_discont /\ y.out.tag = x.out.tag
            /\ y.out.discont = x.out.discont /\ y.out.eos
      BY DEF PadType, OutType, Stream, SameTimes
    <3>2. \A out : EventOut(out, "EOS") = [out EXCEPT !.eos = TRUE]
      BY DEF EventOut
    <3>3. demux.pad[p].out.eos \in BOOLEAN /\ demux.pad[p].exists \in BOOLEAN
      BY <1>3 DEF PadType, OutType
    <3>4. CASE demux.pad[p].exists
      <4>1. e.pad[p] = [demux.pad[p] EXCEPT !.out = [demux.pad[p].out EXCEPT !.eos = TRUE]]
        BY <1>1, <2>1, <3>2, <3>4
      <4>. QED BY <1>3, <3>1, <3>4, <4>1
    <3>5. CASE ~demux.pad[p].exists
      BY <1>1, <2>1, <3>3, <3>5 DEF Stream, SameTimes
    <3>. QED BY <3>4, <3>5
  <2>. QED BY <2>1, <2>2, <2>3, <2>4 DEF Ended
<1>. QED BY <1>4, <1>5

LEMMA KeepsSegment ==
  ASSUME PushInv, Segment
  PROVE  PushInv'
<1>1. Quiet(demux, demux') /\ Existing(demux') = Existing(demux)
  BY SegmentDoes, StreamsExist DEF PushInv, Quiet
<1>2. TypeOK'
  BY <1>1 DEF PushInv, TypeOK, Quiet, Segment, UpstreamType
<1>3. ChainInv'
  BY <1>1 DEF PushInv, TypeOK, ChainInv, Quiet, Fields, Segment, CanSend, UpstreamType, Whole, FileSize
<1>4. AppInv'
  BY <1>1 DEF PushInv, TypeOK, AppInv, Quiet, Fields, Segment, UpstreamType, FileSize
<1>. QED BY <1>2, <1>3, <1>4 DEF PushInv

LEMMA KeepsSinkEos ==
  ASSUME PushInv, SinkEos
  PROVE  PushInv'
<1>1. Ended(demux, demux') /\ Existing(demux') = Existing(demux)
  BY SinkEosDoes, StreamsExist DEF PushInv, Ended
<1>2. TypeOK'
  BY <1>1 DEF PushInv, TypeOK, Ended, SinkEos, UpstreamType
<1>3. ChainInv'
  BY <1>1 DEF PushInv, TypeOK, ChainInv, Ended, Fields, SinkEos, CanSend, UpstreamType, Whole, FileSize
<1>4. AppInv'
  BY <1>1 DEF PushInv, TypeOK, AppInv, Ended, Fields, SinkEos, UpstreamType, FileSize
<1>. QED BY <1>2, <1>3, <1>4 DEF PushInv

\* A chunk is taken.
LEMMA ChainDoes ==
  ASSUME TypeOK, NEW n \in 1..MaxChunk, Chain(n)
  PROVE  /\ demux' \in DemuxType /\ demux'.pad = demux.pad
         /\ Fields([demux EXCEPT !.ret = "OK"], demux') /\ demux'.ret = "OK"
         /\ demux'.offset = (IF upstream.pos = 0 THEN 0
                             ELSE IF demux.offset = 0 THEN upstream.pos ELSE demux.offset)
         /\ demux'.state = (IF request.seeking THEN "SEEK"
                            ELSE IF upstream.pos = 0 THEN "HEADER" ELSE demux.state)
         /\ adapter'.at = (IF upstream.discont \/ adapter.len = 0 THEN upstream.pos
                           ELSE adapter.at)
         /\ adapter'.len = (IF upstream.discont THEN n ELSE adapter.len + n)
         /\ adapter' \in [at : Nat, len : Nat] /\ n \in Nat /\ n >= 1
         /\ upstream' = [upstream EXCEPT !.pos = @ + n, !.discont = FALSE]
         /\ upstream'.pos = upstream.pos + n /\ upstream'.pos <= FileSize
<1>1. demux \in DemuxType /\ upstream \in UpstreamType /\ adapter \in [at : Nat, len : Nat]
      /\ request \in RequestType
  BY DEF TypeOK
<1>2. n \in Nat /\ n >= 1
  BY PushAssumption
<1> DEFINE pos == upstream.pos
           first == pos = 0
           offset == IF first THEN 0 ELSE IF demux.offset = 0 THEN pos ELSE demux.offset
           state == IF request.seeking THEN "SEEK" ELSE IF first THEN "HEADER" ELSE demux.state
           held == IF upstream.discont THEN 0 ELSE adapter.len
<1>3. /\ demux' = [demux EXCEPT !.offset = offset, !.ret = "OK", !.state = state]
      /\ adapter' = [at |-> IF held = 0 THEN pos ELSE adapter.at, len |-> held + n]
      /\ upstream' = [upstream EXCEPT !.pos = @ + n, !.discont = FALSE]
      /\ pos + n <= FileSize
  BY DEF Chain
<1>4. pos \in Nat /\ upstream.discont \in BOOLEAN
  BY <1>1 DEF UpstreamType
<1>5. offset \in Nat /\ state \in States
  BY <1>1, <1>4 DEF DemuxType, States
<1>6. held \in Nat /\ held = (IF upstream.discont THEN 0 ELSE adapter.len)
      /\ (held = 0 <=> upstream.discont \/ adapter.len = 0)
  BY <1>1, <1>4
<1>7. upstream'.pos = pos + n
  BY <1>1, <1>3 DEF UpstreamType
<1>8. /\ adapter'.at = (IF upstream.discont \/ adapter.len = 0 THEN pos ELSE adapter.at)
      /\ adapter'.len = (IF upstream.discont THEN n ELSE adapter.len + n)
      /\ adapter' \in [at : Nat, len : Nat]
  <2>. HIDE DEF held, pos
  <2>. QED BY <1>1, <1>2, <1>3, <1>4, <1>6
<1>9. demux'.state = state /\ demux'.offset = offset
  BY <1>1, <1>3 DEF DemuxType
<1> HIDE DEF offset, state
<1>10. /\ demux' \in DemuxType /\ demux'.pad = demux.pad
       /\ Fields([demux EXCEPT !.ret = "OK"], demux') /\ demux'.ret = "OK"
  BY <1>1, <1>3, <1>5 DEF DemuxType, Fields, FlowReturns
<1>. QED BY <1>2, <1>3, <1>7, <1>8, <1>9, <1>10 DEF offset, state

LEMMA KeepsChain ==
  ASSUME PushInv, NEW n \in 1..MaxChunk, Chain(n)
  PROVE  PushInv'
<1>1. TypeOK
  BY DEF PushInv
<1>2. /\ demux' \in DemuxType /\ demux'.pad = demux.pad
      /\ Fields([demux EXCEPT !.ret = "OK"], demux')
      /\ demux'.state = (IF request.seeking THEN "SEEK"
                         ELSE IF upstream.pos = 0 THEN "HEADER" ELSE demux.state)
      /\ adapter'.at = (IF upstream.discont \/ adapter.len = 0 THEN upstream.pos
                        ELSE adapter.at)
      /\ adapter'.len = (IF upstream.discont THEN n ELSE adapter.len + n)
      /\ adapter' \in [at : Nat, len : Nat] /\ n \in Nat /\ n >= 1
      /\ upstream' = [upstream EXCEPT !.pos = @ + n, !.discont = FALSE]
      /\ upstream'.pos = upstream.pos + n /\ upstream'.pos <= FileSize
  BY <1>1, ChainDoes
<1>3. /\ request' = [request EXCEPT !.seeking = FALSE] /\ chain' = "parse" /\ chain = "idle"
      /\ past' = [past EXCEPT !.raced = @ \/ Racing] /\ ~upstream.flushing
      /\ UNCHANGED <<file, flags, flushing, app, seeks, restarts>>
  BY DEF Chain, CanSend
<1>4. Racing \in BOOLEAN
  BY DEF Racing
<1>5. upstream' \in UpstreamType /\ upstream'.discont = FALSE
      /\ upstream'.flushing = upstream.flushing /\ upstream'.seekable = upstream.seekable
  <2>1. /\ upstream \in UpstreamType /\ n \in Nat
        /\ upstream' = [upstream EXCEPT !.pos = upstream.pos + n, !.discont = FALSE]
    BY <1>1, <1>2 DEF TypeOK
  <2>2. upstream.pos + n \in Nat
    BY <2>1 DEF UpstreamType
  <2>. QED BY <2>1, <2>2 DEF UpstreamType
<1>6. TypeOK'
  <2>1. request' \in RequestType
    BY <1>1, <1>3 DEF TypeOK, RequestType
  <2>2. past' \in PastType
    BY <1>1, <1>3, <1>4 DEF TypeOK, PastType
  <2>. QED BY <1>1, <1>2, <1>3, <1>5, <2>1, <2>2 DEF TypeOK
<1>7. demux'.tag = demux.tag /\ demux'.indexed = demux.indexed
      /\ demux'.file_size = demux.file_size /\ Existing(demux') = Existing(demux)
  BY <1>1, <1>2 DEF TypeOK, Fields, DemuxType, Existing
<1>8. ChainInv'
  <2>1. upstream.pos \in Nat /\ adapter.at \in Nat /\ adapter.len \in Nat
    BY <1>1 DEF TypeOK, UpstreamType
  <2>2. ~upstream.discont /\ adapter.len > 0 => adapter.at + adapter.len = upstream.pos
    BY DEF PushInv, ChainInv, Whole
  <2>3. Whole'
    BY <1>2, <2>1, <2>2 DEF Whole
  <2>4. FileSize' = FileSize
    BY <1>3 DEF FileSize
  <2>5. demux.state \in TagStates =>
          demux.tag \in DOMAIN file /\ demux.state = StateOf(file[demux.tag].type)
    BY DEF PushInv, ChainInv
  <2>6. demux'.state \in TagStates => demux'.state = demux.state
    BY <1>2 DEF TagStates
  <2>7. upstream'.pos > 0
    BY <1>2, <2>1
  <2>. QED BY <1>2, <1>3, <1>5, <1>7, <2>3, <2>4, <2>5, <2>6, <2>7 DEF ChainInv
<1>9. AppInv'
  BY <1>2, <1>3, <1>5, <1>7 DEF PushInv, AppInv, FileSize
<1>. QED BY <1>6, <1>8, <1>9 DEF PushInv

LEMMA MovedType ==
  ASSUME upstream \in UpstreamType, NEW pos \in Nat
  PROVE  /\ Moved(pos) \in UpstreamType /\ Moved(pos).pos = pos
         /\ Moved(pos).discont = TRUE /\ Moved(pos).segment = TRUE /\ Moved(pos).eos = FALSE
         /\ Moved(pos).flushing = FALSE /\ Moved(pos).stopped = FALSE
         /\ Moved(pos).seekable = upstream.seekable /\ Moved(pos).sized = upstream.sized
BY DEF Moved, UpstreamType

LEMMA StoppedType ==
  ASSUME upstream \in UpstreamType
  PROVE  LET u == [upstream EXCEPT !.stopped = TRUE] IN
         /\ u \in UpstreamType /\ u.pos = upstream.pos /\ u.discont = upstream.discont
         /\ u.flushing = upstream.flushing /\ u.seekable = upstream.seekable
         /\ u.sized = upstream.sized /\ u.eos = upstream.eos /\ u.stopped
BY DEF UpstreamType

LEMMA KeepsLeave ==
  ASSUME PushInv, Leave
  PROVE  PushInv'
<1>1. TypeOK /\ ChainInv /\ AppInv /\ chain' = "idle"
      /\ upstream' = [upstream EXCEPT !.stopped = TRUE]
      /\ UNCHANGED <<file, flags, demux, request, flushing, adapter, app, seeks,
                     restarts, past>>
  BY DEF PushInv, Leave
<1>2. /\ upstream' \in UpstreamType /\ upstream'.pos = upstream.pos
      /\ upstream'.discont = upstream.discont /\ upstream'.flushing = upstream.flushing
      /\ upstream'.seekable = upstream.seekable
  BY <1>1, StoppedType DEF TypeOK
<1>3. TypeOK'
  BY <1>1, <1>2 DEF TypeOK
<1>4. ChainInv'
  BY <1>1, <1>2 DEF ChainInv, Whole, FileSize
<1>5. AppInv'
  BY <1>1, <1>2 DEF AppInv, FileSize
<1>. QED BY <1>3, <1>4, <1>5 DEF PushInv

LEMMA KeepsWait ==
  ASSUME PushInv, Wait
  PROVE  PushInv'
<1>1. TypeOK /\ ChainInv /\ AppInv /\ chain' = "idle"
      /\ UNCHANGED <<file, flags, demux, request, flushing, adapter, upstream, app,
                     seeks, restarts, past>>
  BY DEF PushInv, Wait
<1>2. TypeOK' /\ ChainInv' /\ AppInv'
  BY <1>1 DEF TypeOK, ChainInv, AppInv, Whole, FileSize
<1>. QED BY <1>2 DEF PushInv

LEMMA KeepsGarble ==
  ASSUME PushInv, Garble
  PROVE  PushInv'
<1>1. /\ TypeOK /\ ChainInv /\ AppInv /\ chain' = "idle"
      /\ demux' = [demux EXCEPT !.state = "TAG_TYPE"]
      /\ adapter' = [adapter EXCEPT !.len = 0]
      /\ past' = [past EXCEPT !.garbled = TRUE]
      /\ UNCHANGED <<file, flags, request, flushing, upstream, app, seeks, restarts>>
  BY DEF PushInv, Garble, Clear
<1>2. /\ demux' \in DemuxType /\ demux'.state = "TAG_TYPE" /\ demux'.pad = demux.pad
      /\ demux'.tag = demux.tag /\ demux'.indexed = demux.indexed
      /\ demux'.file_size = demux.file_size
  BY <1>1 DEF TypeOK, DemuxType, States
<1>3. adapter' \in [at : Nat, len : Nat] /\ adapter'.len = 0 /\ past' \in PastType
  BY <1>1 DEF TypeOK, PastType
<1>4. TypeOK'
  BY <1>1, <1>2, <1>3 DEF TypeOK
<1>5. ChainInv'
  BY <1>1, <1>2, <1>3 DEF ChainInv, TagStates
<1>6. AppInv'
  BY <1>1, <1>2 DEF AppInv, FileSize, Existing
<1>. QED BY <1>4, <1>5, <1>6 DEF PushInv

LEMMA KeepsHeader ==
  ASSUME PushInv, ParseHeader
  PROVE  PushInv'
<1>1. /\ TypeOK /\ ChainInv /\ AppInv /\ chain = "parse"
      /\ UNCHANGED <<file, flags, request, flushing, chain, upstream, app, seeks,
                     restarts, past>>
  BY DEF PushInv, ParseHeader, Parsing
<1>2. /\ demux' \in DemuxType /\ Fields([demux EXCEPT !.ret = "OK"], demux')
      /\ demux'.state = "TAG_TYPE" /\ demux'.pad = demux.pad
      /\ adapter' = [at |-> adapter.at + 1, len |-> adapter.len - 1] /\ adapter.len >= 1
  BY <1>1, HeaderDoes
<1>3. demux'.tag = demux.tag /\ demux'.indexed = demux.indexed
      /\ demux'.file_size = demux.file_size
  BY <1>1, <1>2 DEF TypeOK, DemuxType, Fields
<1>4. adapter.at \in Nat /\ adapter.len \in Nat /\ upstream.pos \in Nat
  BY <1>1 DEF TypeOK, UpstreamType
<1>5. TypeOK'
  BY <1>1, <1>2, <1>4 DEF TypeOK
<1>6. ChainInv'
  <2>1. Whole'
    BY <1>1, <1>2, <1>4 DEF ChainInv, Whole
  <2>. QED BY <1>1, <1>2, <2>1 DEF ChainInv, TagStates, FileSize
<1>7. AppInv'
  BY <1>1, <1>2, <1>3 DEF AppInv, FileSize, Existing
<1>. QED BY <1>5, <1>6, <1>7 DEF PushInv

LEMMA KeepsType ==
  ASSUME PushInv, ParseTagType
  PROVE  PushInv'
<1> DEFINE i == TagAt(file, adapter.at)
<1>1. /\ TypeOK /\ ChainInv /\ AppInv /\ chain = "parse" /\ chain' = "typed"
      /\ UNCHANGED <<file, flags, request, flushing, upstream, app, seeks, restarts, past>>
  BY DEF PushInv, ParseTagType, Parsing
<1>2. /\ i \in DOMAIN file /\ demux' \in DemuxType
      /\ demux'.state = StateOf(file[i].type) /\ demux'.tag = i /\ demux'.pad = demux.pad
      /\ demux'.indexed = demux.indexed /\ demux'.file_size = demux.file_size
      /\ adapter' = [at |-> adapter.at + 1, len |-> adapter.len - 1] /\ adapter.len >= 1
  BY <1>1, TypeDoes
<1> HIDE DEF i
<1>3. adapter.at \in Nat /\ adapter.len \in Nat /\ upstream.pos \in Nat
  BY <1>1 DEF TypeOK, UpstreamType
<1>4. TypeOK'
  BY <1>1, <1>2, <1>3 DEF TypeOK
<1>5. ChainInv'
  <2>1. Whole'
    BY <1>1, <1>2, <1>3 DEF ChainInv, Whole
  <2>2. demux'.state \in TagStates
    BY <1>2 DEF StateOf, TagStates
  <2>. QED BY <1>1, <1>2, <2>1, <2>2 DEF ChainInv, FileSize
<1>6. AppInv'
  BY <1>1, <1>2 DEF AppInv, FileSize, Existing
<1>. QED BY <1>4, <1>5, <1>6 DEF PushInv

\* A seek to a byte in the streaming thread: chain is out.
LEMMA KeepsSought ==
  ASSUME PushInv, NEW d \in DemuxType, NEW offset \in Nat, SoughtTo(d, offset),
         d.tag = demux.tag, d.indexed = demux.indexed, d.file_size = demux.file_size,
         d.pad = demux.pad, d.state \in {demux.state, "TAG_TYPE", "SEEK"},
         request' \in RequestType, past' \in PastType, chain' = "idle",
         UNCHANGED <<file, flags, app, seeks, restarts>>
  PROVE  PushInv'
<1>1. TypeOK /\ ChainInv /\ AppInv
  BY DEF PushInv
<1>2. /\ demux' \in DemuxType /\ demux'.tag = demux.tag /\ demux'.indexed = demux.indexed
      /\ demux'.file_size = demux.file_size
  BY DEF SoughtTo, Fields
<1>3. CASE ~upstream.seekable
  <2>1. demux' = d /\ UNCHANGED <<adapter, flushing, upstream>>
    BY <1>3 DEF SoughtTo
  <2>2. TypeOK'
    BY <1>1, <2>1 DEF TypeOK
  <2>3. ChainInv'
    BY <1>1, <2>1 DEF ChainInv, TagStates, Whole
  <2>4. AppInv'
    BY <1>1, <2>1 DEF AppInv, FileSize, Existing
  <2>. QED BY <2>2, <2>3, <2>4 DEF PushInv
<1>4. CASE upstream.seekable
  <2>1. /\ BrokenStreams(d, demux') /\ demux'.state \in {"SEEK", "TAG_TYPE"}
        /\ adapter' = [adapter EXCEPT !.len = 0] /\ flushing' = FALSE
        /\ upstream' = Moved(offset)
    BY <1>4 DEF SoughtTo
  <2>2. /\ upstream' \in UpstreamType /\ upstream'.discont = TRUE
        /\ upstream'.flushing = FALSE /\ upstream'.seekable
    BY <1>1, <1>4, <2>1, MovedType DEF TypeOK
  <2>3. Existing(demux') = Existing(demux)
    BY <2>1, StreamsExist DEF BrokenStreams, Existing
  <2>4. TypeOK'
    BY <1>1, <1>2, <2>1, <2>2 DEF TypeOK
  <2>5. ChainInv'
    BY <1>1, <2>1, <2>2 DEF ChainInv, TagStates
  <2>6. AppInv'
    BY <1>1, <1>2, <2>1, <2>2, <2>3 DEF AppInv, FileSize
  <2>. QED BY <2>4, <2>5, <2>6 DEF PushInv
<1>. QED BY <1>3, <1>4

LEMMA NoIndexDoes ==
  ASSUME TypeOK, NEW d \in DemuxType, NoIndex(d)
  PROVE  /\ SoughtTo(d, 0) /\ chain' = "idle"
         /\ request' = [request EXCEPT !.seeking = FALSE, !.event = NoEvent]
         /\ request' \in RequestType
         /\ past' = [past EXCEPT !.raced = @ \/ Racing] /\ past' \in PastType
<1>1. /\ SeekToOffset(d, 0) /\ chain' = "idle"
      /\ request' = [request EXCEPT !.seeking = FALSE, !.event = NoEvent]
      /\ past' = [past EXCEPT !.raced = @ \/ Racing]
  BY DEF NoIndex
<1>2. request' \in RequestType
  BY <1>1 DEF TypeOK, RequestType, AllEvents
<1>3. Racing \in BOOLEAN
  BY DEF Racing
<1>4. past' \in PastType
  BY <1>1, <1>3 DEF TypeOK, PastType
<1>. QED BY <1>1, <1>2, <1>4, SeekToOffsetDoes

\* The tag at hand is left behind.
Behind ==
  [demux EXCEPT !.offset = @ + tag_size,
     !.state = IF file[demux.tag].type = "script" /\ request.event # NoEvent /\ demux.indexed
               THEN "SEEK" ELSE "TAG_TYPE"]

LEMMA BehindDoes ==
  ASSUME TypeOK
  PROVE  /\ Behind \in DemuxType /\ Fields(demux, Behind) /\ Behind.pad = demux.pad
         /\ Behind.offset = demux.offset + 2
         /\ Behind.state = IF file[demux.tag].type = "script" /\ request.event # NoEvent
                              /\ demux.indexed THEN "SEEK" ELSE "TAG_TYPE"
<1>1. demux \in DemuxType
  BY DEF TypeOK
<1>2. demux.offset + 2 \in Nat
  BY <1>1 DEF DemuxType
<1> DEFINE state == IF file[demux.tag].type = "script" /\ request.event # NoEvent
                       /\ demux.indexed THEN "SEEK" ELSE "TAG_TYPE"
<1>3. state \in States
  BY DEF States
<1>4. Behind = [demux EXCEPT !.offset = demux.offset + 2, !.state = state]
  BY DEF Behind, tag_size
<1> HIDE DEF state
<1>5. /\ Behind \in DemuxType /\ Fields(demux, Behind) /\ Behind.pad = demux.pad
      /\ Behind.offset = demux.offset + 2 /\ Behind.state = state
  BY <1>1, <1>2, <1>3, <1>4 DEF DemuxType, Fields
<1>. QED BY <1>5 DEF state

LEMMA ParsedDoes ==
  ASSUME TypeOK, TagParsed
  PROVE  \/ /\ file[demux.tag].type = "script" /\ request.event # NoEvent /\ ~demux.indexed
            /\ NoIndex(Behind)
         \/ /\ ~(file[demux.tag].type = "script" /\ request.event # NoEvent /\ ~demux.indexed)
            /\ demux' = Behind /\ chain' = "parse"
            /\ UNCHANGED <<request, flushing, adapter, upstream, past>>
BY DEF TagParsed, Behind

LEMMA KeepsTyped ==
  ASSUME PushInv, TagTyped
  PROVE  PushInv'
<1>1. /\ TypeOK /\ ChainInv /\ AppInv /\ chain = "typed" /\ demux \in DemuxType
      /\ UNCHANGED <<file, flags, app, seeks, restarts>>
  BY DEF PushInv, TagTyped, TypeOK
<1>2. CASE NoIndex(demux)
  <2>1. /\ SoughtTo(demux, 0) /\ chain' = "idle" /\ request' \in RequestType
        /\ past' \in PastType
    BY <1>1, <1>2, NoIndexDoes
  <2>. QED BY <1>1, <2>1, KeepsSought
<1>3. CASE chain' = "parse" /\ UNCHANGED <<demux, request, flushing, adapter, upstream, past>>
  <2>1. TypeOK' /\ ChainInv' /\ AppInv'
    BY <1>1, <1>3 DEF TypeOK, ChainInv, AppInv, Whole, FileSize
  <2>. QED BY <2>1 DEF PushInv
<1>. QED BY <1>2, <1>3 DEF TagTyped

LEMMA KeepsParsed ==
  ASSUME PushInv, TagParsed
  PROVE  PushInv'
<1>1. /\ TypeOK /\ ChainInv /\ AppInv /\ chain = "parsed" /\ demux \in DemuxType
      /\ UNCHANGED <<file, flags, app, seeks, restarts>>
  BY DEF PushInv, TagParsed, TypeOK
<1>2. /\ Behind \in DemuxType /\ Behind.tag = demux.tag /\ Behind.indexed = demux.indexed
      /\ Behind.file_size = demux.file_size /\ Behind.pad = demux.pad
      /\ Behind.state \in {"TAG_TYPE", "SEEK"}
  BY <1>1, BehindDoes DEF Fields
<1>3. CASE NoIndex(Behind)
  <2>1. /\ SoughtTo(Behind, 0) /\ chain' = "idle" /\ request' \in RequestType
        /\ past' \in PastType
    BY <1>1, <1>2, <1>3, NoIndexDoes
  <2>. QED BY <1>1, <1>2, <2>1, KeepsSought
<1>4. CASE demux' = Behind /\ chain' = "parse"
           /\ UNCHANGED <<request, flushing, adapter, upstream, past>>
  <2>1. TypeOK'
    BY <1>1, <1>2, <1>4 DEF TypeOK
  <2>2. ChainInv'
    BY <1>1, <1>2, <1>4 DEF ChainInv, Whole, FileSize, TagStates
  <2>3. AppInv'
    BY <1>1, <1>2, <1>4 DEF AppInv, FileSize, Existing
  <2>. QED BY <2>1, <2>2, <2>3 DEF PushInv
<1>. QED BY <1>1, <1>3, <1>4, ParsedDoes

LEMMA TakeDoes ==
  ASSUME TypeOK, ChainInv, NEW flow \in Returned, TakeTag(flow)
  PROVE  /\ TagDoes(demux', flow) /\ flow \in Returns
         /\ demux.state \in TagStates /\ demux.tag \in DOMAIN file
         /\ chain = "parse" /\ chain' = "parsed" /\ ~flushing /\ demux.ret = "OK"
         /\ adapter.len >= 2
         /\ adapter' = [at |-> adapter.at + 2, len |-> adapter.len - 2]
         /\ adapter.at = Position(demux.tag) + FLV_TAG_TYPE_SIZE
         /\ UNCHANGED <<file, flags, request, flushing, upstream, app, seeks, restarts, past>>
<1>1. demux.state \in TagStates /\ chain = "parse" /\ ~flushing /\ demux.ret = "OK"
  BY DEF TakeTag, Parsing
<1>2. /\ demux' = ParseTag(demux, file, demux.tag, flow) /\ chain' = "parsed"
      /\ adapter.len >= 2 /\ adapter' = [at |-> adapter.at + 2, len |-> adapter.len - 2]
      /\ UNCHANGED <<file, flags, request, flushing, upstream, app, seeks, restarts, past>>
  BY DEF TakeTag, Available, Take, tag_size
<1>3. adapter.at = Position(demux.tag) + FLV_TAG_TYPE_SIZE
  BY <1>1 DEF TakeTag, Expected, TagStates
<1>4. flow \in Returns
  BY ReturnedIs
<1>5. TagDoes(ParseTag(demux, file, demux.tag, flow), flow)
  BY <1>1, <1>4, ParseTagDoes
<1>6. demux.tag \in DOMAIN file
  BY <1>1 DEF ChainInv
<1>. QED BY <1>1, <1>2, <1>3, <1>4, <1>5, <1>6

LEMMA KeepsTake ==
  ASSUME PushInv, NEW flow \in Returned, TakeTag(flow)
  PROVE  PushInv'
<1>1. TypeOK /\ ChainInv /\ AppInv
  BY DEF PushInv
<1>2. /\ TagDoes(demux', flow) /\ demux.tag \in DOMAIN file /\ chain = "parse"
      /\ demux.state \in TagStates
      /\ chain' = "parsed" /\ adapter.len >= 2
      /\ adapter' = [at |-> adapter.at + 2, len |-> adapter.len - 2]
      /\ UNCHANGED <<file, flags, request, flushing, upstream, app, seeks, restarts, past>>
  BY <1>1, TakeDoes
<1>3. /\ demux' \in DemuxType /\ demux'.state = demux.state /\ demux'.tag = demux.tag
      /\ demux'.file_size = demux.file_size /\ (demux.indexed => demux'.indexed)
  BY <1>2 DEF TagDoes, SamePlace
<1>4. adapter.at \in Nat /\ adapter.len \in Nat /\ upstream.pos \in Nat
  BY <1>1 DEF TypeOK, UpstreamType
<1>5. TypeOK'
  BY <1>1, <1>2, <1>3, <1>4 DEF TypeOK
<1>6. ChainInv'
  <2>1. Whole'
    BY <1>1, <1>2, <1>4 DEF ChainInv, Whole
  <2>. QED BY <1>1, <1>2, <1>3, <2>1 DEF ChainInv, FileSize
<1>7. AppInv'
  <2>1. file # <<>>
    BY <1>2
  <2>. QED BY <1>1, <1>2, <1>3, <2>1 DEF AppInv, FileSize
<1>. QED BY <1>5, <1>6, <1>7 DEF PushInv

LEMMA LastTagDoes ==
  ASSUME PushInv, SeekLastTag
  PROVE  LET d == [demux EXCEPT !.state = "TAG_TYPE"] IN
         \/ /\ demux.offset = demux.file_size - SIZE_OF_SIZE /\ adapter.len >= 1
            /\ d \in DemuxType /\ Fields(demux, d) /\ d.pad = demux.pad
            /\ d.state = "TAG_TYPE" /\ d.offset = demux.offset
            /\ chain' = "idle" /\ UNCHANGED <<request, past>>
            /\ file # <<>> => SoughtTo(d, Position(Len(file)))
            /\ SeekToOffset(d, Position(Len(file)))
         \/ NoIndex(demux)
<1>1. TypeOK /\ demux \in DemuxType
  BY DEF PushInv, TypeOK
<1> DEFINE d == [demux EXCEPT !.state = "TAG_TYPE"]
<1>2. d \in DemuxType /\ Fields(demux, d) /\ d.pad = demux.pad /\ d.state = "TAG_TYPE"
      /\ d.offset = demux.offset
  BY <1>1 DEF DemuxType, Fields, States
<1>3. ASSUME file # <<>>, SeekToOffset(d, Position(Len(file)))
      PROVE  SoughtTo(d, Position(Len(file)))
  <2>1. Len(file) \in DOMAIN file
    BY <1>1, <1>3, FileIs
  <2>2. Position(Len(file)) \in Nat
    BY <1>1, <2>1, FileIs
  <2>. QED BY <1>1, <1>2, <1>3, <2>2, SeekToOffsetDoes
<1>4. CASE demux.offset = demux.file_size - SIZE_OF_SIZE /\ Available(SIZE_OF_SIZE)
  <2>1. /\ SeekToOffset(d, Position(Len(file))) /\ chain' = "idle"
        /\ UNCHANGED <<request, past>>
    BY <1>4 DEF SeekLastTag
  <2>2. adapter.len >= 1
    BY <1>4 DEF Available, SIZE_OF_SIZE
  <2>. QED BY <1>2, <1>3, <1>4, <2>1, <2>2
<1>5. CASE ~(demux.offset = demux.file_size - SIZE_OF_SIZE /\ Available(SIZE_OF_SIZE))
  BY <1>5 DEF SeekLastTag
<1>. QED BY <1>4, <1>5

LEMMA KeepsLastTag ==
  ASSUME PushInv, SeekLastTag
  PROVE  PushInv'
<1> DEFINE d == [demux EXCEPT !.state = "TAG_TYPE"]
<1>1. /\ TypeOK /\ ChainInv /\ AppInv /\ demux \in DemuxType
      /\ UNCHANGED <<file, flags, app, seeks, restarts>>
  BY DEF PushInv, SeekLastTag, TypeOK
<1>2. CASE NoIndex(demux)
  <2>1. /\ SoughtTo(demux, 0) /\ chain' = "idle" /\ request' \in RequestType
        /\ past' \in PastType
    BY <1>1, <1>2, NoIndexDoes
  <2>. QED BY <1>1, <2>1, KeepsSought
<1>3. CASE ~NoIndex(demux)
  <2>1. /\ demux.offset = demux.file_size - SIZE_OF_SIZE
        /\ d \in DemuxType /\ Fields(demux, d) /\ d.pad = demux.pad /\ d.state = "TAG_TYPE"
        /\ chain' = "idle" /\ UNCHANGED <<request, past>>
        /\ file # <<>> => SoughtTo(d, Position(Len(file)))
    BY <1>3, LastTagDoes
  <2>. HIDE DEF d
  <2>2. demux.file_size # 0
    BY <1>1, <2>1 DEF DemuxType, SIZE_OF_SIZE
  <2>3. file # <<>>
    BY <1>1, <2>2 DEF AppInv
  <2>4. Position(Len(file)) \in Nat
    <3>1. Len(file) \in DOMAIN file
      BY <1>1, <2>3, FileIs
    <3>. QED BY <1>1, <3>1, FileIs
  <2>5. request' \in RequestType /\ past' \in PastType
    BY <1>1, <2>1 DEF TypeOK
  <2>. QED BY <1>1, <2>1, <2>3, <2>4, <2>5, KeepsSought DEF Fields
<1>. QED BY <1>2, <1>3

\* A seek in the streaming thread, and one that was not there and failed.
SameHistory(history) ==
  /\ history \in PastType /\ history.raced = past.raced /\ history.jumped = past.jumped
  /\ history.garbled = past.garbled /\ history.stayed = past.stayed

Found ==
  \E ev \in Events, history \in PastType :
    /\ SameHistory(history)
    /\ Stays(history) \/ Goes(ev, history) \/ Refused(history)

NotFound ==
  /\ SameStreams(demux, demux') /\ demux'.ret = "ERROR" /\ demux'.state = "SEEK"
  /\ upstream' = [upstream EXCEPT !.stopped = TRUE]
  /\ SameHistory(past') /\ UNCHANGED <<flushing, adapter>>

LEMMA ServeSeekDoes ==
  ASSUME TypeOK, ServeSeek
  PROVE  /\ chain = "parse" /\ chain' = "idle" /\ demux.indexed /\ ~flushing
         /\ demux.ret = "OK" /\ demux.state = "SEEK"
         /\ request' = [request EXCEPT !.event = NoEvent] /\ request' \in RequestType
         /\ demux' \in DemuxType /\ Fields([demux EXCEPT !.ret = demux'.ret], demux')
         /\ demux'.offset = demux.offset
         /\ Found \/ NotFound
         /\ UNCHANGED <<file, flags, app, seeks, restarts>>
<1>1. /\ chain = "parse" /\ chain' = "idle" /\ demux.indexed /\ ~flushing
      /\ demux.ret = "OK" /\ demux.state = "SEEK"
      /\ request' = [request EXCEPT !.event = NoEvent]
      /\ UNCHANGED <<file, flags, app, seeks, restarts>>
  BY DEF ServeSeek, Parsing
<1>2. request' \in RequestType
  BY <1>1 DEF TypeOK, RequestType, AllEvents
<1>3. \A ev \in Events :
        /\ SameHistory([past EXCEPT !.goal = ev.target])
        /\ SameHistory([past EXCEPT !.null_seek = TRUE, !.goal = ev.target])
  <2>1. \A ev \in Events : ev.target \in Int
    BY EventIs
  <2>2. past \in PastType
    BY DEF TypeOK
  <2>. QED BY <2>1, <2>2 DEF SameHistory, PastType
<1>4. ASSUME NEW ev \in Events, NEW history, SameHistory(history), Serve(ev, history)
      PROVE  /\ demux' \in DemuxType /\ Fields([demux EXCEPT !.ret = demux'.ret], demux')
             /\ demux'.offset = demux.offset /\ Found
  <2>1. /\ demux' \in DemuxType /\ Fields([demux EXCEPT !.ret = demux'.ret], demux')
        /\ demux'.offset = demux.offset
        /\ Stays(history) \/ Goes(ev, history) \/ Refused(history)
    BY <1>1, <1>4, ServeDoes
  <2>2. history \in PastType
    BY <1>4 DEF SameHistory
  <2>. QED BY <1>4, <2>1, <2>2 DEF Found
<1>5. CASE request.event # NoEvent
           /\ Serve(request.event, [past EXCEPT !.goal = request.event.target])
  <2>1. request.event \in Events
    BY <1>5 DEF TypeOK, RequestType, AllEvents
  <2>. QED BY <1>1, <1>2, <1>3, <1>4, <1>5, <2>1
<1>6. CASE \E ev \in Events : Serve(ev, [past EXCEPT !.null_seek = TRUE, !.goal = ev.target])
  BY <1>1, <1>2, <1>3, <1>4, <1>6
<1>7. CASE /\ demux' = [demux EXCEPT !.ret = "ERROR"]
           /\ upstream' = [upstream EXCEPT !.stopped = TRUE]
           /\ past' = [past EXCEPT !.null_seek = TRUE]
           /\ UNCHANGED <<flushing, adapter>>
  <2>1. /\ demux' \in DemuxType /\ Fields([demux EXCEPT !.ret = demux'.ret], demux')
        /\ demux'.offset = demux.offset /\ demux'.pad = demux.pad
        /\ demux'.ret = "ERROR" /\ demux'.state = demux.state
    BY <1>7 DEF TypeOK, DemuxType, FlowReturns, Fields
  <2>2. SameHistory(past')
    BY <1>7 DEF TypeOK, PastType, SameHistory
  <2>3. SameStreams(demux, demux')
    BY <2>1 DEF SameStreams, Stream, SameTimes
  <2>. QED BY <1>1, <1>2, <1>7, <2>1, <2>2, <2>3 DEF NotFound
<1>. QED BY <1>5, <1>6, <1>7 DEF ServeSeek

\* What becomes of the history, upstream and the adapter.
LEMMA ServedIs ==
  ASSUME TypeOK, AppInv, ~flushing, Found \/ NotFound
  PROVE  /\ past' \in PastType /\ past'.raced = past.raced /\ past'.garbled = past.garbled
         /\ past.jumped => past'.jumped
         /\ past.stayed => past'.stayed
         /\ upstream' \in UpstreamType /\ upstream'.flushing = flushing'
         /\ upstream'.seekable = upstream.seekable
         /\ upstream'.sized = upstream.sized
         /\ flushing' = FALSE /\ adapter' \in [at : Nat, len : Nat]
         /\ adapter'.at = adapter.at /\ adapter'.len \in {0, adapter.len}
         /\ upstream'.discont \/ (upstream'.discont = upstream.discont
              /\ upstream'.pos = upstream.pos /\ adapter' = adapter)
         /\ \A p \in Streams : Stream(demux.pad[p], demux'.pad[p])
         /\ demux'.state \in {"TAG_TYPE", "SEEK"}
         /\ ~upstream.seekable =>
              /\ upstream'.pos = upstream.pos /\ upstream'.discont = upstream.discont
              /\ adapter' = adapter /\ past'.jumped = past.jumped
<1>1. /\ past \in PastType /\ upstream \in UpstreamType /\ adapter \in [at : Nat, len : Nat]
      /\ flushing = FALSE /\ demux \in DemuxType /\ flushing = upstream.flushing
  BY DEF TypeOK, AppInv
<1>2. ASSUME NEW ev \in Events, NEW history, SameHistory(history), Stays(history)
      PROVE  /\ past' \in PastType /\ past'.raced = past.raced /\ past'.garbled = past.garbled
             /\ (past.jumped => past'.jumped) /\ (past.stayed => past'.stayed)
             /\ past'.jumped = past.jumped
             /\ UNCHANGED <<flushing, adapter, upstream>>
             /\ \A p \in Streams : Stream(demux.pad[p], demux'.pad[p])
             /\ demux'.state = "TAG_TYPE"
  BY <1>2 DEF SameHistory, Stays, PastType, SameStreams
<1>3. ASSUME NEW ev \in Events, NEW history, SameHistory(history), Goes(ev, history)
      PROVE  /\ past' \in PastType /\ past'.raced = past.raced /\ past'.garbled = past.garbled
             /\ (past.jumped => past'.jumped) /\ (past.stayed => past'.stayed)
             /\ upstream.seekable
             /\ upstream' \in UpstreamType /\ upstream'.flushing = FALSE
             /\ upstream'.seekable = upstream.seekable /\ upstream'.discont = TRUE
             /\ upstream'.sized = upstream.sized
             /\ flushing' \in {FALSE, flushing} /\ adapter' \in [at : Nat, len : Nat]
             /\ adapter'.at = adapter.at /\ adapter'.len \in {0, adapter.len}
             /\ \A p \in Streams : Stream(demux.pad[p], demux'.pad[p])
             /\ demux'.state = "TAG_TYPE"
  <2>1. FoundOffset(demux, ev) \in Nat
    BY <1>1, FoundType
  <2>2. upstream' = Moved(FoundOffset(demux, ev))
    BY <1>3 DEF Goes
  <2>3. /\ upstream' \in UpstreamType /\ upstream'.flushing = FALSE
        /\ upstream'.seekable = upstream.seekable /\ upstream'.discont = TRUE
        /\ upstream'.sized = upstream.sized
    BY <1>1, <2>1, <2>2, MovedType
  <2>4. ev.flush \in BOOLEAN
    BY EventIs
  <2>5. past' = [history EXCEPT !.jumped = @ \/ ~ev.flush]
    BY <1>3 DEF Goes
  <2>6. /\ past' \in PastType /\ past'.raced = past.raced /\ past'.garbled = past.garbled
        /\ (past.jumped => past'.jumped) /\ (past.stayed => past'.stayed)
    BY <1>1, <1>3, <2>4, <2>5 DEF SameHistory, PastType
  <2>7. /\ flushing' \in {FALSE, flushing} /\ adapter' \in [at : Nat, len : Nat]
        /\ adapter'.at = adapter.at /\ adapter'.len \in {0, adapter.len}
    <3>1. /\ [adapter EXCEPT !.len = 0] \in [at : Nat, len : Nat]
          /\ [adapter EXCEPT !.len = 0].at = adapter.at
          /\ [adapter EXCEPT !.len = 0].len = 0
      BY <1>1
    <3>2. CASE ev.flush
      <4>1. adapter' = [adapter EXCEPT !.len = 0] /\ flushing' = FALSE
        BY <1>3, <3>2 DEF Goes
      <4>. QED BY <3>1, <4>1
    <3>3. CASE ~ev.flush
      <4>1. UNCHANGED <<adapter, flushing>>
        BY <1>3, <3>3 DEF Goes
      <4>. QED BY <1>1, <4>1
    <3>. QED BY <3>2, <3>3
  <2>. QED BY <1>3, <2>3, <2>6, <2>7 DEF Goes, BrokenStreams
<1>4. ASSUME NEW history, SameHistory(history), Refused(history)
      PROVE  /\ past' \in PastType /\ past'.raced = past.raced /\ past'.garbled = past.garbled
             /\ (past.jumped => past'.jumped) /\ (past.stayed => past'.stayed)
             /\ past'.jumped = past.jumped
             /\ upstream' = [upstream EXCEPT !.stopped = TRUE]
             /\ UNCHANGED <<flushing, adapter>>
             /\ \A p \in Streams : Stream(demux.pad[p], demux'.pad[p])
             /\ demux'.state = "SEEK"
  BY <1>4 DEF SameHistory, Refused, BrokenStreams
<1>5. CASE NotFound
  <2>1. /\ past' \in PastType /\ past'.raced = past.raced /\ past'.garbled = past.garbled
        /\ (past.jumped => past'.jumped) /\ (past.stayed => past'.stayed)
        /\ past'.jumped = past.jumped
        /\ upstream' = [upstream EXCEPT !.stopped = TRUE]
        /\ UNCHANGED <<flushing, adapter>>
        /\ \A p \in Streams : Stream(demux.pad[p], demux'.pad[p])
        /\ demux'.state = "SEEK"
    BY <1>5 DEF SameHistory, NotFound, SameStreams
  <2>2. /\ upstream' \in UpstreamType /\ upstream'.flushing = upstream.flushing
        /\ upstream'.seekable = upstream.seekable /\ upstream'.sized = upstream.sized
        /\ upstream'.discont = upstream.discont /\ upstream'.pos = upstream.pos
    BY <1>1, <2>1, StoppedType
  <2>. QED BY <1>1, <2>1, <2>2
<1>6. CASE Found
  <2>1. PICK ev \in Events, history \in PastType :
          SameHistory(history) /\ (Stays(history) \/ Goes(ev, history) \/ Refused(history))
    BY <1>6 DEF Found
  <2>2. CASE Stays(history)
    BY <1>1, <1>2, <2>1, <2>2
  <2>3. CASE Goes(ev, history)
    BY <1>1, <1>3, <2>1, <2>3
  <2>4. CASE Refused(history)
    <3>1. /\ upstream' \in UpstreamType /\ upstream'.flushing = upstream.flushing
          /\ upstream'.seekable = upstream.seekable /\ upstream'.sized = upstream.sized
          /\ upstream'.discont = upstream.discont /\ upstream'.pos = upstream.pos
      BY <1>1, <1>4, <2>1, <2>4, StoppedType
    <3>. QED BY <1>1, <1>4, <2>1, <2>4, <3>1
  <2>. QED BY <2>1, <2>2, <2>3, <2>4
<1>. QED BY <1>5, <1>6

LEMMA KeepsServe ==
  ASSUME PushInv, ServeSeek
  PROVE  PushInv'
<1>1. TypeOK /\ ChainInv /\ AppInv
  BY DEF PushInv
<1>2. /\ chain = "parse" /\ chain' = "idle" /\ ~flushing
      /\ request' \in RequestType
      /\ demux' \in DemuxType /\ Fields([demux EXCEPT !.ret = demux'.ret], demux')
      /\ Found \/ NotFound
      /\ UNCHANGED <<file, flags, app, seeks, restarts>>
  BY <1>1, ServeSeekDoes
<1>3. /\ past' \in PastType /\ upstream' \in UpstreamType /\ upstream'.flushing = flushing'
      /\ upstream'.seekable = upstream.seekable /\ flushing' = FALSE
      /\ adapter' \in [at : Nat, len : Nat]
      /\ upstream'.discont \/ (upstream'.discont = upstream.discont
              /\ upstream'.pos = upstream.pos /\ adapter' = adapter)
      /\ \A p \in Streams : Stream(demux.pad[p], demux'.pad[p])
      /\ demux'.state \in {"TAG_TYPE", "SEEK"}
  BY <1>1, <1>2, ServedIs
<1>4. /\ demux'.tag = demux.tag /\ demux'.indexed = demux.indexed
      /\ demux'.file_size = demux.file_size /\ Existing(demux') = Existing(demux)
  BY <1>1, <1>2, <1>3, StreamsExist DEF TypeOK, DemuxType, Fields
<1>5. TypeOK'
  BY <1>1, <1>2, <1>3 DEF TypeOK
<1>6. ChainInv'
  BY <1>1, <1>2, <1>3 DEF ChainInv, TagStates, Whole
<1>7. AppInv'
  BY <1>1, <1>2, <1>3, <1>4 DEF AppInv, FileSize
<1>. QED BY <1>5, <1>6, <1>7 DEF PushInv

---------------------------------------------------------------------------
(* The application's thread. *)

LEMMA CallType ==
  ASSUME NEW kind \in {"none", "seek", "stay", "build"},
         NEW pc \in {"idle", "request", "flush", "stop", "jump", "assign"},
         NEW offset \in Nat, NEW segment \in Segments, NEW ev \in AllEvents,
         Call(kind, pc, offset, segment, ev)
  PROVE  /\ app' \in AppType /\ app'.pc = pc /\ app'.kind = kind /\ app'.offset = offset
         /\ app'.segment = segment /\ app'.event = ev
BY DEF Call, AppType

LEMMA IdleType ==
  Idle \in AppType /\ Idle.pc = "idle" /\ Idle.kind = "none"
BY NewPadType DEF Idle, AppType, AllEvents

\* What a seek of the application starts with.
LEMMA SeekDoes ==
  ASSUME TypeOK, NEW ev \in Events, Seek(ev)
  PROVE  /\ app.pc = "idle" /\ seeks < MaxSeeks /\ Existing(demux) # {}
         /\ seeks' = seeks + 1 /\ seeks' \in Nat
         /\ app' \in AppType /\ app'.event = ev
         /\ IF demux.indexed
            THEN /\ app'.kind \in {"seek", "stay"} /\ app'.pc \in {"assign", "flush", "jump"}
                 /\ app'.kind = "stay" <=> app'.pc = "assign"
            ELSE app'.kind = "build" /\ app'.pc = "request"
         /\ UNCHANGED <<file, flags, demux, request, flushing, adapter, chain, upstream,
                        restarts, past>>
<1>1. /\ app.pc = "idle" /\ seeks < MaxSeeks /\ Existing(demux) # {} /\ seeks' = seeks + 1
      /\ UNCHANGED <<file, flags, demux, request, flushing, adapter, chain, upstream,
                     restarts, past>>
  BY DEF Seek
<1>2. seeks' \in Nat
  BY <1>1 DEF TypeOK
<1>3. ev \in AllEvents
  BY DEF AllEvents
<1>4. CASE demux.indexed
  <2> DEFINE kind == IF Moves(demux, ev) THEN "seek" ELSE "stay"
             pc == IF ~Moves(demux, ev) THEN "assign"
                   ELSE IF ev.flush THEN "flush" ELSE "jump"
             offset == FoundOffset(demux, ev)
             segment == FoundSegment(demux, ev)
  <2>1. Call(kind, pc, offset, segment, ev)
    BY <1>4 DEF Seek
  <2>2. offset \in Nat /\ segment \in Segments
    BY FoundType DEF TypeOK
  <2>3. /\ kind \in {"seek", "stay"} /\ pc \in {"assign", "flush", "jump"}
        /\ kind = "stay" <=> pc = "assign"
    OBVIOUS
  <2>. HIDE DEF kind, pc, offset, segment
  <2>4. app' \in AppType /\ app'.pc = pc /\ app'.kind = kind /\ app'.event = ev
    BY <1>3, <2>1, <2>2, <2>3, CallType
  <2>. QED BY <1>1, <1>2, <1>4, <2>3, <2>4
<1>5. CASE ~demux.indexed
  <2>1. Call("build", "request", 0, NoSegment, ev)
    BY <1>5 DEF Seek
  <2>2. app' \in AppType /\ app'.pc = "request" /\ app'.kind = "build" /\ app'.event = ev
    BY <1>3, <2>1, NewPadType, CallType
  <2>. QED BY <1>1, <1>2, <1>5, <2>2
<1>. QED BY <1>4, <1>5

LEMMA KeepsSeek ==
  ASSUME PushInv, NEW ev \in Events, Seek(ev)
  PROVE  PushInv'
<1>1. TypeOK /\ ChainInv /\ AppInv
  BY DEF PushInv
<1>2. /\ app.pc = "idle" /\ Existing(demux) # {} /\ seeks' \in Nat
      /\ app' \in AppType /\ app'.event = ev
      /\ IF demux.indexed
            THEN /\ app'.kind \in {"seek", "stay"} /\ app'.pc \in {"assign", "flush", "jump"}
                 /\ app'.kind = "stay" <=> app'.pc = "assign"
            ELSE app'.kind = "build" /\ app'.pc = "request"
      /\ UNCHANGED <<file, flags, demux, request, flushing, adapter, chain, upstream,
                        restarts, past>>
  BY <1>1, SeekDoes
<1>3. TypeOK'
  BY <1>1, <1>2 DEF TypeOK
<1>4. ChainInv'
  BY <1>1, <1>2 DEF ChainInv, Whole, FileSize
<1>5. ev # NoEvent
  BY EventIs
<1>6. AppInv'
  BY <1>1, <1>2, <1>5 DEF AppInv, FileSize
<1>. QED BY <1>3, <1>4, <1>6 DEF PushInv

\* A seek is left to chain, and upstream may be sent for the index.
LEMMA RequestDoes ==
  ASSUME PushInv, Request
  PROVE  /\ app.pc = "request" /\ app.kind = "build" /\ app.event \in Events
         /\ request' = [seeking |-> TRUE, event |-> app.event, building |-> TRUE]
         /\ request' \in RequestType
         /\ demux' \in DemuxType /\ demux'.pad = demux.pad /\ demux'.state = "SEEK"
         /\ Fields([demux EXCEPT !.file_size = demux'.file_size], demux')
         /\ demux'.file_size \in {demux.file_size, FileSize}
         /\ demux'.offset = demux.offset
         /\ \/ /\ app' = Idle /\ demux'.file_size = demux.file_size
               /\ request.building \/ (demux.file_size = 0 /\ ~upstream.sized)
            \/ /\ app'.pc = "flush" /\ app'.kind = "build" /\ app'.event = app.event
               /\ app'.offset = FileSize - SIZE_OF_SIZE /\ demux'.file_size = FileSize
               /\ ~request.building
         /\ app' \in AppType
         /\ UNCHANGED <<file, flags, flushing, adapter, chain, upstream, seeks, restarts, past>>
<1>1. /\ TypeOK /\ app.pc = "request" /\ demux \in DemuxType /\ AppInv
      /\ request' = [seeking |-> TRUE, event |-> app.event, building |-> TRUE]
      /\ UNCHANGED <<file, flags, flushing, adapter, chain, upstream, seeks, restarts, past>>
  BY DEF Request, PushInv, TypeOK
<1>2. app.kind = "build" /\ app.event # NoEvent /\ app.event \in AllEvents
  BY <1>1 DEF AppInv, TypeOK, AppType
<1>3. app.event \in Events
  BY <1>2 DEF AllEvents
<1>4. request' \in RequestType
  BY <1>1, <1>2 DEF RequestType
<1> DEFINE sized == demux.file_size # 0 \/ upstream.sized
           size == IF demux.file_size # 0 THEN demux.file_size ELSE FileSize
           d == [demux EXCEPT !.state = "SEEK"]
           e == [d EXCEPT !.file_size = size]
<1>5. FileSize \in Nat /\ FileSize = 3 * Len(file) + 1 /\ Len(file) \in Nat
  BY <1>1, FileIs
<1>6. size = FileSize
  BY <1>1 DEF AppInv
<1>7. /\ d \in DemuxType /\ d.pad = demux.pad /\ d.state = "SEEK" /\ Fields(demux, d)
      /\ d.offset = demux.offset /\ d.file_size = demux.file_size
      /\ Fields([demux EXCEPT !.file_size = d.file_size], d)
  BY <1>1 DEF DemuxType, Fields, States
<1>8. /\ e \in DemuxType /\ e.pad = demux.pad /\ e.state = "SEEK"
      /\ e.offset = demux.offset /\ e.file_size = FileSize
      /\ Fields([demux EXCEPT !.file_size = e.file_size], e)
  <2>. HIDE DEF size
  <2>. QED BY <1>1, <1>5, <1>6 DEF DemuxType, Fields, States
<1>9. CASE request.building \/ ~sized
  <2>1. demux' = d /\ app' = Idle
    BY <1>9 DEF Request
  <2>. HIDE DEF d, e
  <2>2. request.building \/ (demux.file_size = 0 /\ ~upstream.sized)
    BY <1>9
  <2>. QED BY <1>1, <1>2, <1>3, <1>4, <1>7, <2>1, <2>2, IdleType
<1>10. CASE ~(request.building \/ ~sized)
  <2>1. demux' = e /\ Call("build", "flush", size - SIZE_OF_SIZE, NoSegment, app.event)
    BY <1>10 DEF Request
  <2>. HIDE DEF d, e
  <2>2. size - SIZE_OF_SIZE \in Nat /\ size - SIZE_OF_SIZE = FileSize - SIZE_OF_SIZE
    BY <1>5, <1>6 DEF SIZE_OF_SIZE
  <2>. HIDE DEF size
  <2>3. /\ app'.pc = "flush" /\ app'.kind = "build" /\ app'.event = app.event
        /\ app'.offset = FileSize - SIZE_OF_SIZE /\ app' \in AppType
    BY <1>2, <2>1, <2>2, NewPadType, CallType
  <2>. QED BY <1>1, <1>2, <1>3, <1>4, <1>8, <1>10, <2>1, <2>3
<1>. QED BY <1>9, <1>10

LEMMA KeepsRequest ==
  ASSUME PushInv, Request
  PROVE  PushInv'
<1>1. TypeOK /\ ChainInv /\ AppInv
  BY DEF PushInv
<1>2. /\ app.pc = "request" /\ app.event \in Events /\ request' \in RequestType
      /\ demux' \in DemuxType /\ demux'.pad = demux.pad /\ demux'.state = "SEEK"
      /\ Fields([demux EXCEPT !.file_size = demux'.file_size], demux')
      /\ demux'.file_size \in {demux.file_size, FileSize}
      /\ \/ app' = Idle
         \/ /\ app'.pc = "flush" /\ app'.kind = "build" /\ app'.event = app.event
            /\ app'.offset = FileSize - SIZE_OF_SIZE
      /\ app' \in AppType
      /\ UNCHANGED <<file, flags, flushing, adapter, chain, upstream, seeks, restarts, past>>
  BY RequestDoes
<1>3. demux'.tag = demux.tag /\ demux'.indexed = demux.indexed
      /\ Existing(demux') = Existing(demux)
  BY <1>1, <1>2 DEF TypeOK, DemuxType, Fields, Existing
<1>4. TypeOK'
  BY <1>1, <1>2 DEF TypeOK
<1>5. ChainInv'
  BY <1>1, <1>2, <1>3 DEF ChainInv, Whole, FileSize, TagStates
<1>6. AppInv'
  <2>1. file # <<>> /\ FileSize' = FileSize
    BY <1>1, <1>2 DEF AppInv, FileSize
  <2>2. app.event # NoEvent
    BY <1>2, EventIs
  <2>3. app.pc # "stop" /\ ~flushing /\ ~upstream.flushing
    BY <1>1, <1>2 DEF AppInv
  <2>. QED BY <1>1, <1>2, <1>3, <2>1, <2>2, <2>3, IdleType DEF AppInv
<1>. QED BY <1>4, <1>5, <1>6 DEF PushInv

LEMMA RefusedDoes ==
  ASSUME TypeOK, AppRefused
  PROVE  /\ app.pc \in {"flush", "jump"} /\ ~upstream.seekable /\ app' = Idle
         /\ IF app.kind = "seek" THEN Breaks(demux, demux') ELSE demux' = demux
         /\ demux' \in DemuxType /\ Fields(demux, demux') /\ demux'.state = demux.state
         /\ demux'.offset = demux.offset /\ Existing(demux') = Existing(demux)
         /\ UNCHANGED <<file, flags, request, flushing, adapter, chain, upstream, seeks,
                        restarts, past>>
<1>1. /\ app.pc \in {"flush", "jump"} /\ ~upstream.seekable /\ app' = Idle
      /\ demux' = IF app.kind = "seek" THEN Sought(demux) ELSE demux
      /\ UNCHANGED <<file, flags, request, flushing, adapter, chain, upstream, seeks,
                     restarts, past>>
  BY DEF AppRefused
<1>2. demux \in DemuxType
  BY DEF TypeOK
<1>3. CASE app.kind = "seek"
  <2>1. Breaks(demux, demux')
    BY <1>1, <1>2, <1>3, SoughtBreaks
  <2>2. Existing(demux') = Existing(demux)
    BY <2>1, StreamsExist DEF Breaks
  <2>. QED BY <1>1, <1>3, <2>1, <2>2 DEF Breaks
<1>4. CASE app.kind # "seek"
  BY <1>1, <1>2, <1>4 DEF Fields
<1>. QED BY <1>3, <1>4

LEMMA KeepsRefused ==
  ASSUME PushInv, AppRefused
  PROVE  PushInv'
<1>1. TypeOK /\ ChainInv /\ AppInv
  BY DEF PushInv
<1>2. /\ app.pc \in {"flush", "jump"} /\ app' = Idle
      /\ demux' \in DemuxType /\ Fields(demux, demux') /\ demux'.state = demux.state
      /\ Existing(demux') = Existing(demux)
      /\ UNCHANGED <<file, flags, request, flushing, adapter, chain, upstream, seeks,
                     restarts, past>>
  BY <1>1, RefusedDoes
<1>3. TypeOK'
  BY <1>1, <1>2, IdleType DEF TypeOK
<1>4. ChainInv'
  BY <1>1, <1>2 DEF ChainInv, Whole, FileSize, Fields
<1>5. AppInv'
  BY <1>1, <1>2, IdleType DEF AppInv, FileSize, Fields
<1>. QED BY <1>3, <1>4, <1>5 DEF PushInv

LEMMA FlushStartDoes ==
  ASSUME TypeOK, FlushStart
  PROVE  /\ app.pc = "flush" /\ upstream.seekable /\ flushing' = TRUE
         /\ upstream' = [upstream EXCEPT !.flushing = TRUE]
         /\ upstream' \in UpstreamType /\ upstream'.flushing = TRUE
         /\ upstream'.discont = upstream.discont /\ upstream'.pos = upstream.pos
         /\ upstream'.seekable = upstream.seekable /\ upstream'.sized = upstream.sized
         /\ upstream'.eos = upstream.eos /\ upstream'.stopped = upstream.stopped
         /\ app' \in AppType /\ app'.pc = "stop" /\ app'.kind = app.kind
         /\ app'.offset = app.offset /\ app'.event = app.event
         /\ UNCHANGED <<file, flags, demux, request, adapter, chain, seeks, restarts, past>>
BY DEF FlushStart, TypeOK, UpstreamType, AppType

LEMMA KeepsFlushStart ==
  ASSUME PushInv, FlushStart
  PROVE  PushInv'
<1>1. TypeOK /\ ChainInv /\ AppInv
  BY DEF PushInv
<1>2. /\ app.pc = "flush" /\ upstream.seekable /\ flushing' = TRUE
      /\ upstream' \in UpstreamType /\ upstream'.flushing = TRUE
      /\ upstream'.discont = upstream.discont /\ upstream'.pos = upstream.pos
      /\ upstream'.seekable = upstream.seekable
      /\ app' \in AppType /\ app'.pc = "stop" /\ app'.kind = app.kind
      /\ app'.offset = app.offset /\ app'.event = app.event
      /\ UNCHANGED <<file, flags, demux, request, adapter, chain, seeks, restarts, past>>
  BY <1>1, FlushStartDoes
<1>3. TypeOK'
  BY <1>1, <1>2 DEF TypeOK
<1>4. ChainInv'
  BY <1>1, <1>2 DEF ChainInv, Whole, FileSize
<1>5. AppInv'
  BY <1>1, <1>2 DEF AppInv, FileSize
<1>. QED BY <1>3, <1>4, <1>5 DEF PushInv

\* Upstream has moved, with a flush or without.
LEMMA FlushEndsDoes ==
  ASSUME TypeOK, FlushEnds
  PROVE  /\ app.pc = "stop" /\ chain = "idle" /\ Flushes(demux, demux')
         /\ demux' \in DemuxType /\ Existing(demux') = Existing(demux)
         /\ adapter' \in [at : Nat, len : Nat] /\ adapter'.at = adapter.at /\ adapter'.len = 0
         /\ flushing' = FALSE /\ upstream' = Moved(app.offset)
         /\ upstream' \in UpstreamType /\ app.offset \in Nat
         /\ app' \in AppType /\ app'.pc = "assign" /\ app'.kind = app.kind
         /\ app'.offset = app.offset /\ app'.event = app.event
         /\ SameHistory(past')
         /\ UNCHANGED <<file, flags, request, chain, seeks, restarts>>
<1>1. /\ app.pc = "stop" /\ chain = "idle" /\ demux' = Flushed(demux)
      /\ adapter' = [adapter EXCEPT !.len = 0] /\ flushing' = FALSE
      /\ upstream' = Moved(app.offset) /\ app' = [app EXCEPT !.pc = "assign"]
      /\ past' = [past EXCEPT !.goal = Served]
      /\ UNCHANGED <<file, flags, request, chain, seeks, restarts>>
  BY DEF FlushEnds, Clear
<1>2. /\ demux \in DemuxType /\ app \in AppType /\ past \in PastType
      /\ upstream \in UpstreamType /\ adapter \in [at : Nat, len : Nat]
  BY DEF TypeOK
<1>3. Flushes(demux, demux')
  BY <1>1, <1>2, FlushedDoes
<1>4. demux' \in DemuxType /\ Existing(demux') = Existing(demux)
  BY <1>3, StreamsExist DEF Flushes
<1>5. /\ app.offset \in Nat /\ app' \in AppType /\ app'.pc = "assign" /\ app'.kind = app.kind
      /\ app'.offset = app.offset /\ app'.event = app.event
  BY <1>1, <1>2 DEF AppType
<1>6. Served \in Int
  <2>1. app.event.target \in Int
    <3>1. app.event \in AllEvents
      BY <1>2 DEF AppType
    <3>2. NoEvent.target \in Int
      BY DEF NoEvent, TIME_NONE
    <3>. QED BY <3>1, <3>2, EventIs DEF AllEvents
  <2>. QED BY <1>2, <2>1 DEF Served, PastType
<1>7. SameHistory(past')
  BY <1>1, <1>2, <1>6 DEF SameHistory, PastType
<1>8. adapter' \in [at : Nat, len : Nat] /\ adapter'.at = adapter.at /\ adapter'.len = 0
  BY <1>1, <1>2
<1>9. upstream' \in UpstreamType
  BY <1>1, <1>2, <1>5, MovedType
<1>. QED BY <1>1, <1>3, <1>4, <1>5, <1>7, <1>8, <1>9

LEMMA KeepsFlushEnds ==
  ASSUME PushInv, FlushEnds
  PROVE  PushInv'
<1>1. TypeOK /\ ChainInv /\ AppInv
  BY DEF PushInv
<1>2. /\ app.pc = "stop" /\ chain = "idle" /\ Flushes(demux, demux')
      /\ demux' \in DemuxType /\ Existing(demux') = Existing(demux)
      /\ adapter' \in [at : Nat, len : Nat]
      /\ flushing' = FALSE /\ upstream' = Moved(app.offset)
      /\ upstream' \in UpstreamType /\ app.offset \in Nat
      /\ app' \in AppType /\ app'.pc = "assign" /\ app'.kind = app.kind
      /\ app'.offset = app.offset /\ app'.event = app.event
      /\ SameHistory(past')
      /\ UNCHANGED <<file, flags, request, chain, seeks, restarts>>
  BY <1>1, FlushEndsDoes
<1>3. upstream'.discont = TRUE /\ upstream'.flushing = FALSE
  BY <1>1, <1>2, MovedType DEF TypeOK
<1>4. TypeOK'
  BY <1>1, <1>2 DEF TypeOK, SameHistory
<1>5. ChainInv'
  <2>1. demux'.state \in {"SEEK", "TAG_TYPE"}
    BY <1>2 DEF Flushes
  <2>. QED BY <1>2, <1>3, <2>1 DEF ChainInv, TagStates
<1>6. AppInv'
  BY <1>1, <1>2, <1>3 DEF AppInv, FileSize, Flushes, Fields
<1>. QED BY <1>4, <1>5, <1>6 DEF PushInv

LEMMA JumpDoes ==
  ASSUME TypeOK, Jump
  PROVE  /\ app.pc = "jump" /\ upstream.seekable /\ chain = "idle"
         /\ upstream' = Moved(app.offset) /\ upstream' \in UpstreamType /\ app.offset \in Nat
         /\ app' \in AppType /\ app'.pc = "assign" /\ app'.kind = app.kind
         /\ app'.offset = app.offset /\ app'.event = app.event
         /\ past' \in PastType /\ past'.jumped = TRUE /\ past'.raced = past.raced
         /\ past'.garbled = past.garbled /\ past'.stayed = past.stayed
         /\ UNCHANGED <<file, flags, demux, request, flushing, adapter, chain, seeks, restarts>>
<1>1. /\ app.pc = "jump" /\ upstream.seekable /\ chain = "idle"
      /\ upstream' = Moved(app.offset) /\ app' = [app EXCEPT !.pc = "assign"]
      /\ past' = [past EXCEPT !.jumped = TRUE, !.goal = Served]
      /\ UNCHANGED <<file, flags, demux, request, flushing, adapter, chain, seeks, restarts>>
  BY DEF Jump
<1>2. app \in AppType /\ past \in PastType /\ upstream \in UpstreamType
  BY DEF TypeOK
<1>3. /\ app.offset \in Nat /\ app' \in AppType /\ app'.pc = "assign" /\ app'.kind = app.kind
      /\ app'.offset = app.offset /\ app'.event = app.event
  BY <1>1, <1>2 DEF AppType
<1>4. Served \in Int
  <2>1. app.event.target \in Int
    <3>1. app.event \in AllEvents
      BY <1>2 DEF AppType
    <3>2. NoEvent.target \in Int
      BY DEF NoEvent, TIME_NONE
    <3>. QED BY <3>1, <3>2, EventIs DEF AllEvents
  <2>. QED BY <1>2, <2>1 DEF Served, PastType
<1>5. /\ past' \in PastType /\ past'.jumped = TRUE /\ past'.raced = past.raced
      /\ past'.garbled = past.garbled /\ past'.stayed = past.stayed
  BY <1>1, <1>2, <1>4 DEF PastType
<1>6. upstream' \in UpstreamType
  BY <1>1, <1>2, <1>3, MovedType
<1>. QED BY <1>1, <1>3, <1>5, <1>6

LEMMA KeepsJump ==
  ASSUME PushInv, Jump
  PROVE  PushInv'
<1>1. TypeOK /\ ChainInv /\ AppInv
  BY DEF PushInv
<1>2. /\ app.pc = "jump" /\ chain = "idle" /\ upstream.seekable
      /\ upstream' = Moved(app.offset) /\ upstream' \in UpstreamType /\ app.offset \in Nat
      /\ app' \in AppType /\ app'.pc = "assign" /\ app'.kind = app.kind
      /\ app'.offset = app.offset /\ app'.event = app.event
      /\ past' \in PastType
      /\ UNCHANGED <<file, flags, demux, request, flushing, adapter, chain, seeks, restarts>>
  BY <1>1, JumpDoes
<1>3. upstream'.discont = TRUE /\ upstream'.flushing = FALSE
  BY <1>1, <1>2, MovedType DEF TypeOK
<1>4. TypeOK'
  BY <1>1, <1>2 DEF TypeOK
<1>5. ChainInv'
  BY <1>1, <1>2, <1>3 DEF ChainInv
<1>6. AppInv'
  <2>1. app.kind = "seek" /\ ~flushing /\ flushing \in BOOLEAN
    BY <1>1, <1>2 DEF AppInv, TypeOK
  <2>. QED BY <1>1, <1>2, <1>3, <2>1 DEF AppInv, FileSize
<1>. QED BY <1>4, <1>5, <1>6 DEF PushInv

LEMMA AssignDoes ==
  ASSUME TypeOK, AppInv, Assign
  PROVE  /\ app.pc = "assign" /\ app' = Idle /\ app.kind \in {"build", "seek", "stay"}
         /\ demux' \in DemuxType /\ Fields(demux, demux') /\ demux'.state = demux.state
         /\ Existing(demux') = Existing(demux)
         /\ app.kind = "build" =>
              demux'.pad = demux.pad /\ demux'.offset = app.offset
         /\ app.kind = "seek" => Breaks(demux, demux')
         /\ app.kind = "stay" => Quiet(demux, demux')
         /\ UNCHANGED <<file, flags, request, flushing, adapter, chain, upstream, seeks,
                        restarts, past>>
<1>1. /\ app.pc = "assign" /\ app' = Idle
      /\ demux' = CASE app.kind = "build" -> [demux EXCEPT !.offset = app.offset]
                    [] app.kind = "seek" -> Configured(Sought(demux), app.segment)
                    [] OTHER -> Configured(demux, app.segment)
      /\ UNCHANGED <<file, flags, request, flushing, adapter, chain, upstream, seeks,
                     restarts, past>>
  BY DEF Assign
<1>2. /\ demux \in DemuxType /\ app.kind \in {"build", "seek", "stay"}
      /\ app.offset \in Nat /\ app.segment \in Segments
  BY <1>1 DEF TypeOK, AppInv, AppType
<1>3. CASE app.kind = "build"
  <2>1. demux' = [demux EXCEPT !.offset = app.offset]
    BY <1>1, <1>3
  <2>2. /\ demux' \in DemuxType /\ Fields(demux, demux') /\ demux'.state = demux.state
        /\ demux'.pad = demux.pad /\ demux'.offset = app.offset
    BY <1>2, <2>1 DEF DemuxType, Fields
  <2>. QED BY <1>1, <1>2, <1>3, <2>2 DEF Existing
<1>4. CASE app.kind = "seek"
  <2> DEFINE a == Sought(demux)
  <2>1. demux' = Configured(a, app.segment)
    BY <1>1, <1>4
  <2>2. Breaks(demux, a) /\ a \in DemuxType
    BY <1>2, SoughtBreaks DEF Breaks
  <2>. HIDE DEF a
  <2>3. Breaks(demux, demux')
    BY <1>2, <2>1, <2>2, ConfiguredQuiet, BreaksTrans
  <2>4. Existing(demux') = Existing(demux)
    BY <2>3, StreamsExist DEF Breaks
  <2>. QED BY <1>1, <1>2, <1>4, <2>3, <2>4 DEF Breaks
<1>5. CASE app.kind = "stay"
  <2>1. demux' = Configured(demux, app.segment)
    BY <1>1, <1>5
  <2>2. Quiet(demux, demux')
    BY <1>2, <2>1, ConfiguredQuiet
  <2>3. Existing(demux') = Existing(demux)
    BY <2>2, StreamsExist DEF Quiet
  <2>. QED BY <1>1, <1>2, <1>5, <2>2, <2>3 DEF Quiet
<1>. QED BY <1>2, <1>3, <1>4, <1>5

LEMMA KeepsAssign ==
  ASSUME PushInv, Assign
  PROVE  PushInv'
<1>1. TypeOK /\ ChainInv /\ AppInv
  BY DEF PushInv
<1>2. /\ app.pc = "assign" /\ app' = Idle
      /\ demux' \in DemuxType /\ Fields(demux, demux') /\ demux'.state = demux.state
      /\ Existing(demux') = Existing(demux)
      /\ UNCHANGED <<file, flags, request, flushing, adapter, chain, upstream, seeks,
                     restarts, past>>
  BY <1>1, AssignDoes
<1>3. TypeOK'
  BY <1>1, <1>2, IdleType DEF TypeOK
<1>4. ChainInv'
  BY <1>1, <1>2 DEF ChainInv, Whole, FileSize, Fields
<1>5. AppInv'
  BY <1>1, <1>2, IdleType DEF AppInv, FileSize, Fields
<1>. QED BY <1>3, <1>4, <1>5 DEF PushInv

LEMMA RestartDoes ==
  ASSUME TypeOK, AppInv, Restart
  PROVE  /\ app.pc = "idle" /\ chain = "idle" /\ ~flushing /\ flushing' = FALSE
         /\ demux' \in DemuxType /\ demux'.state = "HEADER" /\ demux'.offset = 0
         /\ demux'.index = <<>> /\ ~demux'.indexed /\ demux'.file_size = 0
         /\ demux'.ret = "OK" /\ ~demux'.got_par
         /\ \A p \in Streams : /\ ~demux'.pad[p].exists /\ demux'.pad[p].need_discont
                               /\ demux'.pad[p].time_offset = 0
                               /\ demux'.pad[p].out = NothingOut
                               /\ demux'.pad[p].codec = demux.pad[p].codec
                               /\ ~demux'.pad[p].codec_data
         /\ Existing(demux') = {}
         /\ adapter' = [at |-> 0, len |-> 0]
         /\ upstream' \in UpstreamType /\ upstream'.pos = 0 /\ upstream'.discont = TRUE
         /\ upstream'.flushing = FALSE /\ upstream'.eos = FALSE /\ upstream'.stopped = FALSE
         /\ upstream'.seekable = upstream.seekable /\ upstream'.sized = upstream.sized
         /\ SameHistory(past') /\ restarts' \in Nat
         /\ UNCHANGED <<file, flags, request, chain, app, seeks>>
<1>1. /\ app.pc = "idle" /\ chain = "idle" /\ restarts' = restarts + 1
      /\ demux' = gst_flv_demux_cleanup(demux)
      /\ flushing' = FALSE /\ adapter' = [at |-> 0, len |-> 0]
      /\ upstream' = Fresh(upstream)
      /\ past' = [past EXCEPT !.goal = TIME_NONE]
      /\ UNCHANGED <<file, flags, request, chain, app, seeks>>
  BY DEF Restart
<1>2. /\ demux \in DemuxType /\ upstream \in UpstreamType /\ past \in PastType
      /\ restarts \in Nat
  BY DEF TypeOK
<1>3. /\ demux' \in DemuxType /\ demux'.state = "HEADER" /\ demux'.offset = 0
      /\ demux'.index = <<>> /\ ~demux'.indexed /\ demux'.file_size = 0
      /\ demux'.ret = "OK" /\ ~demux'.got_par
      /\ \A p \in Streams : /\ ~demux'.pad[p].exists /\ demux'.pad[p].need_discont
                            /\ demux'.pad[p].time_offset = 0
                            /\ demux'.pad[p].out = NothingOut
                            /\ demux'.pad[p].codec = demux.pad[p].codec
                            /\ ~demux'.pad[p].codec_data
  BY <1>1, <1>2, CleanupType
<1>4. Existing(demux') = {}
  BY <1>3 DEF Existing
<1>5. /\ upstream' \in UpstreamType /\ upstream'.pos = 0 /\ upstream'.discont = TRUE
      /\ upstream'.flushing = FALSE /\ upstream'.eos = FALSE /\ upstream'.stopped = FALSE
      /\ upstream'.seekable = upstream.seekable /\ upstream'.sized = upstream.sized
  BY <1>1, <1>2 DEF Fresh, UpstreamType
<1>6. SameHistory(past')
  BY <1>1, <1>2 DEF SameHistory, PastType, TIME_NONE
<1>7. ~flushing /\ restarts' \in Nat
  BY <1>1, <1>2 DEF AppInv
<1>. QED BY <1>1, <1>3, <1>4, <1>5, <1>6, <1>7

LEMMA KeepsRestart ==
  ASSUME PushInv, Restart
  PROVE  PushInv'
<1>1. TypeOK /\ ChainInv /\ AppInv
  BY DEF PushInv
<1>2. /\ app.pc = "idle" /\ chain = "idle" /\ flushing' = FALSE
      /\ demux' \in DemuxType /\ demux'.state = "HEADER" /\ demux'.file_size = 0
      /\ Existing(demux') = {} /\ adapter' = [at |-> 0, len |-> 0]
      /\ upstream' \in UpstreamType /\ upstream'.discont = TRUE /\ upstream'.flushing = FALSE
      /\ SameHistory(past') /\ restarts' \in Nat
      /\ UNCHANGED <<file, flags, request, chain, app, seeks>>
  BY <1>1, RestartDoes
<1>3. TypeOK'
  BY <1>1, <1>2 DEF TypeOK, SameHistory
<1>4. ChainInv'
  BY <1>2 DEF ChainInv, TagStates
<1>5. AppInv'
  BY <1>1, <1>2 DEF AppInv
<1>. QED BY <1>3, <1>4, <1>5 DEF PushInv

---------------------------------------------------------------------------

LEMMA PushInit ==
  ASSUME Init
  PROVE  PushInv
<1>1. demux \in DemuxType /\ demux = NewDemux /\ adapter = [at |-> 0, len |-> 0]
  BY NewDemuxType DEF Init
<1>2. /\ upstream \in UpstreamType /\ upstream.flushing = FALSE /\ upstream.discont = TRUE
  BY PushAssumption DEF Init, UpstreamType
<1>3. request \in RequestType /\ app \in AppType /\ past \in PastType
  <2>1. NoEvent \in AllEvents
    BY DEF AllEvents
  <2>2. app \in AppType
    BY IdleType DEF Init
  <2>3. TIME_NONE \in Int
    BY DEF TIME_NONE
  <2>. QED BY <2>1, <2>2, <2>3 DEF Init, RequestType, NoRequest, PastType, NoHistory
<1>4. TypeOK
  <2>1. /\ file \in Files /\ flags \in Flags /\ flushing = FALSE /\ chain = "idle"
        /\ seeks = 0 /\ restarts = 0
    BY DEF Init
  <2>2. adapter \in [at : Nat, len : Nat]
    BY <1>1
  <2>. QED BY <1>1, <1>2, <1>3, <2>1, <2>2 DEF TypeOK
<1>5. /\ demux.state = "HEADER" /\ demux.file_size = 0 /\ Existing(demux) = {}
  BY <1>1 DEF NewDemux, NewPad, Existing
<1>6. ChainInv
  BY <1>1, <1>2, <1>5 DEF Init, ChainInv, TagStates
<1>7. AppInv
  BY <1>2, <1>5, IdleType DEF Init, AppInv
<1>. QED BY <1>4, <1>6, <1>7 DEF PushInv

\* What a step is, but for the stutter.
Steps ==
  \/ Segment \/ SinkEos \/ (\E n \in 1..MaxChunk : Chain(n))
  \/ Leave \/ Wait \/ Garble \/ ParseHeader \/ ParseTagType \/ TagTyped
  \/ TagParsed \/ SeekLastTag \/ ServeSeek \/ (\E flow \in Returned : TakeTag(flow))
  \/ Request \/ AppRefused \/ FlushStart \/ FlushEnds \/ Jump \/ Assign
  \/ Restart \/ \E ev \in Events : Seek(ev)

LEMMA NextIs ==
  ASSUME Next
  PROVE  Steps \/ UNCHANGED vars
BY DEF Next, Steps, Upstream, Parse, Application, Over

LEMMA PushStutter ==
  ASSUME PushInv, UNCHANGED vars
  PROVE  PushInv'
BY DEF vars, PushInv, TypeOK, ChainInv, AppInv, Whole, FileSize

LEMMA PushStep ==
  ASSUME PushInv, [Next]_vars
  PROVE  PushInv'
<1>1. CASE UNCHANGED vars
  BY <1>1, PushStutter
<1>2. CASE Steps
  <2>1. CASE Segment \/ SinkEos \/ \E n \in 1..MaxChunk : Chain(n)
    BY <2>1, KeepsSegment, KeepsSinkEos, KeepsChain
  <2>2. CASE Leave \/ Wait \/ Garble \/ ParseHeader \/ ParseTagType \/ TagTyped
    BY <2>2, KeepsLeave, KeepsWait, KeepsGarble, KeepsHeader, KeepsType, KeepsTyped
  <2>3. CASE TagParsed \/ SeekLastTag \/ ServeSeek \/ \E flow \in Returned : TakeTag(flow)
    BY <2>3, KeepsParsed, KeepsLastTag, KeepsServe, KeepsTake
  <2>4. CASE Request \/ AppRefused \/ FlushStart \/ FlushEnds \/ Jump \/ Assign
    BY <2>4, KeepsRequest, KeepsRefused, KeepsFlushStart, KeepsFlushEnds, KeepsJump,
       KeepsAssign
  <2>5. CASE Restart \/ \E ev \in Events : Seek(ev)
    BY <2>5, KeepsRestart, KeepsSeek
  <2>. QED BY <1>2, <2>1, <2>2, <2>3, <2>4, <2>5 DEF Steps
<1>. QED BY <1>1, <1>2, NextIs

\* What the threads share keeps its type, and the threads stay where the code
\* puts them: chain holds a chunk of the file, the state of a tag is that of
\* the one at hand, and only a seek of the application's thread flushes.
THEOREM PushTypes == Spec => [](TypeOK /\ ChainInv /\ AppInv)
<1>1. Init => PushInv
  BY PushInit
<1>2. PushInv /\ [Next]_vars => PushInv'
  BY PushStep
<1>3. PushInv => TypeOK /\ ChainInv /\ AppInv
  BY DEF PushInv
<1>. QED BY <1>1, <1>2, <1>3, PTL DEF Spec

---------------------------------------------------------------------------
(* The index. *)

LEMMA IndexSame ==
  ASSUME IndexTrue, demux'.index = demux.index, UNCHANGED file, Calm' => Calm
  PROVE  IndexTrue'
BY DEF IndexTrue, TurnsBack, Frames

LEMMA UntouchedSame ==
  ASSUME Untouched, upstream'.seekable = upstream.seekable, upstream'.pos = upstream.pos,
         upstream'.discont = upstream.discont, adapter'.at = adapter.at,
         Existing(demux') = Existing(demux),
         upstream.seekable \/ adapter.at # 0
           \/ (demux'.file_size = demux.file_size /\ app'.pc \in {"idle", app.pc})
  PROVE  Untouched'
BY DEF Untouched

LEMMA OffsetSame ==
  ASSUME OffsetInv, Calm' => Calm, ~demux'.indexed => ~demux.indexed,
         demux'.offset = demux.offset, demux'.state = demux.state, demux'.tag = demux.tag,
         demux'.cur_tag_offset = demux.cur_tag_offset, demux'.ret = demux.ret,
         UNCHANGED <<file, adapter, chain, flushing>>,
         app'.pc = app.pc \/ {app.pc, app'.pc} \subseteq {"idle", "request", "flush", "jump"},
         app'.offset = app.offset \/ app'.pc # "assign",
         upstream'.pos = upstream.pos, upstream'.discont = upstream.discont,
         upstream'.seekable = upstream.seekable
  PROVE  OffsetInv'
BY DEF OffsetInv, Whole, Counted, Swallowed

LEMMA TimeSame ==
  ASSUME TypeOK, TimeInv, Calm' => Calm, ~demux'.indexed => ~demux.indexed, UNCHANGED file,
         \A p \in Streams : /\ SameTimes(demux.pad[p], demux'.pad[p])
                            /\ demux.pad[p].need_discont => demux'.pad[p].need_discont,
         upstream'.discont =>
           upstream.discont \/ \A p \in Streams : demux'.pad[p].need_discont,
         adapter'.at \in Nat, adapter'.at >= adapter.at
  PROVE  TimeInv'
<1>1. SUFFICES ASSUME Calm', ~demux'.indexed, NEW p \in Streams
               PROVE  /\ demux'.pad[p].time_offset # 0 => TurnsBack(p)'
                      /\ upstream'.discont => demux'.pad[p].need_discont
                      /\ ~demux'.pad[p].need_discont =>
                           \E m \in Frames(p)' : demux'.pad[p].last = file'[m].time
                                                 /\ Position(m + 1) <= adapter'.at
  BY DEF TimeInv
<1>2. /\ demux.pad[p].time_offset # 0 => TurnsBack(p)
      /\ upstream.discont => demux.pad[p].need_discont
      /\ ~demux.pad[p].need_discont =>
           \E m \in Frames(p) : demux.pad[p].last = file[m].time
                                /\ Position(m + 1) <= adapter.at
  BY <1>1 DEF TimeInv
<1>3. TurnsBack(p)' = TurnsBack(p) /\ Frames(p)' = Frames(p)
  BY DEF TurnsBack, Frames
<1>4. ASSUME ~demux'.pad[p].need_discont
      PROVE  \E m \in Frames(p) : demux'.pad[p].last = file'[m].time
                                  /\ Position(m + 1) <= adapter'.at
  <2>1. PICK m \in Frames(p) : demux.pad[p].last = file[m].time
                               /\ Position(m + 1) <= adapter.at
    BY <1>2, <1>4
  <2>2. Position(m + 1) \in Int
    <3>1. m \in DOMAIN file
      BY DEF Frames
    <3>. QED BY <3>1, FileIs
  <2>3. adapter.at \in Nat
    BY DEF TypeOK
  <2>4. Position(m + 1) <= adapter'.at
    BY <2>1, <2>2, <2>3
  <2>. QED BY <2>1, <2>4 DEF SameTimes
<1>. QED BY <1>2, <1>3, <1>4 DEF SameTimes

\* Steps that leave the place in the file alone.
LEMMA IndexFrame ==
  ASSUME TypeOK, IndexInv, Calm' => Calm, ~demux'.indexed => ~demux.indexed,
         Fields(demux, demux'), demux'.offset = demux.offset, demux'.state = demux.state,
         UNCHANGED <<file, adapter, chain, flushing>>,
         app'.pc = app.pc \/ {app.pc, app'.pc} \subseteq {"idle", "request", "flush", "jump"},
         app'.offset = app.offset \/ app'.pc # "assign",
         upstream'.pos = upstream.pos, upstream'.discont = upstream.discont,
         upstream'.seekable = upstream.seekable,
         \A p \in Streams : /\ Stream(demux.pad[p], demux'.pad[p])
                            /\ demux.pad[p].need_discont => demux'.pad[p].need_discont,
         app'.pc \in {"idle", app.pc} \/ Existing(demux) # {}
  PROVE  IndexInv'
<1>1. Existing(demux') = Existing(demux)
  BY StreamsExist
<1>2. /\ demux'.tag = demux.tag /\ demux'.cur_tag_offset = demux.cur_tag_offset
      /\ demux'.ret = demux.ret /\ demux'.index = demux.index
      /\ demux'.file_size = demux.file_size
  BY DEF Fields
<1>3. Untouched'
  <2>1. Untouched
    BY DEF IndexInv
  <2>2. upstream.seekable \/ adapter.at # 0 \/ app'.pc \in {"idle", app.pc}
    BY <2>1 DEF Untouched
  <2>. QED BY <1>1, <1>2, <2>1, <2>2, UntouchedSame
<1>4. OffsetInv'
  BY <1>2, OffsetSame DEF IndexInv
<1>5. TimeInv'
  <2>1. adapter'.at \in Nat /\ adapter'.at >= adapter.at
    BY DEF TypeOK
  <2>. QED BY <2>1, TimeSame DEF IndexInv, Stream
<1>6. IndexTrue'
  BY <1>2, IndexSame DEF IndexInv
<1>. QED BY <1>3, <1>4, <1>5, <1>6 DEF IndexInv

\* chain gave up waiting for the index, or went for the last tag, and upstream moved.
LEMMA IndexMoved ==
  ASSUME PushInv, IndexInv, chain # "idle", chain' = "idle", Calm' => Calm,
         UNCHANGED <<file, app>>, upstream.seekable,
         NEW d \in DemuxType, NEW offset \in Nat, SoughtTo(d, offset),
         Fields(demux, d), d.pad = demux.pad
  PROVE  IndexInv'
<1>1. /\ demux' \in DemuxType /\ Fields(demux, demux') /\ demux'.offset = offset
      /\ BrokenStreams(demux, demux') /\ demux'.state \in {"SEEK", "TAG_TYPE"}
      /\ adapter' = [adapter EXCEPT !.len = 0] /\ upstream' = Moved(offset)
  BY DEF SoughtTo, Fields, BrokenStreams
<1>2. /\ upstream'.pos = offset /\ upstream'.discont = TRUE /\ upstream'.seekable
      /\ TypeOK /\ ChainInv /\ adapter'.at = adapter.at /\ adapter.at \in Nat
  BY <1>1, MovedType DEF PushInv, TypeOK
<1>3. Untouched'
  BY <1>2 DEF Untouched
<1>4. OffsetInv'
  <2>1. Calm /\ ~demux.indexed => app.pc # "assign"
    BY <1>2 DEF IndexInv, OffsetInv, ChainInv
  <2>. QED BY <1>1, <1>2, <2>1 DEF OffsetInv, Fields, TagStates
<1>5. TimeInv'
  <2>1. ~demux'.indexed => ~demux.indexed
    BY <1>1 DEF Fields
  <2>2. adapter'.at \in Nat /\ adapter'.at >= adapter.at
    BY <1>2
  <2>3. \A p \in Streams : SameTimes(demux.pad[p], demux'.pad[p])
                           /\ demux'.pad[p].need_discont
    BY <1>1 DEF BrokenStreams, Stream
  <2>. QED BY <1>2, <2>1, <2>2, <2>3, TimeSame DEF IndexInv
<1>6. IndexTrue'
  BY <1>1, IndexSame DEF IndexInv, Fields
<1>. QED BY <1>3, <1>4, <1>5, <1>6 DEF IndexInv

\* chain is left, and upstream goes on from where it is.
LEMMA IndexLeft ==
  ASSUME PushInv, IndexInv, chain # "idle", chain' = "idle", Calm' => Calm,
         UNCHANGED <<file, app, adapter, flushing>>,
         Fields(demux, demux'), demux'.pad = demux.pad,
         demux'.state \in {demux.state, "TAG_TYPE", "SEEK"},
         upstream'.pos = upstream.pos, upstream'.discont = upstream.discont,
         upstream'.seekable = upstream.seekable,
         Calm /\ ~demux.indexed /\ ~flushing =>
           Swallowed' \/ (adapter.at = demux'.offset /\ adapter.at > 0)
  PROVE  IndexInv'
<1>1. /\ demux'.tag = demux.tag /\ demux'.cur_tag_offset = demux.cur_tag_offset
      /\ demux'.indexed = demux.indexed /\ demux'.index = demux.index
      /\ demux'.file_size = demux.file_size /\ Existing(demux') = Existing(demux)
  BY DEF Fields, Existing
<1>2. TypeOK /\ ChainInv /\ ~upstream.discont
  BY DEF PushInv, ChainInv
<1>3. Untouched'
  BY <1>1, UntouchedSame DEF IndexInv
<1>4. OffsetInv'
  <2>1. SUFFICES ASSUME Calm, ~demux.indexed PROVE OffsetInv'
    BY <1>1 DEF OffsetInv
  <2>2. Whole /\ app.pc # "assign"
        /\ (demux.state \in TagStates => demux.cur_tag_offset = Position(demux.tag))
    BY <1>2, <2>1 DEF IndexInv, OffsetInv
  <2>3. ~flushing => Swallowed' \/ (Counted' /\ adapter.at > 0)
    BY <2>1 DEF Counted
  <2>. QED BY <1>1, <1>2, <2>2, <2>3 DEF OffsetInv, Whole, TagStates
<1>5. TimeInv'
  <2>1. adapter'.at \in Nat /\ adapter'.at >= adapter.at
    BY <1>2 DEF TypeOK
  <2>. QED BY <1>1, <1>2, <2>1, TimeSame DEF IndexInv, SameTimes
<1>6. IndexTrue'
  BY <1>1, IndexSame DEF IndexInv
<1>. QED BY <1>3, <1>4, <1>5, <1>6 DEF IndexInv

LEMMA IndexChain ==
  ASSUME PushInv, IndexInv, NEW n \in 1..MaxChunk, Chain(n)
  PROVE  IndexInv'
<1>1. TypeOK /\ ChainInv /\ AppInv /\ Untouched /\ OffsetInv /\ TimeInv /\ IndexTrue /\ PushInv'
  BY KeepsChain DEF PushInv, IndexInv
<1>2. /\ demux' \in DemuxType /\ demux'.pad = demux.pad
      /\ Fields([demux EXCEPT !.ret = "OK"], demux') /\ demux'.ret = "OK"
      /\ demux'.offset = (IF upstream.pos = 0 THEN 0
                          ELSE IF demux.offset = 0 THEN upstream.pos ELSE demux.offset)
      /\ demux'.state = (IF request.seeking THEN "SEEK"
                         ELSE IF upstream.pos = 0 THEN "HEADER" ELSE demux.state)
      /\ adapter'.at = (IF upstream.discont \/ adapter.len = 0 THEN upstream.pos
                        ELSE adapter.at)
      /\ adapter' \in [at : Nat, len : Nat] /\ n \in Nat /\ n >= 1
      /\ upstream' = [upstream EXCEPT !.pos = @ + n, !.discont = FALSE]
      /\ upstream'.pos = upstream.pos + n
  BY <1>1, ChainDoes
<1>3. /\ chain' = "parse" /\ chain = "idle" /\ ~upstream.flushing
      /\ past' = [past EXCEPT !.raced = @ \/ Racing]
      /\ UNCHANGED <<file, flags, flushing, app, seeks, restarts>>
  BY DEF Chain, CanSend
<1>4. /\ demux'.tag = demux.tag /\ demux'.indexed = demux.indexed
      /\ demux'.index = demux.index /\ demux'.cur_tag_offset = demux.cur_tag_offset
      /\ demux'.file_size = demux.file_size /\ Existing(demux') = Existing(demux)
  BY <1>1, <1>2 DEF TypeOK, Fields, DemuxType, Existing
<1>5. upstream'.discont = FALSE /\ upstream'.seekable = upstream.seekable
  BY <1>1, <1>2 DEF TypeOK, UpstreamType
<1>6. upstream.pos \in Nat /\ adapter.at \in Nat /\ adapter.len \in Nat /\ ~flushing
      /\ demux.offset \in Nat
  BY <1>1, <1>3 DEF TypeOK, UpstreamType, AppInv, DemuxType
<1>7. Calm' => Calm /\ ~Racing
  BY <1>1, <1>3 DEF TypeOK, PastType, Calm
<1>8. Untouched'
  BY <1>1, <1>2, <1>3, <1>4, <1>5, <1>6 DEF Untouched
<1>9. OffsetInv'
  <2>1. SUFFICES ASSUME Calm', ~demux.indexed PROVE OffsetInv'
    BY <1>4 DEF OffsetInv
  <2>2. /\ ~upstream.discont => Whole
        /\ ~upstream.discont => Swallowed \/ (Counted /\ adapter.at > 0)
        /\ upstream.discont => upstream.pos = 0 \/ demux.offset \in {0, upstream.pos}
        /\ demux.state \in TagStates => demux.cur_tag_offset = Position(demux.tag)
        /\ app.pc # "assign"
    BY <1>1, <1>3, <1>6, <1>7, <2>1 DEF OffsetInv, Racing
  <2>3. Whole'
    BY <1>1, <1>3 DEF PushInv, ChainInv
  <2>4. /\ Swallowed' \/ adapter'.at = demux'.offset
        /\ adapter'.at = 0 => demux'.state \in {"HEADER", "SEEK"}
    <3>1. CASE upstream.discont
      BY <1>2, <1>6, <2>2, <3>1
    <3>2. CASE ~upstream.discont /\ Swallowed
      <4>1. adapter.at = 0 /\ demux.state = "SEEK" /\ ~upstream.seekable
        BY <3>2 DEF Swallowed
      <4>2. adapter.len = upstream.pos
        BY <1>6, <2>2, <3>2, <4>1 DEF Whole
      <4>3. adapter'.at = 0
        BY <1>2, <3>2, <4>1, <4>2
      <4>4. CASE upstream.pos = 0
        BY <1>2, <4>3, <4>4
      <4>5. CASE upstream.pos # 0
        BY <1>2, <1>5, <4>1, <4>3, <4>5 DEF Swallowed
      <4>. QED BY <4>4, <4>5
    <3>3. CASE ~upstream.discont /\ ~Swallowed
      <4>1. adapter.at = demux.offset /\ adapter.at > 0 /\ adapter.at + adapter.len = upstream.pos
        BY <1>3, <2>2, <3>3 DEF Counted, Whole
      <4>2. adapter'.at = adapter.at
        BY <1>2, <1>6, <3>3, <4>1
      <4>. QED BY <1>2, <1>6, <4>1, <4>2
    <3>. QED BY <3>1, <3>2, <3>3
  <2>5. Counted'
    BY <1>3, <2>4 DEF Counted
  <2>6. demux'.state \in TagStates => demux'.state = demux.state
    BY <1>2 DEF TagStates
  <2>. QED BY <1>2, <1>3, <1>4, <1>5, <2>2, <2>3, <2>4, <2>5, <2>6 DEF OffsetInv
<1>10. TimeInv'
  <2>1. CASE upstream.discont /\ Calm' /\ ~demux.indexed
    BY <1>1, <1>2, <1>3, <1>4, <1>5, <1>7, <2>1 DEF TimeInv, TurnsBack, Frames
  <2>2. CASE ~upstream.discont /\ Calm' /\ ~demux.indexed
    <3>1. adapter.at + adapter.len = upstream.pos
      BY <1>1, <1>7, <2>2 DEF OffsetInv, Whole
    <3>2. adapter'.at \in Nat /\ adapter'.at >= adapter.at
      BY <1>2, <1>6, <2>2, <3>1
    <3>. QED BY <1>1, <1>2, <1>3, <1>4, <1>5, <1>7, <3>2, TimeSame DEF SameTimes
  <2>. QED BY <1>4, <2>1, <2>2 DEF TimeInv
<1>11. IndexTrue'
  BY <1>1, <1>3, <1>4, <1>7, IndexSame
<1>. QED BY <1>8, <1>9, <1>10, <1>11 DEF IndexInv

LEMMA IndexLeave ==
  ASSUME PushInv, IndexInv, Leave
  PROVE  IndexInv'
<1>1. /\ TypeOK /\ ChainInv /\ OffsetInv /\ chain = "parse" /\ chain' = "idle"
      /\ demux.ret # "OK" \/ flushing
      /\ upstream' = [upstream EXCEPT !.stopped = TRUE]
      /\ UNCHANGED <<file, flags, demux, request, flushing, adapter, app, seeks,
                     restarts, past>>
  BY DEF PushInv, IndexInv, Leave
<1>2. /\ upstream'.pos = upstream.pos /\ upstream'.discont = upstream.discont
      /\ upstream'.seekable = upstream.seekable
  BY <1>1, StoppedType DEF TypeOK
<1>3. Fields(demux, demux') /\ (Calm' => Calm)
  BY <1>1 DEF Fields, Calm
<1>4. Calm /\ ~demux.indexed /\ ~flushing =>
        Swallowed' \/ (adapter.at = demux'.offset /\ adapter.at > 0)
  <2>1. adapter.at \in Nat
    BY <1>1 DEF TypeOK
  <2>. QED BY <1>1, <1>2, <2>1 DEF OffsetInv, Counted, Swallowed
<1>. QED BY <1>1, <1>2, <1>3, <1>4, IndexLeft

LEMMA IndexWait ==
  ASSUME PushInv, IndexInv, Wait
  PROVE  IndexInv'
<1>1. /\ TypeOK /\ ChainInv /\ OffsetInv /\ chain = "parse" /\ chain' = "idle"
      /\ ~(adapter.len >= Needed(demux.state))
      /\ UNCHANGED <<file, flags, demux, request, flushing, adapter, upstream, app,
                     seeks, restarts, past>>
  BY DEF PushInv, IndexInv, Wait, Parsing, Available
<1>2. Fields(demux, demux') /\ (Calm' => Calm)
  BY <1>1 DEF Fields, Calm
<1>3. Calm /\ ~demux.indexed /\ ~flushing =>
        Swallowed' \/ (adapter.at = demux'.offset /\ adapter.at > 0)
  <2>1. adapter.at \in Nat /\ adapter.len \in Nat /\ upstream.pos \in Nat
    BY <1>1 DEF TypeOK, UpstreamType
  <2>2. ASSUME Calm, ~demux.indexed, adapter.at = 0 PROVE FALSE
    <3>1. demux.state \in {"HEADER", "SEEK"}
      BY <1>1, <2>2 DEF OffsetInv
    <3>2. adapter.len = upstream.pos /\ upstream.pos > 0
      BY <1>1, <2>1, <2>2 DEF ChainInv, Whole
    <3>3. Needed(demux.state) \in {0, 1}
      BY <3>1 DEF Needed, FLV_HEADER_SIZE
    <3>. QED BY <1>1, <2>1, <3>2, <3>3
  <2>3. Calm /\ ~demux.indexed => Counted
    BY <1>1 DEF OffsetInv
  <2>. QED BY <1>1, <2>1, <2>2, <2>3 DEF Counted, Swallowed
<1>. QED BY <1>1, <1>2, <1>3, IndexLeft

LEMMA IndexGarble ==
  ASSUME PushInv, IndexInv, Garble
  PROVE  IndexInv'
<1>1. /\ TypeOK /\ Untouched
      /\ demux' = [demux EXCEPT !.state = "TAG_TYPE"]
      /\ adapter' = [adapter EXCEPT !.len = 0]
      /\ past' = [past EXCEPT !.garbled = TRUE]
      /\ UNCHANGED <<file, flags, request, flushing, upstream, app, seeks, restarts>>
  BY DEF PushInv, IndexInv, Garble, Clear
<1>2. /\ Existing(demux') = Existing(demux) /\ demux'.file_size = demux.file_size
      /\ adapter'.at = adapter.at /\ ~Calm'
  BY <1>1 DEF TypeOK, DemuxType, PastType, Existing, Calm
<1>3. Untouched'
  BY <1>1, <1>2, UntouchedSame
<1>. QED BY <1>2, <1>3 DEF IndexInv, OffsetInv, TimeInv, IndexTrue

LEMMA IndexHeader ==
  ASSUME PushInv, IndexInv, ParseHeader
  PROVE  IndexInv'
<1>1. /\ TypeOK /\ ChainInv /\ Untouched /\ OffsetInv /\ TimeInv /\ IndexTrue /\ PushInv'
      /\ chain = "parse" /\ demux.state = "HEADER"
      /\ UNCHANGED <<file, flags, request, flushing, chain, upstream, app, seeks,
                     restarts, past>>
  BY KeepsHeader DEF PushInv, IndexInv, ParseHeader, Parsing
<1>2. /\ demux' \in DemuxType /\ Fields([demux EXCEPT !.ret = "OK"], demux')
      /\ demux'.state = "TAG_TYPE" /\ demux'.offset = demux.offset + 1
      /\ demux'.pad = demux.pad /\ demux'.ret = "OK"
      /\ adapter' = [at |-> adapter.at + 1, len |-> adapter.len - 1]
      /\ adapter.at = 0 /\ adapter.len >= 1
  BY <1>1, HeaderDoes
<1>3. /\ demux'.tag = demux.tag /\ demux'.indexed = demux.indexed
      /\ demux'.index = demux.index /\ Calm' = Calm /\ adapter'.at = adapter.at + 1
  BY <1>1, <1>2 DEF TypeOK, Fields, DemuxType, Calm
<1>4. adapter.at \in Nat /\ adapter.len \in Nat /\ upstream.pos > 0 /\ ~upstream.discont
  BY <1>1 DEF TypeOK, ChainInv
<1>5. Untouched'
  BY <1>1, <1>2, <1>3, <1>4 DEF Untouched
<1>6. OffsetInv'
  <2>1. SUFFICES ASSUME Calm, ~demux.indexed PROVE OffsetInv'
    BY <1>3 DEF OffsetInv
  <2>2. Counted /\ ~Swallowed /\ app.pc # "assign"
    BY <1>1, <1>4, <2>1 DEF OffsetInv, Swallowed
  <2>3. adapter.at = demux.offset
    BY <1>1, <2>2 DEF Counted
  <2>4. Counted'
    BY <1>1, <1>2, <1>3, <2>3 DEF Counted
  <2>5. Whole'
    BY <1>1 DEF PushInv, ChainInv
  <2>. QED BY <1>1, <1>2, <1>3, <1>4, <2>2, <2>4, <2>5 DEF OffsetInv, TagStates
<1>7. TimeInv'
  BY <1>1, <1>2, <1>3, <1>4, TimeSame DEF SameTimes
<1>8. IndexTrue'
  BY <1>1, <1>3, IndexSame
<1>. QED BY <1>5, <1>6, <1>7, <1>8 DEF IndexInv

LEMMA IndexType ==
  ASSUME PushInv, IndexInv, ParseTagType
  PROVE  IndexInv'
<1> DEFINE i == TagAt(file, adapter.at)
<1>1. /\ TypeOK /\ ChainInv /\ Untouched /\ OffsetInv /\ TimeInv /\ IndexTrue /\ PushInv'
      /\ chain = "parse" /\ chain' = "typed" /\ demux.state = "TAG_TYPE"
      /\ UNCHANGED <<file, flags, request, flushing, upstream, app, seeks, restarts, past>>
  BY KeepsType DEF PushInv, IndexInv, ParseTagType, Parsing
<1>2. /\ i \in DOMAIN file /\ adapter.at = Position(i) /\ demux'.tag = i
      /\ demux'.offset = demux.offset + 1 /\ demux'.cur_tag_offset = demux.offset
      /\ demux'.pad = demux.pad /\ demux'.indexed = demux.indexed
      /\ demux'.index = demux.index
      /\ adapter' = [at |-> adapter.at + 1, len |-> adapter.len - 1]
  BY <1>1, TypeDoes
<1> HIDE DEF i
<1>3. /\ adapter'.at = adapter.at + 1 /\ Calm' = Calm
      /\ adapter.at \in Nat /\ upstream.pos > 0 /\ ~upstream.discont
  BY <1>1, <1>2 DEF TypeOK, ChainInv, Calm
<1>4. Untouched'
  BY <1>1, <1>3 DEF Untouched
<1>5. OffsetInv'
  <2>1. SUFFICES ASSUME Calm, ~demux.indexed PROVE OffsetInv'
    BY <1>2, <1>3 DEF OffsetInv
  <2>2. Counted /\ app.pc # "assign"
    BY <1>1, <1>3, <2>1 DEF OffsetInv
  <2>3. adapter.at = demux.offset
    BY <1>1, <2>2 DEF Counted, Swallowed
  <2>4. Counted' /\ demux'.cur_tag_offset = Position(demux'.tag)
    BY <1>1, <1>2, <1>3, <2>3 DEF Counted
  <2>5. Whole'
    BY <1>1 DEF PushInv, ChainInv
  <2>. QED BY <1>1, <1>3, <2>2, <2>4, <2>5 DEF OffsetInv
<1>6. TimeInv'
  BY <1>1, <1>2, <1>3, TimeSame DEF SameTimes
<1>7. IndexTrue'
  BY <1>1, <1>2, <1>3, IndexSame
<1>. QED BY <1>4, <1>5, <1>6, <1>7 DEF IndexInv

LEMMA IndexTyped ==
  ASSUME PushInv, IndexInv, TagTyped
  PROVE  IndexInv'
<1>1. /\ TypeOK /\ ChainInv /\ OffsetInv /\ chain = "typed" /\ demux \in DemuxType
      /\ UNCHANGED <<file, flags, app, seeks, restarts>>
  BY DEF PushInv, IndexInv, TagTyped, TypeOK
<1>2. Fields(demux, demux)
  BY DEF Fields
<1>3. adapter.at \in Nat
  BY <1>1 DEF TypeOK
<1>4. Calm /\ ~demux.indexed => adapter.at > 0 /\ adapter.at = demux.offset
  BY <1>1, <1>3 DEF OffsetInv, Counted, Swallowed
<1>5. CASE NoIndex(demux)
  <2>1. /\ SoughtTo(demux, 0) /\ chain' = "idle"
        /\ past' = [past EXCEPT !.raced = @ \/ Racing]
    BY <1>1, <1>5, NoIndexDoes
  <2>2. Calm' => Calm
    BY <1>1, <2>1 DEF TypeOK, PastType, Calm
  <2>3. CASE upstream.seekable
    BY <1>1, <1>2, <2>1, <2>2, <2>3, IndexMoved
  <2>4. CASE ~upstream.seekable
    <3>1. demux' = demux /\ UNCHANGED <<adapter, flushing, upstream>>
      BY <2>1, <2>4 DEF SoughtTo
    <3>. QED BY <1>1, <1>2, <1>4, <2>1, <2>2, <3>1, IndexLeft
  <2>. QED BY <2>3, <2>4
<1>6. CASE chain' = "parse" /\ UNCHANGED <<demux, request, flushing, adapter, upstream, past>>
  <2>1. Calm' = Calm
    BY <1>6 DEF Calm
  <2>2. Untouched'
    BY <1>1, <1>6 DEF IndexInv, Untouched, Existing
  <2>3. OffsetInv'
    <3>1. SUFFICES ASSUME Calm, ~demux.indexed PROVE OffsetInv'
      BY <1>6, <2>1 DEF OffsetInv
    <3>2. adapter.at > 0 /\ adapter.at = demux.offset
      BY <1>4, <3>1
    <3>. QED BY <1>1, <1>3, <1>6, <3>1, <3>2 DEF OffsetInv, Counted, Whole
  <2>4. TimeInv'
    BY <1>1, <1>3, <1>6, <2>1, TimeSame DEF IndexInv, SameTimes
  <2>5. IndexTrue'
    BY <1>1, <1>6, <2>1, IndexSame DEF IndexInv
  <2>. QED BY <2>2, <2>3, <2>4, <2>5 DEF IndexInv
<1>. QED BY <1>5, <1>6 DEF TagTyped

LEMMA IndexParsed ==
  ASSUME PushInv, IndexInv, TagParsed
  PROVE  IndexInv'
<1>1. /\ TypeOK /\ ChainInv /\ OffsetInv /\ chain = "parsed" /\ demux \in DemuxType
      /\ UNCHANGED <<file, flags, app, seeks, restarts>>
  BY DEF PushInv, IndexInv, TagParsed, TypeOK
<1>2. /\ Behind \in DemuxType /\ Fields(demux, Behind) /\ Behind.pad = demux.pad
      /\ Behind.state \in {"TAG_TYPE", "SEEK"} /\ Behind.offset = demux.offset + 2
  BY <1>1, BehindDoes
<1>3. adapter.at \in Nat
  BY <1>1 DEF TypeOK
<1>4. Calm /\ ~demux.indexed => adapter.at > 0 /\ adapter.at = Behind.offset
  BY <1>1, <1>2, <1>3 DEF OffsetInv, Counted, Swallowed, tag_size
<1>5. CASE NoIndex(Behind)
  <2>1. /\ SoughtTo(Behind, 0) /\ chain' = "idle"
        /\ past' = [past EXCEPT !.raced = @ \/ Racing]
    BY <1>1, <1>2, <1>5, NoIndexDoes
  <2>2. Calm' => Calm
    BY <1>1, <2>1 DEF TypeOK, PastType, Calm
  <2>3. CASE upstream.seekable
    BY <1>1, <1>2, <2>1, <2>2, <2>3, IndexMoved
  <2>4. CASE ~upstream.seekable
    <3>1. demux' = Behind /\ UNCHANGED <<adapter, flushing, upstream>>
      BY <2>1, <2>4 DEF SoughtTo
    <3>. QED BY <1>1, <1>2, <1>4, <2>1, <2>2, <3>1, IndexLeft
  <2>. QED BY <2>3, <2>4
<1>6. CASE demux' = Behind /\ chain' = "parse"
           /\ UNCHANGED <<request, flushing, adapter, upstream, past>>
  <2>1. Calm' = Calm
    BY <1>6 DEF Calm
  <2>2. /\ demux'.tag = demux.tag /\ demux'.cur_tag_offset = demux.cur_tag_offset
        /\ demux'.indexed = demux.indexed /\ demux'.index = demux.index
        /\ demux'.file_size = demux.file_size /\ Existing(demux') = Existing(demux)
    BY <1>2, <1>6 DEF Fields, Existing
  <2>3. Untouched'
    BY <1>1, <1>6, <2>2, UntouchedSame DEF IndexInv
  <2>4. OffsetInv'
    <3>1. SUFFICES ASSUME Calm, ~demux.indexed PROVE OffsetInv'
      BY <2>1, <2>2 DEF OffsetInv
    <3>2. adapter.at > 0 /\ adapter.at = demux'.offset
      BY <1>4, <1>6, <3>1
    <3>3. Counted'
      BY <1>6, <3>2 DEF Counted
    <3>. QED BY <1>1, <1>2, <1>3, <1>6, <2>2, <3>1, <3>2, <3>3 DEF OffsetInv, Whole, TagStates, ChainInv
  <2>5. TimeInv'
    BY <1>1, <1>2, <1>3, <1>6, <2>1, <2>2, TimeSame DEF IndexInv, SameTimes
  <2>6. IndexTrue'
    BY <1>1, <2>1, <2>2, IndexSame DEF IndexInv
  <2>. QED BY <2>3, <2>4, <2>5, <2>6 DEF IndexInv
<1>. QED BY <1>1, <1>5, <1>6, ParsedDoes

LEMMA IndexLastTag ==
  ASSUME PushInv, IndexInv, SeekLastTag
  PROVE  IndexInv'
<1>1. /\ TypeOK /\ ChainInv /\ AppInv /\ OffsetInv /\ Untouched /\ chain = "parse"
      /\ demux \in DemuxType /\ demux.state = "SEEK"
      /\ UNCHANGED <<file, flags, app, seeks, restarts>>
  BY DEF PushInv, IndexInv, SeekLastTag, Parsing, TypeOK
<1>2. Fields(demux, demux)
  BY DEF Fields
<1>3. adapter.at \in Nat
  BY <1>1 DEF TypeOK
<1>4. CASE NoIndex(demux)
  <2>1. /\ SoughtTo(demux, 0) /\ chain' = "idle"
        /\ past' = [past EXCEPT !.raced = @ \/ Racing]
    BY <1>1, <1>4, NoIndexDoes
  <2>2. Calm' => Calm
    BY <1>1, <2>1 DEF TypeOK, PastType, Calm
  <2>3. CASE upstream.seekable
    BY <1>1, <1>2, <2>1, <2>2, <2>3, IndexMoved
  <2>4. CASE ~upstream.seekable
    <3>1. demux' = demux /\ UNCHANGED <<adapter, flushing, upstream>>
      BY <2>1, <2>4 DEF SoughtTo
    <3>2. Calm /\ ~demux.indexed =>
            Swallowed' \/ (adapter.at = demux'.offset /\ adapter.at > 0)
      BY <1>1, <1>3, <2>4, <3>1 DEF OffsetInv, Counted, Swallowed
    <3>. QED BY <1>1, <1>2, <2>1, <2>2, <3>1, <3>2, IndexLeft
  <2>. QED BY <2>3, <2>4
<1>5. CASE ~NoIndex(demux)
  <2> DEFINE d == [demux EXCEPT !.state = "TAG_TYPE"]
  <2>1. /\ demux.offset = demux.file_size - SIZE_OF_SIZE
        /\ d \in DemuxType /\ Fields(demux, d) /\ d.pad = demux.pad /\ d.state = "TAG_TYPE"
        /\ d.offset = demux.offset
        /\ chain' = "idle" /\ UNCHANGED <<request, past>>
        /\ file # <<>> => SoughtTo(d, Position(Len(file)))
    BY <1>5, LastTagDoes
  <2>. HIDE DEF d
  <2>2. demux.file_size # 0
    BY <1>1, <2>1 DEF DemuxType, SIZE_OF_SIZE
  <2>3. file # <<>> /\ Position(Len(file)) \in Nat
    <3>1. file # <<>>
      BY <1>1, <2>2 DEF AppInv
    <3>2. Len(file) \in DOMAIN file
      BY <1>1, <3>1, FileIs
    <3>. QED BY <1>1, <3>1, <3>2, FileIs
  <2>4. Calm' => Calm
    BY <2>1 DEF Calm
  <2>5. CASE upstream.seekable
    BY <1>1, <2>1, <2>3, <2>4, <2>5, IndexMoved
  <2>6. CASE ~upstream.seekable
    <3>1. demux' = d /\ UNCHANGED <<adapter, flushing, upstream>>
      BY <2>1, <2>3, <2>6 DEF SoughtTo
    <3>2. adapter.at > 0
      BY <1>1, <1>3, <2>2, <2>6 DEF Untouched
    <3>3. Calm /\ ~demux.indexed => adapter.at = demux'.offset
      BY <1>1, <2>1, <3>1, <3>2 DEF OffsetInv, Counted, Swallowed
    <3>. QED BY <1>1, <2>1, <2>4, <3>1, <3>2, <3>3, IndexLeft
  <2>. QED BY <2>5, <2>6
<1>. QED BY <1>4, <1>5

LEMMA IndexServe ==
  ASSUME PushInv, IndexInv, ServeSeek
  PROVE  IndexInv'
<1>1. /\ TypeOK /\ AppInv /\ Untouched /\ IndexTrue
  BY DEF PushInv, IndexInv
<1>2. /\ demux.indexed /\ ~flushing
      /\ Fields([demux EXCEPT !.ret = demux'.ret], demux')
      /\ Found \/ NotFound
      /\ UNCHANGED <<file, flags, app, seeks, restarts>>
  BY <1>1, ServeSeekDoes
<1>3. /\ past'.raced = past.raced /\ past'.garbled = past.garbled
      /\ upstream'.seekable = upstream.seekable
      /\ \A p \in Streams : Stream(demux.pad[p], demux'.pad[p])
      /\ ~upstream.seekable =>
           /\ upstream'.pos = upstream.pos /\ upstream'.discont = upstream.discont
           /\ adapter' = adapter
  BY <1>1, <1>2, ServedIs
<1>4. /\ demux'.indexed /\ demux'.index = demux.index
      /\ demux'.file_size = demux.file_size /\ Existing(demux') = Existing(demux)
      /\ Calm' = Calm
  BY <1>1, <1>2, <1>3, StreamsExist DEF TypeOK, DemuxType, Fields, Calm
<1>5. Untouched'
  BY <1>1, <1>2, <1>3, <1>4 DEF Untouched
<1>6. IndexTrue'
  BY <1>1, <1>2, <1>4, IndexSame
<1>. QED BY <1>4, <1>5, <1>6 DEF IndexInv, OffsetInv, TimeInv

\* What an entry of the index says of the file.
EntryTrue(entry) ==
  /\ entry.pos \in Starts(file)
  /\ LET tag == file[TagAt(file, entry.pos)] IN
       /\ \/ entry.time \in {tag.time, Pts(tag)}
          \/ entry.time > Pts(tag) /\ TurnsBack(tag.type)
       /\ entry.key => tag.key \/ tag.type = "audio"

LEMMA TableEntryTrue ==
  ASSUME TypeOK, NEW i \in Keyframes(file)
  PROVE  EntryTrue(TableEntry(file, i))
<1>1. i \in DOMAIN file /\ file[i].key /\ i \in Int
  BY FileIs DEF Keyframes
<1>2. Position(i) \in Starts(file) /\ TagAt(file, Position(i)) = i
  BY <1>1, TagAtPosition DEF Starts
<1>. QED BY <1>1, <1>2 DEF EntryTrue, TableEntry

\* A time a frame is shifted by, as the stream has turned back.
LEMMA ShiftIs ==
  ASSUME TypeOK, TimeInv, Calm, ~demux.indexed, NEW i \in DOMAIN file, HasPayload(file[i]),
         adapter.at = Position(i) + FLV_TAG_TYPE_SIZE
  PROVE  LET pad == demux.pad[file[i].type] IN
         /\ Shift(pad, file[i].time) \in Nat
         /\ Shift(pad, file[i].time) # 0 => TurnsBack(file[i].type)
<1> DEFINE p == file[i].type
           pad == demux.pad[p]
           back == Ddts(file[i].time, pad.last)
<1>1. p \in Streams /\ file[i].time \in 0..(U32 - 1) /\ i \in Nat /\ i \in Frames(p)
  BY FileIs DEF HasPayload, Frames
<1>2. pad \in PadType /\ pad.time_offset \in Nat /\ pad.last \in 0..(U32 - 1)
  <2>1. pad \in PadType
    BY <1>1, PadOf DEF TypeOK
  <2>. QED BY <2>1 DEF PadType
<1>3. /\ pad.time_offset # 0 => TurnsBack(p)
      /\ ~pad.need_discont =>
           \E m \in Frames(p) : pad.last = file[m].time /\ Position(m + 1) <= adapter.at
  BY <1>1 DEF TimeInv
<1>4. U32 \in Nat /\ RESYNC_THRESHOLD \in Nat /\ RESYNC_THRESHOLD >= 1
  BY TagsAssumption
<1>5. back \in Int
  <2>1. file[i].time \in Int /\ pad.last \in Int
    BY <1>1, <1>2, <1>4
  <2>. QED BY <2>1, DdtsInt
<1>6. CASE Resyncs(pad, file[i].time)
  <2>1. ~pad.need_discont /\ back <= -RESYNC_THRESHOLD
    BY <1>6 DEF Resyncs
  <2>2. PICK m \in Frames(p) : pad.last = file[m].time /\ Position(m + 1) <= adapter.at
    BY <1>3, <2>1
  <2>3. m \in DOMAIN file /\ m \in Nat
    BY <2>2, FileIs DEF Frames
  <2>4. m < i
    <3>1. Position(m + 1) = 3 * m + 1 /\ Position(i) = 3 * i - 2
      BY <2>3, FileIs
    <3>2. 3 * m + 1 <= 3 * i - 1
      BY <1>1, <2>2, <3>1 DEF FLV_TAG_TYPE_SIZE
    <3>. QED BY <1>1, <2>3, <3>2
  <2>5. TurnsBack(p)
    BY <1>1, <2>1, <2>2, <2>4 DEF TurnsBack
  <2>6. Shift(pad, file[i].time) = pad.time_offset - back
    BY <1>6 DEF Shift
  <2>. HIDE DEF back, pad
  <2>7. pad.time_offset - back \in Nat
    BY <1>2, <1>4, <1>5, <2>1
  <2>. QED BY <2>5, <2>6, <2>7 DEF pad
<1>7. CASE ~Resyncs(pad, file[i].time)
  BY <1>2, <1>3, <1>7 DEF Shift
<1>. QED BY <1>6, <1>7

LEMMA IndexTake ==
  ASSUME PushInv, IndexInv, NEW flow \in Returned, TakeTag(flow)
  PROVE  IndexInv'
<1> DEFINE i == demux.tag
           tag == file[i]
<1>1. TypeOK /\ ChainInv /\ Untouched /\ OffsetInv /\ TimeInv /\ IndexTrue /\ PushInv'
  BY KeepsTake DEF PushInv, IndexInv
<1>2. /\ TagDoes(demux', flow) /\ demux.state \in TagStates /\ i \in DOMAIN file
      /\ chain = "parse" /\ chain' = "parsed" /\ adapter.len >= 2
      /\ adapter' = [at |-> adapter.at + 2, len |-> adapter.len - 2]
      /\ adapter.at = Position(i) + FLV_TAG_TYPE_SIZE
      /\ UNCHANGED <<file, flags, request, flushing, upstream, app, seeks, restarts, past>>
  BY <1>1, TakeDoes
<1>3. /\ demux' \in DemuxType /\ demux'.state = demux.state /\ demux'.tag = i
      /\ demux'.cur_tag_offset = demux.cur_tag_offset /\ demux'.offset = demux.offset
      /\ demux'.file_size = demux.file_size /\ (demux.indexed => demux'.indexed)
  BY <1>2 DEF TagDoes, SamePlace
<1>4. adapter.at \in Nat /\ adapter.len \in Nat /\ upstream.pos > 0 /\ ~upstream.discont
      /\ adapter'.at = adapter.at + 2 /\ demux.offset \in Nat
  BY <1>1, <1>2 DEF TypeOK, ChainInv, DemuxType
<1>5. Calm' = Calm
  BY <1>2 DEF Calm
<1>6. /\ tag \in Tags /\ i \in Nat /\ Position(i) = 3 * i - 2 /\ Position(i + 1) = 3 * i + 1
      /\ Position(i) \in Starts(file) /\ TagAt(file, Position(i)) = i
  BY <1>1, <1>2, FileIs, TagAtPosition DEF Starts
<1>7. adapter'.at = Position(i + 1)
  BY <1>2, <1>4, <1>6 DEF FLV_TAG_TYPE_SIZE
<1> HIDE DEF i
<1>8. Untouched'
  BY <1>1, <1>2, <1>4 DEF Untouched
<1>9. OffsetInv'
  <2>1. SUFFICES ASSUME Calm, ~demux.indexed PROVE OffsetInv'
    BY <1>3, <1>5 DEF OffsetInv
  <2>2. Counted /\ app.pc # "assign" /\ demux.cur_tag_offset = Position(i)
    BY <1>1, <1>2, <1>4, <2>1 DEF OffsetInv, i
  <2>3. adapter.at = demux.offset
    BY <1>2, <2>2 DEF Counted, Swallowed, TagStates
  <2>4. Counted'
    BY <1>2, <1>3, <1>4, <2>3 DEF Counted, tag_size
  <2>5. Whole'
    BY <1>1, <1>2 DEF PushInv, ChainInv
  <2>. QED BY <1>2, <1>3, <1>4, <2>2, <2>4, <2>5 DEF OffsetInv
<1>10. TimeInv'
  <2>1. SUFFICES ASSUME Calm, ~demux.indexed, ~demux'.indexed, NEW p \in Streams
                 PROVE  /\ demux'.pad[p].time_offset # 0 => TurnsBack(p)
                        /\ ~demux'.pad[p].need_discont =>
                             \E m \in Frames(p) : demux'.pad[p].last = file[m].time
                                                  /\ Position(m + 1) <= adapter'.at
    BY <1>2, <1>3, <1>4, <1>5 DEF TimeInv, TurnsBack, Frames
  <2>2. /\ demux.pad[p].time_offset # 0 => TurnsBack(p)
        /\ ~demux.pad[p].need_discont =>
             \E m \in Frames(p) : demux.pad[p].last = file[m].time
                                  /\ Position(m + 1) <= adapter.at
    BY <1>1, <2>1 DEF TimeInv
  <2>3. CASE SameTimes(demux.pad[p], demux'.pad[p])
             /\ demux'.pad[p].need_discont = demux.pad[p].need_discont
    <3>1. ASSUME NEW m \in Frames(p), Position(m + 1) <= adapter.at
          PROVE  Position(m + 1) <= adapter'.at
      <4>1. Position(m + 1) \in Int
        BY <1>1, FileIs DEF Frames
      <4>. QED BY <1>4, <3>1, <4>1
    <3>. QED BY <2>2, <2>3, <3>1 DEF SameTimes
  <2>4. CASE tag.type = p /\ HasPayload(tag) /\ ~demux'.pad[p].need_discont
             /\ demux'.pad[p].last = tag.time
             /\ demux'.pad[p].time_offset = Shift(demux.pad[p], tag.time)
    <3>1. i \in Frames(p)
      BY <1>2, <2>4 DEF Frames, i
    <3>2. demux'.pad[p].time_offset # 0 => TurnsBack(p)
      BY <1>1, <1>2, <2>1, <2>4, ShiftIs DEF i
    <3>3. Position(i + 1) <= adapter'.at
      BY <1>4, <1>6, <1>7
    <3>. QED BY <2>4, <3>1, <3>2, <3>3
  <2>5. CASE tag.type \in Streams
    <3>1. MediaDoes(demux, demux', i, tag, flow)
      BY <1>2, <2>5 DEF TagDoes, i
    <3>2. CASE tag.type # p
      BY <2>3, <3>1, <3>2 DEF MediaDoes, OnlyPad, SameTimes
    <3>3. CASE tag.type = p
      BY <2>3, <2>4, <3>1, <3>3 DEF MediaDoes
    <3>. QED BY <3>2, <3>3
  <2>6. CASE tag.type \notin Streams
    <3>1. demux'.pad = demux.pad
      BY <1>2, <2>6 DEF TagDoes, i
    <3>. QED BY <2>3, <3>1 DEF SameTimes
  <2>. QED BY <2>5, <2>6
<1>11. IndexTrue'
  <2>1. SUFFICES ASSUME Calm, NEW k \in DOMAIN demux'.index
                 PROVE  EntryTrue(demux'.index[k])
    BY <1>2, <1>5 DEF IndexTrue, EntryTrue, TurnsBack, Frames
  <2>2. \A j \in DOMAIN demux.index : EntryTrue(demux.index[j])
    BY <1>1, <2>1 DEF IndexTrue, EntryTrue
  <2>3. demux.index \in Seq(Entries)
    BY <1>1 DEF TypeOK, DemuxType
  <2>4. ASSUME NEW new \in Seq(Entries), demux'.index = demux.index \o new,
               \A j \in DOMAIN new : EntryTrue(new[j])
        PROVE  EntryTrue(demux'.index[k])
    <3>1. k \in 1..(Len(demux.index) + Len(new))
      BY <2>1, <2>3, <2>4
    <3>2. CASE k <= Len(demux.index)
      BY <2>2, <2>3, <2>4, <3>1, <3>2
    <3>3. CASE k > Len(demux.index)
      <4>1. k - Len(demux.index) \in DOMAIN new
        BY <2>3, <2>4, <3>1, <3>3
      <4>2. demux'.index[k] = new[k - Len(demux.index)]
        BY <2>3, <2>4, <3>1, <3>3
      <4>. QED BY <2>4, <4>1, <4>2
    <3>. QED BY <2>3, <2>4, <3>1, <3>2, <3>3
  <2>5. CASE demux'.index = demux.index
    BY <2>1, <2>2, <2>5
  <2>6. CASE tag.type \in Streams
    <3>1. MediaDoes(demux, demux', i, tag, flow)
      BY <1>2, <2>6 DEF TagDoes, i
    <3>2. CASE ~demux.indexed /\ HasPayload(tag) /\ Indexes(demux, demux', tag.type, tag)
      <4>1. PICK entry \in Entries :
              /\ demux'.index = Append(demux.index, entry)
              /\ entry.pos = demux.cur_tag_offset
              /\ entry.time = Pts(tag) + Shift(demux.pad[tag.type], tag.time)
              /\ entry.key = (tag.type = "audio" \/ tag.key)
        BY <3>2 DEF Indexes
      <4>2. entry.pos = Position(i)
        BY <1>1, <1>2, <2>1, <3>2, <4>1 DEF OffsetInv, i
      <4>3. /\ Shift(demux.pad[tag.type], tag.time) \in Nat
            /\ Shift(demux.pad[tag.type], tag.time) # 0 => TurnsBack(tag.type)
        BY <1>1, <1>2, <2>1, <3>2, ShiftIs DEF i
      <4>4. Pts(tag) \in Nat
        BY <1>6, PtsNat
      <4>5. entry.time = Pts(tag) \/ (entry.time > Pts(tag) /\ TurnsBack(tag.type))
        BY <4>1, <4>3, <4>4
      <4>6. EntryTrue(entry)
        BY <1>6, <4>1, <4>2, <4>5 DEF EntryTrue
      <4>7. <<entry>> \in Seq(Entries) /\ demux'.index = demux.index \o <<entry>>
        BY <2>3, <4>1
      <4>8. \A j \in DOMAIN <<entry>> : <<entry>>[j] = entry
        OBVIOUS
      <4>9. \A j \in DOMAIN <<entry>> : EntryTrue(<<entry>>[j])
        BY <4>6, <4>8
      <4>. QED BY <2>4, <4>7, <4>9
    <3>. QED BY <2>5, <3>1, <3>2 DEF MediaDoes
  <2>7. CASE tag.type = "script"
    <3>1. PICK entries \in Seq(Entries) :
            /\ demux'.index = demux.index \o entries
            /\ \A j \in DOMAIN entries : \E m \in Keyframes(file) :
                 entries[j] = TableEntry(file, m)
      BY <1>2, <2>7 DEF TagDoes, Lists, i
    <3>2. \A j \in DOMAIN entries : EntryTrue(entries[j])
      BY <1>1, <3>1, TableEntryTrue
    <3>. QED BY <2>4, <3>1, <3>2
  <2>8. CASE tag.type = "other"
    BY <1>2, <2>5, <2>8 DEF TagDoes, i
  <2>9. tag.type \in Streams \cup {"script", "other"}
    BY <1>6 DEF Tags, Streams
  <2>. QED BY <2>6, <2>7, <2>8, <2>9
<1>. QED BY <1>8, <1>9, <1>10, <1>11 DEF IndexInv

LEMMA IndexSeek ==
  ASSUME PushInv, IndexInv, NEW ev \in Events, Seek(ev)
  PROVE  IndexInv'
<1>1. TypeOK /\ AppInv
  BY DEF PushInv
<1>2. /\ app.pc = "idle" /\ Existing(demux) # {}
      /\ IF demux.indexed THEN TRUE ELSE app'.kind = "build" /\ app'.pc = "request"
      /\ UNCHANGED <<file, flags, demux, request, flushing, adapter, chain, upstream,
                     restarts, past>>
  BY <1>1, SeekDoes
<1>3. Fields(demux, demux') /\ Calm' = Calm
  BY <1>2 DEF Fields, Calm
<1>4. \A p \in Streams : Stream(demux.pad[p], demux'.pad[p])
                         /\ demux'.pad[p].need_discont = demux.pad[p].need_discont
  BY <1>2 DEF Stream, SameTimes
<1>5. CASE ~demux.indexed
  BY <1>1, <1>2, <1>3, <1>4, <1>5, IndexFrame
<1>6. CASE demux.indexed
  <2>1. Untouched'
    BY <1>2 DEF IndexInv, Untouched, Existing
  <2>2. IndexTrue'
    BY <1>2, <1>3, IndexSame DEF IndexInv
  <2>. QED BY <1>2, <1>6, <2>1, <2>2 DEF IndexInv, OffsetInv, TimeInv
<1>. QED BY <1>5, <1>6

LEMMA IndexRequest ==
  ASSUME PushInv, IndexInv, Request
  PROVE  IndexInv'
<1>1. TypeOK /\ AppInv /\ Untouched /\ OffsetInv /\ TimeInv /\ IndexTrue
  BY DEF PushInv, IndexInv
<1>2. /\ app.pc = "request"
      /\ demux' \in DemuxType /\ demux'.pad = demux.pad /\ demux'.state = "SEEK"
      /\ Fields([demux EXCEPT !.file_size = demux'.file_size], demux')
      /\ demux'.offset = demux.offset
      /\ app' = Idle \/ app'.pc = "flush"
      /\ UNCHANGED <<file, flags, flushing, adapter, chain, upstream, seeks, restarts, past>>
  BY RequestDoes
<1>3. /\ demux'.tag = demux.tag /\ demux'.indexed = demux.indexed
      /\ demux'.index = demux.index /\ demux'.ret = demux.ret /\ Calm' = Calm
      /\ Existing(demux') = Existing(demux) /\ app'.pc # "assign"
  BY <1>1, <1>2, IdleType DEF TypeOK, DemuxType, Fields, Calm, Existing
<1>4. Untouched'
  BY <1>1, <1>2, <1>3 DEF Untouched
<1>5. OffsetInv'
  <2>1. SUFFICES ASSUME Calm, ~demux.indexed PROVE OffsetInv'
    BY <1>3 DEF OffsetInv
  <2>2. Counted => Counted'
    BY <1>2 DEF Counted, Swallowed
  <2>3. Swallowed => Swallowed'
    BY <1>2 DEF Swallowed
  <2>. QED BY <1>1, <1>2, <1>3, <2>1, <2>2, <2>3 DEF OffsetInv, Whole, TagStates
<1>6. TimeInv'
  BY <1>1, <1>2, <1>3, TimeSame DEF SameTimes, TypeOK
<1>7. IndexTrue'
  BY <1>1, <1>2, <1>3, IndexSame
<1>. QED BY <1>4, <1>5, <1>6, <1>7 DEF IndexInv

LEMMA IndexRefused ==
  ASSUME PushInv, IndexInv, AppRefused
  PROVE  IndexInv'
<1>1. TypeOK
  BY DEF PushInv
<1>2. /\ app.pc \in {"flush", "jump"} /\ app' = Idle
      /\ IF app.kind = "seek" THEN Breaks(demux, demux') ELSE demux' = demux
      /\ Fields(demux, demux') /\ demux'.state = demux.state
      /\ demux'.offset = demux.offset
      /\ UNCHANGED <<file, flags, request, flushing, adapter, chain, upstream, seeks,
                     restarts, past>>
  BY <1>1, RefusedDoes
<1>3. /\ Calm' = Calm /\ demux'.indexed = demux.indexed /\ app'.pc = "idle"
  BY <1>2, IdleType DEF Calm, Fields
<1>4. \A p \in Streams : /\ Stream(demux.pad[p], demux'.pad[p])
                         /\ demux.pad[p].need_discont => demux'.pad[p].need_discont
  BY <1>2 DEF Breaks, Stream, SameTimes
<1>. QED BY <1>1, <1>2, <1>3, <1>4, IndexFrame

LEMMA IndexFlushStart ==
  ASSUME PushInv, IndexInv, FlushStart
  PROVE  IndexInv'
<1>1. TypeOK /\ AppInv /\ Untouched /\ OffsetInv /\ TimeInv /\ IndexTrue
  BY DEF PushInv, IndexInv
<1>2. /\ app.pc = "flush" /\ upstream.seekable /\ flushing' = TRUE
      /\ upstream'.discont = upstream.discont /\ upstream'.pos = upstream.pos
      /\ upstream'.seekable = upstream.seekable
      /\ app'.pc = "stop"
      /\ UNCHANGED <<file, flags, demux, request, adapter, chain, seeks, restarts, past>>
  BY <1>1, FlushStartDoes
<1>3. Calm' = Calm
  BY <1>2 DEF Calm
<1>4. Untouched'
  BY <1>2 DEF Untouched
<1>5. OffsetInv'
  BY <1>1, <1>2, <1>3 DEF OffsetInv, Whole, Counted, Swallowed
<1>6. TimeInv'
  BY <1>1, <1>2, <1>3, TimeSame DEF SameTimes, TypeOK
<1>7. IndexTrue'
  BY <1>1, <1>2, <1>3, IndexSame
<1>. QED BY <1>4, <1>5, <1>6, <1>7 DEF IndexInv

LEMMA IndexFlushEnds ==
  ASSUME PushInv, IndexInv, FlushEnds
  PROVE  IndexInv'
<1>1. TypeOK /\ AppInv /\ OffsetInv /\ TimeInv /\ IndexTrue
  BY DEF PushInv, IndexInv
<1>2. /\ app.pc = "stop" /\ chain = "idle" /\ Flushes(demux, demux')
      /\ adapter' \in [at : Nat, len : Nat] /\ adapter'.at = adapter.at
      /\ upstream' = Moved(app.offset) /\ app.offset \in Nat
      /\ app'.pc = "assign" /\ app'.offset = app.offset
      /\ SameHistory(past')
      /\ UNCHANGED <<file, flags, request, chain, seeks, restarts>>
  BY <1>1, FlushEndsDoes
<1>3. /\ upstream'.pos = app.offset /\ upstream'.discont = TRUE
      /\ upstream'.seekable = upstream.seekable /\ upstream.seekable
  BY <1>1, <1>2, MovedType DEF TypeOK, AppInv
<1>4. Calm' = Calm /\ demux'.indexed = demux.indexed /\ demux'.index = demux.index
  BY <1>2 DEF Calm, SameHistory, Flushes, Fields
<1>5. Untouched'
  BY <1>3 DEF Untouched
<1>6. OffsetInv'
  <2>1. demux'.state \in {"SEEK", "TAG_TYPE"}
    BY <1>2 DEF Flushes
  <2>. QED BY <1>2, <1>3, <2>1 DEF OffsetInv, TagStates
<1>7. TimeInv'
  <2>1. \A p \in Streams : SameTimes(demux.pad[p], demux'.pad[p])
                           /\ demux'.pad[p].need_discont
    BY <1>2 DEF Flushes, Stream
  <2>2. adapter'.at \in Nat /\ adapter'.at >= adapter.at
    BY <1>2
  <2>. QED BY <1>1, <1>2, <1>4, <2>1, <2>2, TimeSame
<1>8. IndexTrue'
  BY <1>1, <1>2, <1>4, IndexSame
<1>. QED BY <1>5, <1>6, <1>7, <1>8 DEF IndexInv

LEMMA IndexJump ==
  ASSUME PushInv, IndexInv, Jump
  PROVE  IndexInv'
<1>1. TypeOK /\ AppInv /\ IndexTrue
  BY DEF PushInv, IndexInv
<1>2. /\ app.pc = "jump" /\ upstream.seekable
      /\ upstream' = Moved(app.offset) /\ app.offset \in Nat
      /\ past'.raced = past.raced /\ past'.garbled = past.garbled
      /\ UNCHANGED <<file, flags, demux, request, flushing, adapter, chain, seeks, restarts>>
  BY <1>1, JumpDoes
<1>3. demux'.indexed
  BY <1>1, <1>2 DEF AppInv
<1>4. upstream'.seekable
  BY <1>1, <1>2, MovedType DEF TypeOK
<1>5. IndexTrue'
  BY <1>1, <1>2, IndexSame DEF Calm
<1>. QED BY <1>3, <1>4, <1>5 DEF IndexInv, Untouched, OffsetInv, TimeInv

LEMMA IndexAssign ==
  ASSUME PushInv, IndexInv, Assign
  PROVE  IndexInv'
<1>1. TypeOK /\ AppInv /\ ChainInv /\ Untouched /\ OffsetInv /\ TimeInv /\ IndexTrue
  BY DEF PushInv, IndexInv
<1>2. /\ app.pc = "assign" /\ app' = Idle /\ app.kind \in {"build", "seek", "stay"}
      /\ demux' \in DemuxType /\ Fields(demux, demux') /\ demux'.state = demux.state
      /\ Existing(demux') = Existing(demux)
      /\ app.kind = "build" =>
              demux'.pad = demux.pad /\ demux'.offset = app.offset
      /\ UNCHANGED <<file, flags, request, flushing, adapter, chain, upstream, seeks,
                     restarts, past>>
  BY <1>1, AssignDoes
<1>3. /\ Calm' = Calm /\ demux'.indexed = demux.indexed /\ demux'.index = demux.index
      /\ demux'.file_size = demux.file_size /\ app'.pc = "idle"
      /\ demux'.tag = demux.tag /\ demux'.cur_tag_offset = demux.cur_tag_offset
  BY <1>2, IdleType DEF Calm, Fields
<1>4. Untouched'
  BY <1>1, <1>2, <1>3, UntouchedSame
<1>5. IndexTrue'
  BY <1>1, <1>2, <1>3, IndexSame
<1>6. ASSUME Calm, ~demux.indexed PROVE OffsetInv' /\ TimeInv'
  <2>1. app.kind = "build"
    BY <1>1, <1>2, <1>6 DEF AppInv
  <2>2. /\ upstream.discont /\ upstream.pos = app.offset
        /\ demux.state \in TagStates => demux.cur_tag_offset = Position(demux.tag)
    BY <1>1, <1>2, <1>6 DEF OffsetInv
  <2>3. chain = "idle"
    BY <1>1, <2>2 DEF ChainInv
  <2>4. OffsetInv'
    BY <1>2, <1>3, <2>1, <2>2, <2>3 DEF OffsetInv
  <2>5. TimeInv'
    BY <1>1, <1>2, <1>3, <2>1, TimeSame DEF SameTimes, TypeOK
  <2>. QED BY <2>4, <2>5
<1>7. CASE ~Calm \/ demux.indexed
  BY <1>3, <1>4, <1>5, <1>7 DEF IndexInv, OffsetInv, TimeInv
<1>. QED BY <1>4, <1>5, <1>6, <1>7 DEF IndexInv

LEMMA IndexRestart ==
  ASSUME PushInv, IndexInv, Restart
  PROVE  IndexInv'
<1>1. TypeOK /\ AppInv
  BY DEF PushInv
<1>2. /\ app.pc = "idle" /\ chain = "idle"
      /\ demux'.state = "HEADER" /\ demux'.index = <<>> /\ demux'.file_size = 0
      /\ \A p \in Streams : demux'.pad[p].need_discont /\ demux'.pad[p].time_offset = 0
      /\ Existing(demux') = {} /\ adapter' = [at |-> 0, len |-> 0]
      /\ upstream'.pos = 0 /\ upstream'.discont = TRUE
      /\ UNCHANGED <<chain, app>>
  BY <1>1, RestartDoes
<1>3. Untouched'
  BY <1>2 DEF Untouched
<1>4. OffsetInv'
  BY <1>2 DEF OffsetInv, TagStates
<1>5. TimeInv'
  BY <1>2 DEF TimeInv
<1>6. IndexTrue'
  BY <1>2 DEF IndexTrue
<1>. QED BY <1>3, <1>4, <1>5, <1>6 DEF IndexInv

LEMMA IndexInit ==
  ASSUME Init
  PROVE  IndexInv
<1>1. /\ demux = NewDemux /\ chain = "idle" /\ adapter.at = 0 /\ app.pc = "idle"
      /\ upstream.pos = 0 /\ upstream.discont
  BY IdleType DEF Init
<1>2. /\ demux.state = "HEADER" /\ demux.index = <<>> /\ demux.file_size = 0
      /\ \A p \in Streams : demux.pad[p].need_discont /\ demux.pad[p].time_offset = 0
      /\ Existing(demux) = {}
  BY <1>1 DEF NewDemux, NewPad, Existing
<1>3. Untouched
  BY <1>1, <1>2 DEF Untouched
<1>4. OffsetInv
  BY <1>1, <1>2 DEF OffsetInv, TagStates
<1>5. TimeInv
  BY <1>2 DEF TimeInv
<1>6. IndexTrue
  BY <1>2 DEF IndexTrue
<1>. QED BY <1>3, <1>4, <1>5, <1>6 DEF IndexInv

LEMMA IndexStutter ==
  ASSUME IndexInv, UNCHANGED vars
  PROVE  IndexInv'
BY DEF vars, IndexInv, Untouched, Existing, OffsetInv, Whole, Counted, Swallowed, TimeInv,
       IndexTrue, TurnsBack, Frames, Calm

LEMMA IndexUpstream ==
  ASSUME PushInv, IndexInv, Segment \/ SinkEos
  PROVE  IndexInv'
<1>1. TypeOK
  BY DEF PushInv
<1>2. /\ Fields(demux, demux') /\ demux'.offset = demux.offset /\ demux'.state = demux.state
      /\ \A p \in Streams : /\ Stream(demux.pad[p], demux'.pad[p])
                            /\ demux'.pad[p].need_discont = demux.pad[p].need_discont
  BY <1>1, SegmentDoes, SinkEosDoes DEF Quiet, Ended
<1>3. /\ UNCHANGED <<file, flags, request, flushing, adapter, chain, app, past>>
      /\ upstream'.pos = upstream.pos /\ upstream'.discont = upstream.discont
      /\ upstream'.seekable = upstream.seekable
  BY <1>1 DEF Segment, SinkEos, TypeOK, UpstreamType
<1>4. Calm' = Calm /\ demux'.indexed = demux.indexed
  BY <1>2, <1>3 DEF Calm, Fields
<1>. QED BY <1>1, <1>2, <1>3, <1>4, IndexFrame

LEMMA IndexStep ==
  ASSUME PushInv, IndexInv, [Next]_vars
  PROVE  IndexInv'
<1>1. CASE UNCHANGED vars
  BY <1>1, IndexStutter
<1>2. CASE Steps
  <2>1. CASE Segment \/ SinkEos \/ \E n \in 1..MaxChunk : Chain(n)
    BY <2>1, IndexUpstream, IndexChain
  <2>2. CASE Leave \/ Wait \/ Garble \/ ParseHeader \/ ParseTagType \/ TagTyped
    BY <2>2, IndexLeave, IndexWait, IndexGarble, IndexHeader, IndexType, IndexTyped
  <2>3. CASE TagParsed \/ SeekLastTag \/ ServeSeek \/ \E flow \in Returned : TakeTag(flow)
    BY <2>3, IndexParsed, IndexLastTag, IndexServe, IndexTake
  <2>4. CASE Request \/ AppRefused \/ FlushStart \/ FlushEnds \/ Jump \/ Assign
    BY <2>4, IndexRequest, IndexRefused, IndexFlushStart, IndexFlushEnds, IndexJump,
       IndexAssign
  <2>5. CASE Restart \/ \E ev \in Events : Seek(ev)
    BY <2>5, IndexRestart, IndexSeek
  <2>. QED BY <1>2, <2>1, <2>2, <2>3, <2>4, <2>5 DEF Steps
<1>. QED BY <1>1, <1>2, NextIs

\* Whatever the chunks and whenever the application seeks, an entry of the
\* index leads to the start of a tag of its time: the offset chain counts is
\* that of its adapter, also after it went to the end of the file and back for
\* the index, and the time of an entry is shifted only where the times of its
\* stream turn back.
THEOREM IndexIsTrue == Spec => []IndexTrue
<1>1. Init => PushInv /\ IndexInv
  BY PushInit, IndexInit
<1>2. PushInv /\ IndexInv /\ [Next]_vars => (PushInv /\ IndexInv)'
  BY PushStep, IndexStep
<1>3. IndexInv => IndexTrue
  BY DEF IndexInv
<1>. QED BY <1>1, <1>2, <1>3, PTL DEF Spec

---------------------------------------------------------------------------
(* The first seek without an index. *)

\* Past the start of the file the bytes at hand are at a tag or behind its
\* first bytes.
LEMMA AtTagIs ==
  ASSUME TypeOK, ChainInv, AtState, chain \in {"idle", "parse"}, adapter.at # 0
  PROVE  AtTag
<1>1. demux.state \in States
  BY DEF TypeOK, DemuxType
<1>2. demux.state # "SEEK" => Expected(demux.state)
  BY DEF AtState
<1>3. CASE demux.state = "SEEK"
  BY <1>3 DEF AtState
<1>4. CASE demux.state \in {"HEADER", "TAG_TYPE"}
  BY <1>2, <1>4 DEF Expected, AtTag
<1>5. CASE demux.state \in TagStates
  <2>1. demux.tag \in DOMAIN file
    BY <1>5 DEF ChainInv
  <2>2. adapter.at = Position(demux.tag) + FLV_TAG_TYPE_SIZE
    BY <1>2, <1>5 DEF Expected, TagStates
  <2>. QED BY <2>1, <2>2 DEF AtTag
<1>. QED BY <1>1, <1>3, <1>4, <1>5 DEF States, TagStates

\* The last four bytes are in no such place.
LEMMA LastBytes ==
  ASSUME TypeOK, AtTag
  PROVE  adapter.at # FileSize - SIZE_OF_SIZE
<1>1. FileSize = 3 * Len(file) + 1 /\ Len(file) \in Nat
  BY FileIs
<1>2. CASE adapter.at \in Starts(file) \cup {FileSize}
  <2>1. ASSUME NEW i \in DOMAIN file PROVE Position(i) # 3 * Len(file)
    BY <1>1, FileIs
  <2>. QED BY <1>1, <1>2, <2>1 DEF Starts, SIZE_OF_SIZE
<1>3. CASE \E i \in DOMAIN file : adapter.at = Position(i) + FLV_TAG_TYPE_SIZE
  <2>1. ASSUME NEW i \in DOMAIN file PROVE Position(i) + 1 # 3 * Len(file)
    BY <1>1, FileIs
  <2>. QED BY <1>1, <1>3, <2>1 DEF FLV_TAG_TYPE_SIZE, SIZE_OF_SIZE
<1>. QED BY <1>2, <1>3 DEF AtTag

LEMMA FileNotEmpty ==
  ASSUME TypeOK, file # <<>>
  PROVE  /\ FileSize >= 4 /\ 1 \in Starts(file)
         /\ Position(Len(file)) \in Starts(file) /\ Position(Len(file)) = 3 * Len(file) - 2
         /\ Len(file) >= 1 /\ Len(file) \in DOMAIN file
<1>1. file \in Seq(Tags) /\ Len(file) \in Nat /\ DOMAIN file = 1..Len(file)
  BY FileIs
<1>2. Len(file) >= 1
  BY <1>1
<1>3. 1 \in DOMAIN file /\ Len(file) \in DOMAIN file
  BY <1>1, <1>2
<1>4. Position(1) = 1 /\ Position(Len(file)) = 3 * Len(file) - 2
  BY <1>1, PositionIs
<1>5. FileSize >= 4
  BY <1>1, <1>2, FileIs
<1>. QED BY <1>2, <1>3, <1>4, <1>5 DEF Starts

\* What upstream says and how often it was asked to seek does not change chain.
LEMMA AnswerFrame ==
  ASSUME AnsweredInv,
         UNCHANGED <<file, request, flushing, adapter, chain, app, seeks>>,
         Fields(demux, demux'), demux'.state = demux.state, demux'.offset = demux.offset,
         Existing(demux') = Existing(demux),
         upstream'.pos = upstream.pos, upstream'.discont = upstream.discont,
         upstream'.seekable = upstream.seekable, upstream'.sized = upstream.sized,
         Waited => upstream'.eos = upstream.eos /\ upstream'.stopped = upstream.stopped
  PROVE  AnsweredInv'
<1>1. /\ Able' = Able /\ Unasked' = Unasked /\ OnTheWay' = OnTheWay /\ Unmoved' = Unmoved
      /\ Waited' = Waited /\ Whole' = Whole /\ Counted' = Counted /\ AtTag' = AtTag
  BY DEF Able, Unasked, OnTheWay, Unmoved, Waited, Whole, Counted, Swallowed, AtTag, FileSize
<1>2. demux'.tag = demux.tag /\ demux'.ret = demux.ret
  BY DEF Fields
<1>3. AtState' = AtState
  BY <1>1, <1>2 DEF AtState, Expected, FileSize
<1>4. SeekInv'
  BY <1>1 DEF AnsweredInv, SeekInv
<1>5. WayInv'
  BY <1>1, <1>2, <1>3 DEF AnsweredInv, WayInv
<1>6. MeetInv'
  BY <1>1 DEF AnsweredInv, MeetInv
<1>7. AnswerInv'
  BY <1>1, <1>2, <1>3 DEF AnsweredInv, AnswerInv, FileSize
<1>. QED BY <1>4, <1>5, <1>6, <1>7 DEF AnsweredInv

\* A seek that chain has met is served or given up.
LEMMA AnswerGivenUp ==
  ASSUME AnsweredInv, ~Unasked, request'.event = NoEvent, Existing(demux') = Existing(demux),
         UNCHANGED <<file, app, seeks>>
  PROVE  AnsweredInv'
<1>1. /\ seeks # 0 /\ ~(seeks = 1 /\ app.pc = "request")
      /\ ~(seeks = 1 /\ app.pc # "idle" /\ app.kind # "build")
  BY DEF AnsweredInv, SeekInv
<1>2. SeekInv'
  BY <1>1 DEF AnsweredInv, SeekInv
<1>3. ~Waited' /\ ~OnTheWay'
  BY <1>1 DEF Waited, OnTheWay, Able
<1>. QED BY <1>1, <1>2, <1>3 DEF AnsweredInv, WayInv, Unmoved, MeetInv, AnswerInv

\* The end of the file does not come while the seek waits.
LEMMA AnswerUpstream ==
  ASSUME PushInv, AnsweredInv, Segment \/ SinkEos
  PROVE  AnsweredInv'
<1>1. TypeOK
  BY DEF PushInv
<1>2. /\ Fields(demux, demux') /\ demux'.offset = demux.offset /\ demux'.state = demux.state
      /\ Existing(demux') = Existing(demux)
  BY <1>1, SegmentDoes, SinkEosDoes, StreamsExist DEF Quiet, Ended
<1>3. /\ UNCHANGED <<file, request, flushing, adapter, chain, app, seeks>>
      /\ upstream'.pos = upstream.pos /\ upstream'.discont = upstream.discont
      /\ upstream'.seekable = upstream.seekable /\ upstream'.sized = upstream.sized
      /\ upstream'.stopped = upstream.stopped
  BY <1>1 DEF Segment, SinkEos, TypeOK, UpstreamType
<1>4. ASSUME Waited PROVE upstream'.eos = upstream.eos
  <2>1. CASE Segment
    BY <1>1, <2>1 DEF Segment, TypeOK, UpstreamType
  <2>2. ASSUME SinkEos PROVE FALSE
    <3>1. (chain = "idle" /\ upstream.pos >= FileSize) \/ upstream.stopped
      BY <2>2 DEF SinkEos, CanSend
    <3>2. file # <<>>
      BY <1>4 DEF AnsweredInv, SeekInv, Waited, Able
    <3>3. FileSize \in Nat /\ FileSize >= 4 /\ Position(Len(file)) < FileSize
          /\ Position(Len(file)) \in Int /\ upstream.pos \in Nat
      BY <1>1, <3>2, FileIs, FileNotEmpty DEF TypeOK, UpstreamType
    <3>4. chain = "idle" /\ ~upstream.stopped
      BY <1>4, <2>2 DEF SinkEos, CanSend, AnsweredInv, AnswerInv
    <3>5. upstream.pos \in {0, FileSize - SIZE_OF_SIZE, Position(Len(file))}
          \/ upstream.pos < FileSize
      BY <1>1, <1>4, <3>4 DEF AnsweredInv, AnswerInv, TypeOK, UpstreamType
    <3>. QED BY <3>1, <3>3, <3>4, <3>5 DEF SIZE_OF_SIZE
  <2>. QED BY <2>1, <2>2
<1>. QED BY <1>2, <1>3, <1>4, AnswerFrame

\* The position of a chunk in the file, seen from chain.
LEMMA AtNats ==
  ASSUME TypeOK
  PROVE  /\ adapter.at \in Nat /\ adapter.len \in Nat /\ upstream.pos \in Nat
         /\ demux.offset \in Nat /\ demux.state \in States
         /\ upstream.discont \in BOOLEAN
BY DEF TypeOK, UpstreamType, DemuxType

\* A chunk that goes on, or the first.
LEMMA AnswerChain ==
  ASSUME PushInv, AnsweredInv, NEW n \in 1..MaxChunk, Chain(n)
  PROVE  AnsweredInv'
<1>1. TypeOK /\ ChainInv /\ AppInv /\ PushInv' /\ SeekInv /\ WayInv /\ MeetInv /\ AnswerInv
  BY KeepsChain DEF PushInv, AnsweredInv
<1>2. /\ demux' \in DemuxType /\ demux'.pad = demux.pad
      /\ Fields([demux EXCEPT !.ret = "OK"], demux') /\ demux'.ret = "OK"
      /\ demux'.offset = (IF upstream.pos = 0 THEN 0
                          ELSE IF demux.offset = 0 THEN upstream.pos ELSE demux.offset)
      /\ demux'.state = (IF request.seeking THEN "SEEK"
                         ELSE IF upstream.pos = 0 THEN "HEADER" ELSE demux.state)
      /\ adapter'.at = (IF upstream.discont \/ adapter.len = 0 THEN upstream.pos
                        ELSE adapter.at)
      /\ adapter'.len = (IF upstream.discont THEN n ELSE adapter.len + n)
      /\ n \in Nat /\ n >= 1
      /\ upstream' = [upstream EXCEPT !.pos = @ + n, !.discont = FALSE]
  BY <1>1, ChainDoes
<1>3. /\ request' = [request EXCEPT !.seeking = FALSE]
      /\ chain' = "parse" /\ chain = "idle"
      /\ UNCHANGED <<file, flags, flushing, app, seeks, restarts>>
  BY DEF Chain, CanSend
<1>4. demux'.tag = demux.tag /\ Existing(demux') = Existing(demux)
  BY <1>1, <1>2 DEF TypeOK, Fields, DemuxType, Existing
<1>5. /\ upstream'.discont = FALSE /\ upstream'.seekable = upstream.seekable
      /\ upstream'.sized = upstream.sized /\ upstream'.eos = upstream.eos
      /\ upstream'.stopped = upstream.stopped
      /\ request'.event = request.event
  BY <1>1, <1>2, <1>3 DEF TypeOK, UpstreamType, RequestType
<1>6. /\ Able' = Able /\ OnTheWay' = OnTheWay /\ Unmoved' = Unmoved /\ Waited' = Waited
  <2>1. Able' = Able
    BY <1>3, <1>5 DEF Able
  <2>2. OnTheWay' = OnTheWay
    BY <1>3, <1>5, <2>1 DEF OnTheWay
  <2>. QED BY <1>3, <1>5, <2>1, <2>2 DEF Unmoved, Waited
<1>7. Unasked => Unasked'
  <2>1. ~request'.seeking /\ request'.building = request.building
    BY <1>1, <1>3 DEF TypeOK, RequestType
  <2>. QED BY <1>2, <1>5, <2>1 DEF Unasked
<1>8. SeekInv'
  BY <1>1, <1>3, <1>4, <1>7 DEF SeekInv
<1>9. Whole'
  BY <1>1, <1>3 DEF PushInv, ChainInv
<1>10. ASSUME Unmoved, ~upstream.discont
       PROVE  /\ adapter.at > 0 /\ adapter.at = demux.offset /\ upstream.pos > 0
              /\ adapter'.at = adapter.at /\ AtState
  <2>1. /\ Whole /\ Counted /\ AtState /\ adapter.at > 0
    BY <1>1, <1>3, <1>10 DEF WayInv
  <2>2. adapter.at = demux.offset
    BY <1>1, <1>3, <2>1, AtNats DEF Counted, Swallowed
  <2>. QED BY <1>1, <1>2, <1>10, <2>1, <2>2, AtNats DEF Whole
<1>11. ASSUME Unmoved, upstream.discont
       PROVE  seeks = 0 /\ upstream.pos = 0 /\ adapter'.at = 0 /\ demux'.offset = 0
              /\ demux'.state = "HEADER" /\ Existing(demux) = {}
  <2>1. upstream.pos = 0 /\ adapter.at = 0 /\ Existing(demux) = {}
    BY <1>1, <1>11 DEF WayInv
  <2>2. seeks = 0
    BY <1>1, <1>11, <2>1 DEF Unmoved, OnTheWay, SeekInv
  <2>3. ~request.seeking
    BY <1>1, <2>2 DEF SeekInv, Unasked
  <2>. QED BY <1>2, <1>11, <2>1, <2>2, <2>3
<1>12. WayInv'
  <2>1. SUFFICES ASSUME Unmoved PROVE WayInv'
    BY <1>6 DEF WayInv
  <2>2. CASE upstream.discont
    <3>1. Counted' /\ AtState'
      BY <1>3, <1>11, <2>1, <2>2 DEF Counted, AtState, Expected
    <3>. QED BY <1>2, <1>3, <1>4, <1>5, <1>9, <1>11, <2>1, <2>2, <3>1 DEF WayInv
  <2>3. CASE ~upstream.discont
    <3>1. /\ adapter.at > 0 /\ adapter.at = demux.offset /\ upstream.pos > 0
          /\ adapter'.at = adapter.at /\ AtState
      BY <1>10, <2>1, <2>3
    <3>2. demux'.offset = demux.offset
      BY <1>1, <1>2, <3>1, AtNats
    <3>3. Counted'
      BY <1>3, <3>1, <3>2 DEF Counted
    <3>4. AtTag
      BY <1>1, <1>3, <3>1, AtTagIs, AtNats
    <3>5. AtState'
      <4>1. CASE request.seeking
        BY <1>2, <1>3, <3>1, <3>4, <4>1 DEF AtState, AtTag, FileSize
      <4>2. CASE ~request.seeking
        BY <1>1, <1>2, <1>3, <1>4, <3>1, <3>4, <4>2, AtNats
           DEF AtState, AtTag, FileSize, Expected
      <4>. QED BY <4>1, <4>2
    <3>. QED BY <1>1, <1>3, <1>5, <1>9, <3>1, <3>3, <3>5, AtNats DEF WayInv
  <2>. QED BY <2>2, <2>3
<1>13. MeetInv'
  <2>1. SUFFICES ASSUME OnTheWay, app.pc # "request" PROVE MeetInv'
    BY <1>3, <1>6 DEF MeetInv
  <2>2. Unmoved /\ seeks # 0
    BY <2>1 DEF Unmoved, OnTheWay, Able
  <2>3. upstream.pos > 0
    BY <1>10, <1>11, <2>2
  <2>4. request.seeking \/ demux.state = "SEEK"
    BY <1>1, <2>1 DEF MeetInv
  <2>5. demux'.state = "SEEK"
    BY <1>1, <1>2, <2>3, <2>4, AtNats
  <2>. QED BY <1>3, <2>5 DEF MeetInv
<1>14. AnswerInv'
  <2>1. SUFFICES ASSUME Waited PROVE AnswerInv'
    BY <1>6 DEF AnswerInv
  <2>2. ~upstream.eos /\ ~flushing /\ ~upstream.stopped /\ file # <<>>
    BY <1>1, <2>1 DEF AnswerInv, SeekInv, Waited, Able
  <2>3. /\ FileSize >= 4 /\ Position(Len(file)) \in Starts(file) /\ FileSize \in Nat
        /\ Position(Len(file)) = 3 * Len(file) - 2 /\ Len(file) >= 1
        /\ Len(file) \in Nat
    BY <1>1, <2>2, FileNotEmpty, FileIs
  <2>4. \/ demux'.state = "SEEK"
        \/ demux'.state = "HEADER" /\ adapter'.at = 0 /\ adapter'.len > 0
        \/ demux'.state = "TAG_TYPE" /\ adapter'.at \in Starts(file)
        \/ demux'.state = "TAG_SCRIPT" /\ AtState'
    <3>1. CASE upstream.discont
      <4>1. \/ upstream.pos = 0
            \/ upstream.pos = FileSize - SIZE_OF_SIZE /\ (request.seeking \/ demux.state = "SEEK")
            \/ upstream.pos = Position(Len(file)) /\ demux.state = "TAG_TYPE"
        BY <1>1, <1>3, <2>1, <3>1 DEF AnswerInv
      <4>2. adapter'.at = upstream.pos /\ adapter'.len > 0
        BY <1>2, <3>1
      <4>3. CASE upstream.pos = 0
        BY <1>2, <4>2, <4>3
      <4>4. CASE upstream.pos = FileSize - SIZE_OF_SIZE /\ (request.seeking \/ demux.state = "SEEK")
        BY <1>2, <2>3, <4>4 DEF SIZE_OF_SIZE
      <4>5. CASE upstream.pos = Position(Len(file)) /\ demux.state = "TAG_TYPE"
        BY <1>2, <2>3, <4>2, <4>5
      <4>. QED BY <4>1, <4>3, <4>4, <4>5
    <3>2. CASE ~upstream.discont
      <4>1. /\ Whole /\ upstream.pos < FileSize /\ AtState
            /\ demux.state \in {"TAG_TYPE", "TAG_SCRIPT"}
        BY <1>1, <1>3, <2>1, <3>2 DEF AnswerInv
      <4>2. adapter'.at = adapter.at /\ adapter.at <= upstream.pos
        BY <1>1, <1>2, <3>2, <4>1, AtNats DEF Whole
      <4>3. Expected(demux.state)
        BY <1>3, <4>1 DEF AtState
      <4>4. CASE request.seeking
        BY <1>2, <4>4
      <4>5. CASE ~request.seeking /\ demux.state = "TAG_TYPE"
        <5>1. adapter.at \in Starts(file)
          BY <1>1, <2>3, <4>1, <4>2, <4>3, <4>5, AtNats DEF Expected
        <5>2. adapter.at >= 1
          BY <1>1, <5>1, FileIs DEF Starts
        <5>3. upstream.pos # 0
          BY <1>1, <4>2, <5>2, AtNats
        <5>. QED BY <1>2, <4>2, <4>5, <5>1, <5>3
      <4>6. CASE ~request.seeking /\ demux.state = "TAG_SCRIPT"
        <5>1. adapter.at = Position(demux.tag) + FLV_TAG_TYPE_SIZE /\ demux.tag \in DOMAIN file
          BY <1>1, <4>3, <4>6 DEF Expected, ChainInv, TagStates
        <5>2. upstream.pos # 0
          BY <1>1, <4>2, <5>1, AtNats, FileIs DEF FLV_TAG_TYPE_SIZE
        <5>3. demux'.state = "TAG_SCRIPT"
          BY <1>2, <4>6, <5>2
        <5>4. AtState'
          BY <1>3, <1>4, <4>2, <5>1, <5>3 DEF AtState, Expected
        <5>. QED BY <5>3, <5>4
      <4>. QED BY <4>1, <4>4, <4>5, <4>6
    <3>. QED BY <3>1, <3>2
  <2>. QED BY <1>2, <1>3, <1>5, <2>2, <2>4 DEF AnswerInv
<1>. QED BY <1>8, <1>12, <1>13, <1>14 DEF AnsweredInv

\* While chain runs upstream has sent it something that is whole, and what was
\* flushed or failed was not at the start of the file.
LEMMA Running ==
  ASSUME PushInv, AnsweredInv, chain # "idle"
  PROVE  /\ ~upstream.discont /\ Whole /\ upstream.pos > 0 /\ upstream.pos <= FileSize
         /\ Unmoved => Counted /\ AtState
         /\ Unmoved /\ adapter.at = 0 => chain = "parse" /\ demux.ret = "OK"
                                         /\ demux.state = "HEADER" /\ ~flushing
         /\ OnTheWay => adapter.at # 0
<1>1. TypeOK /\ ChainInv /\ AppInv /\ SeekInv /\ WayInv
  BY DEF PushInv, AnsweredInv
<1>2. Unmoved /\ adapter.at = 0 => app.pc = "idle"
  BY <1>1 DEF WayInv, SeekInv
<1>3. OnTheWay => adapter.at # 0
  BY <1>1 DEF WayInv, SeekInv, OnTheWay, Unmoved
<1>. QED BY <1>1, <1>2, <1>3 DEF ChainInv, AppInv, WayInv

LEMMA AnswerLeave ==
  ASSUME PushInv, AnsweredInv, Leave
  PROVE  AnsweredInv'
<1>1. /\ TypeOK /\ SeekInv /\ WayInv /\ MeetInv /\ AnswerInv
      /\ chain = "parse" /\ chain' = "idle"
      /\ upstream' = [upstream EXCEPT !.stopped = TRUE]
      /\ UNCHANGED <<file, flags, demux, request, flushing, adapter, app, seeks,
                     restarts, past>>
  BY DEF PushInv, AnsweredInv, Leave
<1>0. demux.ret # "OK" \/ flushing
  BY DEF Leave
<1>2. /\ upstream'.pos = upstream.pos /\ upstream'.discont = upstream.discont
      /\ upstream'.seekable = upstream.seekable /\ upstream'.sized = upstream.sized
  BY <1>1, StoppedType DEF TypeOK
<1>3. Able' = Able /\ Unasked' = Unasked
  BY <1>1, <1>2 DEF Able, Unasked
<1>4. OnTheWay' = OnTheWay /\ Waited' = Waited
  BY <1>1, <1>3 DEF OnTheWay, Waited
<1>5. Unmoved' = Unmoved
  BY <1>1, <1>2, <1>4 DEF Unmoved
<1>6. ~Waited
  BY <1>0, <1>1 DEF AnswerInv
<1>7. SeekInv'
  BY <1>1, <1>3 DEF SeekInv
<1>8. WayInv'
  <2>1. SUFFICES ASSUME Unmoved PROVE WayInv'
    BY <1>5 DEF WayInv
  <2>2. ~upstream.discont /\ Whole /\ Counted /\ AtState
    BY <1>1, <2>1, Running
  <2>5. adapter.at # 0
    BY <1>0, <1>1, <2>1, Running
  <2>3. Whole' /\ Counted' /\ AtState'
    <3>1. Whole' /\ Counted'
      BY <1>1, <1>2, <2>2 DEF Whole, Counted, Swallowed
    <3>2. AtState'
      BY <1>1, <2>2 DEF AtState, AtTag, Expected, FileSize
    <3>. QED BY <3>1, <3>2
  <2>4. adapter'.at > 0
    BY <1>1, <2>5, AtNats
  <2>. QED BY <1>1, <1>2, <2>2, <2>3, <2>4 DEF WayInv
<1>9. MeetInv'
  BY <1>1, <1>4 DEF MeetInv
<1>. QED BY <1>4, <1>6, <1>7, <1>8, <1>9 DEF AnsweredInv, AnswerInv

LEMMA AnswerWait ==
  ASSUME PushInv, AnsweredInv, Wait
  PROVE  AnsweredInv'
<1>1. /\ TypeOK /\ ChainInv /\ SeekInv /\ WayInv /\ MeetInv /\ AnswerInv
      /\ chain = "parse" /\ chain' = "idle" /\ demux.ret = "OK" /\ ~flushing
      /\ ~(adapter.len >= Needed(demux.state))
      /\ UNCHANGED <<file, flags, demux, request, flushing, adapter, upstream, app,
                     seeks, restarts, past>>
  BY DEF PushInv, AnsweredInv, Wait, Parsing, Available
<1>2. ~upstream.discont /\ Whole /\ upstream.pos > 0 /\ upstream.pos <= FileSize
  BY <1>1, Running
<1>3. Able' = Able /\ Unasked' = Unasked /\ OnTheWay' = OnTheWay
  BY <1>1 DEF Able, Unasked, OnTheWay
<1>4. Waited' = Waited /\ Unmoved' = Unmoved
  BY <1>1, <1>3 DEF Waited, Unmoved
<1>5. AtState => AtState'
  BY <1>1 DEF AtState, AtTag, Expected, FileSize
<1>6. SeekInv'
  BY <1>1, <1>3 DEF SeekInv
<1>7. adapter.at = 0 => demux.state # "HEADER"
  BY <1>1, <1>2, AtNats DEF Needed, FLV_HEADER_SIZE, Whole
<1>8. WayInv'
  <2>1. SUFFICES ASSUME Unmoved PROVE WayInv'
    BY <1>4 DEF WayInv
  <2>2. Counted /\ AtState /\ adapter.at # 0
    BY <1>1, <1>7, <2>1, Running
  <2>3. Whole' /\ Counted' /\ AtState'
    BY <1>1, <1>2, <1>5, <2>2 DEF Whole, Counted, Swallowed
  <2>4. adapter'.at > 0
    BY <1>1, <2>2, AtNats
  <2>. QED BY <1>1, <1>2, <2>2, <2>3, <2>4 DEF WayInv
<1>9. MeetInv'
  BY <1>1, <1>3 DEF MeetInv
<1>10. AnswerInv'
  <2>1. SUFFICES ASSUME Waited PROVE AnswerInv'
    BY <1>4 DEF AnswerInv
  <2>2. ~upstream.eos /\ ~upstream.stopped
    BY <1>1, <2>1 DEF AnswerInv
  <2>3. \/ demux.state = "SEEK"
        \/ demux.state = "HEADER" /\ adapter.at = 0
        \/ demux.state = "TAG_TYPE" /\ adapter.at \in Starts(file)
        \/ demux.state = "TAG_SCRIPT" /\ AtState
    BY <1>1, <2>1 DEF AnswerInv
  <2>4. demux.state # "SEEK"
    BY <1>1, AtNats DEF Needed
  <2>5. adapter.at + adapter.len = upstream.pos /\ FileSize = 3 * Len(file) + 1
        /\ Len(file) \in Nat
    BY <1>1, <1>2, FileIs DEF Whole
  <2>6. CASE demux.state = "TAG_TYPE" /\ adapter.at \in Starts(file)
    <3>1. adapter.len = 0
      BY <1>1, <2>6, AtNats DEF Needed, FLV_TAG_TYPE_SIZE
    <3>2. \A i \in DOMAIN file : Position(i) < FileSize
      BY <1>1, <2>5, FileIs
    <3>3. adapter.at < FileSize
      BY <2>6, <3>2 DEF Starts
    <3>4. upstream.pos < FileSize
      BY <1>1, <2>5, <3>1, <3>3, AtNats
    <3>5. AtState'
      BY <1>1, <2>6 DEF AtState, Expected
    <3>6. Whole'
      BY <1>1, <1>2 DEF Whole
    <3>. QED BY <1>1, <1>2, <2>2, <2>6, <3>4, <3>5, <3>6 DEF AnswerInv, FileSize
  <2>7. CASE demux.state = "TAG_SCRIPT" /\ AtState
    <3>1. adapter.len < 2
      BY <1>1, <2>7, AtNats DEF Needed, tag_size
    <3>2. demux.tag \in DOMAIN file /\ adapter.at = Position(demux.tag) + FLV_TAG_TYPE_SIZE
      BY <1>1, <2>7 DEF ChainInv, TagStates, AtState, Expected
    <3>3. upstream.pos < FileSize
      <4>1. Position(demux.tag) = 3 * demux.tag - 2 /\ demux.tag <= Len(file)
            /\ demux.tag \in Nat
        BY <1>1, <3>2, FileIs
      <4>. QED BY <1>1, <2>5, <3>1, <3>2, <4>1, AtNats DEF FLV_TAG_TYPE_SIZE
    <3>4. Whole'
      BY <1>1, <1>2 DEF Whole
    <3>. QED BY <1>1, <1>2, <1>5, <2>2, <2>7, <3>3, <3>4 DEF AnswerInv, FileSize
  <2>. QED BY <1>7, <2>3, <2>4, <2>6, <2>7
<1>. QED BY <1>6, <1>8, <1>9, <1>10 DEF AnsweredInv

LEMMA AnswerGarble ==
  ASSUME PushInv, AnsweredInv, Garble
  PROVE  AnsweredInv'
<1>1. /\ TypeOK /\ SeekInv /\ WayInv /\ MeetInv /\ AnswerInv
      /\ chain = "parse" /\ ~Expected(demux.state)
      /\ demux.state \in TagStates \cup {"HEADER", "TAG_TYPE"}
      /\ demux' = [demux EXCEPT !.state = "TAG_TYPE"]
      /\ UNCHANGED <<file, flags, request, flushing, upstream, app, seeks, restarts>>
  BY DEF PushInv, AnsweredInv, Garble, Parsing
<1>2. demux'.state = "TAG_TYPE" /\ Existing(demux') = Existing(demux)
  BY <1>1 DEF TypeOK, DemuxType, Existing
<1>3. ~AtState
  BY <1>1 DEF AtState, TagStates
<1>4. ~Unmoved
  BY <1>1, <1>3, Running
<1>5. ~Waited
  <2>1. demux.state = "HEADER" => adapter.at # 0
    BY <1>1 DEF Expected
  <2>2. demux.state = "TAG_TYPE" => adapter.at \notin Starts(file)
    BY <1>1 DEF Expected
  <2>. QED BY <1>1, <1>3, <2>1, <2>2 DEF AnswerInv, TagStates
<1>6. Able' = Able /\ OnTheWay' = OnTheWay /\ (Unasked => Unasked')
  BY <1>1, <1>2 DEF Able, OnTheWay, Unasked
<1>7. Waited' = Waited /\ Unmoved' = Unmoved
  BY <1>1, <1>6 DEF Waited, Unmoved
<1>8. SeekInv'
  BY <1>1, <1>2, <1>6 DEF SeekInv
<1>. QED BY <1>4, <1>5, <1>7, <1>8 DEF AnsweredInv, WayInv, Unmoved, MeetInv, AnswerInv

LEMMA AnswerHeader ==
  ASSUME PushInv, AnsweredInv, ParseHeader
  PROVE  AnsweredInv'
<1>1. /\ TypeOK /\ SeekInv /\ WayInv /\ MeetInv /\ AnswerInv /\ PushInv'
      /\ chain = "parse" /\ demux.state = "HEADER"
      /\ UNCHANGED <<file, flags, request, flushing, chain, upstream, app, seeks,
                     restarts, past>>
  BY KeepsHeader DEF PushInv, AnsweredInv, ParseHeader, Parsing
<1>2. /\ demux'.state = "TAG_TYPE" /\ demux'.offset = demux.offset + 1
      /\ demux'.pad = demux.pad /\ demux'.ret = "OK"
      /\ adapter' = [at |-> adapter.at + 1, len |-> adapter.len - 1] /\ adapter.at = 0
  BY <1>1, HeaderDoes
<1>3. adapter'.at = 1 /\ Existing(demux') = Existing(demux)
  BY <1>2 DEF Existing
<1>4. Able' = Able /\ OnTheWay' = OnTheWay /\ (Unasked => Unasked')
  BY <1>1, <1>2 DEF Able, OnTheWay, Unasked
<1>5. Waited' = Waited /\ Unmoved' = Unmoved
  BY <1>1, <1>4 DEF Waited, Unmoved
<1>6. SeekInv'
  BY <1>1, <1>3, <1>4 DEF SeekInv
<1>7. Whole' /\ ~upstream'.discont
  BY <1>1 DEF PushInv, ChainInv
<1>8. file # <<>> => 1 \in Starts(file)
  BY <1>1, FileNotEmpty
<1>9. file = <<>> => FileSize = 1
  BY <1>1, FileIs
<1>10. WayInv'
  <2>1. SUFFICES ASSUME Unmoved PROVE WayInv'
    BY <1>5 DEF WayInv
  <2>2. Counted
    BY <1>1, <2>1, Running
  <2>3. Counted'
    BY <1>1, <1>2, <1>3, <2>2 DEF Counted, Swallowed
  <2>4. AtState'
    BY <1>1, <1>2, <1>3, <1>8, <1>9 DEF AtState, Expected, FileSize
  <2>. QED BY <1>1, <1>3, <1>7, <2>3, <2>4 DEF WayInv
<1>11. MeetInv'
  BY <1>1, <1>4 DEF MeetInv
<1>12. AnswerInv'
  <2>1. SUFFICES ASSUME Waited PROVE AnswerInv'
    BY <1>5 DEF AnswerInv
  <2>2. ~upstream.eos /\ ~flushing /\ ~upstream.stopped /\ file # <<>>
    BY <1>1, <2>1 DEF AnswerInv, SeekInv, Waited, Able
  <2>. QED BY <1>1, <1>2, <1>3, <1>8, <2>2 DEF AnswerInv
<1>. QED BY <1>6, <1>10, <1>11, <1>12 DEF AnsweredInv

LEMMA AnswerType ==
  ASSUME PushInv, AnsweredInv, ParseTagType
  PROVE  AnsweredInv'
<1> DEFINE i == TagAt(file, adapter.at)
<1>1. /\ TypeOK /\ ChainInv /\ SeekInv /\ WayInv /\ MeetInv /\ AnswerInv /\ PushInv'
      /\ chain = "parse" /\ chain' = "typed" /\ demux.state = "TAG_TYPE"
      /\ UNCHANGED <<file, flags, request, flushing, upstream, app, seeks, restarts, past>>
  BY KeepsType DEF PushInv, AnsweredInv, ParseTagType, Parsing
<1>2. /\ i \in DOMAIN file /\ adapter.at = Position(i) /\ demux'.tag = i
      /\ demux'.state = StateOf(file[i].type)
      /\ demux'.offset = demux.offset + 1 /\ demux'.ret = "OK"
      /\ demux'.pad = demux.pad
      /\ adapter' = [at |-> adapter.at + 1, len |-> adapter.len - 1]
  BY <1>1, TypeDoes
<1> HIDE DEF i
<1>3. /\ adapter'.at = adapter.at + 1 /\ Existing(demux') = Existing(demux)
      /\ demux'.state \in TagStates /\ demux'.state # "SEEK" /\ adapter'.at # 0
  BY <1>1, <1>2, AtNats DEF Existing, StateOf, TagStates
<1>4. Able' = Able /\ OnTheWay' = OnTheWay /\ (Unasked => Unasked')
  BY <1>1, <1>3 DEF Able, OnTheWay, Unasked
<1>5. Waited' = Waited /\ Unmoved' = Unmoved
  BY <1>1, <1>4 DEF Waited, Unmoved
<1>6. SeekInv'
  BY <1>1, <1>3, <1>4 DEF SeekInv
<1>7. Whole' /\ ~upstream'.discont
  BY <1>1 DEF PushInv, ChainInv
<1>8. AtState'
  BY <1>1, <1>2, <1>3 DEF AtState, FLV_TAG_TYPE_SIZE
<1>9. WayInv'
  <2>1. SUFFICES ASSUME Unmoved PROVE WayInv'
    BY <1>5 DEF WayInv
  <2>2. Counted
    BY <1>1, <2>1, Running
  <2>3. Counted'
    BY <1>1, <1>2, <1>3, <2>2 DEF Counted, Swallowed
  <2>. QED BY <1>1, <1>3, <1>7, <1>8, <2>3 DEF WayInv
<1>10. MeetInv'
  BY <1>1, <1>4 DEF MeetInv
<1>11. AnswerInv'
  BY <1>1, <1>2, <1>3, <1>5, <1>8 DEF AnswerInv
<1>. QED BY <1>6, <1>9, <1>10, <1>11 DEF AnsweredInv

\* A seek that is given up leaves the streams there are.
LEMMA SoughtExists ==
  ASSUME NEW d, NEW offset, SoughtTo(d, offset), d.pad = demux.pad
  PROVE  Existing(demux') = Existing(demux)
BY DEF SoughtTo, BrokenStreams, Existing, Stream

LEMMA AnswerNoIndex ==
  ASSUME PushInv, AnsweredInv, ~Unasked, NEW d \in DemuxType, d.pad = demux.pad, NoIndex(d),
         UNCHANGED <<file, app, seeks>>
  PROVE  AnsweredInv'
<1>1. TypeOK
  BY DEF PushInv
<1>2. SoughtTo(d, 0) /\ request' = [request EXCEPT !.seeking = FALSE, !.event = NoEvent]
  BY <1>1, NoIndexDoes
<1>3. request'.event = NoEvent
  BY <1>1, <1>2 DEF TypeOK, RequestType
<1>4. Existing(demux') = Existing(demux)
  BY <1>2, SoughtExists
<1>. QED BY <1>3, <1>4, AnswerGivenUp

LEMMA AnswerTyped ==
  ASSUME PushInv, AnsweredInv, TagTyped
  PROVE  AnsweredInv'
<1>1. /\ TypeOK /\ ChainInv /\ SeekInv /\ WayInv /\ MeetInv /\ AnswerInv /\ chain = "typed"
      /\ UNCHANGED <<file, flags, app, seeks, restarts>> /\ demux \in DemuxType
  BY DEF PushInv, AnsweredInv, TagTyped, TypeOK
<1>2. CASE request.event # NoEvent /\ NoIndex(demux)
  BY <1>1, <1>2, AnswerNoIndex DEF Unasked
<1>3. CASE /\ request.event = NoEvent \/ demux.state = "TAG_SCRIPT"
           /\ chain' = "parse"
           /\ UNCHANGED <<demux, request, flushing, adapter, upstream, past>>
  <2>1. Able' = Able /\ Unasked' = Unasked /\ OnTheWay' = OnTheWay
    BY <1>1, <1>3 DEF Able, Unasked, OnTheWay
  <2>2. Waited' = Waited /\ Unmoved' = Unmoved
    BY <1>1, <1>3, <2>1 DEF Waited, Unmoved
  <2>3. ~upstream.discont /\ Whole /\ (Unmoved => Counted /\ AtState)
    BY <1>1, Running
  <2>4. demux.tag \in DOMAIN file /\ demux.state \in TagStates \cup {"SEEK"}
    BY <1>1 DEF ChainInv
  <2>5. ASSUME AtState PROVE AtState' /\ adapter.at # 0
    <3>1. adapter.at = Position(demux.tag) + FLV_TAG_TYPE_SIZE
      BY <1>1, <2>5 DEF AtState
    <3>2. adapter.at # 0
      BY <1>1, <2>4, <3>1, AtNats, FileIs DEF FLV_TAG_TYPE_SIZE
    <3>3. CASE demux.state = "SEEK"
      BY <1>1, <1>3, <2>4, <3>1, <3>2, <3>3 DEF AtState, AtTag, FileSize
    <3>4. CASE demux.state \in TagStates
      BY <1>1, <1>3, <3>1, <3>2, <3>4 DEF AtState, Expected, TagStates, FileSize
    <3>. QED BY <2>4, <3>2, <3>3, <3>4
  <2>6. SeekInv'
    BY <1>1, <1>3, <2>1 DEF SeekInv
  <2>7. WayInv'
    <3>1. SUFFICES ASSUME Unmoved PROVE WayInv'
      BY <2>2 DEF WayInv
    <3>2. Whole' /\ Counted' /\ AtState' /\ adapter.at # 0
      BY <1>1, <1>3, <2>3, <2>5, <3>1 DEF Whole, Counted, Swallowed
    <3>. QED BY <1>3, <2>3, <3>2 DEF WayInv
  <2>8. MeetInv'
    <3>1. SUFFICES ASSUME OnTheWay, app.pc # "request" PROVE MeetInv'
      BY <1>1, <2>1 DEF MeetInv
    <3>2. request.seeking
      BY <1>1, <3>1 DEF MeetInv
    <3>. QED BY <1>3, <3>2 DEF MeetInv
  <2>9. AnswerInv'
    <3>1. SUFFICES ASSUME Waited PROVE AnswerInv'
      BY <2>2 DEF AnswerInv
    <3>2. /\ ~upstream.eos /\ ~flushing /\ ~upstream.stopped /\ demux.ret = "OK" /\ AtState
      BY <1>1, <3>1 DEF AnswerInv
    <3>3. demux.state = "TAG_SCRIPT"
      BY <1>3, <3>1 DEF Waited
    <3>. QED BY <1>3, <2>5, <3>2, <3>3 DEF AnswerInv
  <2>. QED BY <2>6, <2>7, <2>8, <2>9 DEF AnsweredInv
<1>. QED BY <1>2, <1>3 DEF TagTyped

LEMMA AnswerTake ==
  ASSUME PushInv, AnsweredInv, NEW flow \in Returned, TakeTag(flow)
  PROVE  AnsweredInv'
<1>1. TypeOK /\ ChainInv /\ SeekInv /\ WayInv /\ MeetInv /\ AnswerInv /\ PushInv'
  BY KeepsTake DEF PushInv, AnsweredInv
<1>2. /\ TagDoes(demux', flow) /\ demux.tag \in DOMAIN file /\ demux.state \in TagStates
      /\ chain = "parse" /\ chain' = "parsed"
      /\ adapter' = [at |-> adapter.at + 2, len |-> adapter.len - 2]
      /\ adapter.at = Position(demux.tag) + FLV_TAG_TYPE_SIZE
      /\ UNCHANGED <<file, flags, request, flushing, upstream, app, seeks, restarts, past>>
  BY <1>1, TakeDoes
<1>3. /\ demux'.state = demux.state /\ demux'.offset = demux.offset /\ demux'.tag = demux.tag
      /\ demux.state # "SEEK"
  BY <1>2 DEF TagDoes, SamePlace, TagStates
<1>4. Existing(demux) \subseteq Existing(demux')
  <2>1. CASE file[demux.tag].type \in Streams
    BY <1>2, <2>1 DEF TagDoes, MediaDoes, OnlyPad, Existing
  <2>2. CASE file[demux.tag].type \notin Streams
    BY <1>2, <2>2 DEF TagDoes, Existing
  <2>. QED BY <2>1, <2>2
<1>5. Able' = Able /\ Unasked' = Unasked /\ OnTheWay' = OnTheWay
  BY <1>2, <1>3 DEF Able, Unasked, OnTheWay
<1>6. Waited' = Waited /\ Unmoved' = Unmoved
  BY <1>2, <1>5 DEF Waited, Unmoved
<1>7. SeekInv'
  BY <1>1, <1>2, <1>4, <1>5 DEF SeekInv
<1>8. adapter'.at = adapter.at + 2 /\ adapter'.at # 0
  BY <1>1, <1>2, AtNats
<1>9. AtState'
  <2>1. adapter'.at = Position(demux.tag + 1)
    BY <1>1, <1>2, <1>8, FileIs DEF FLV_TAG_TYPE_SIZE
  <2>. QED BY <1>2, <1>3, <2>1 DEF AtState
<1>10. WayInv'
  <2>1. SUFFICES ASSUME Unmoved PROVE WayInv'
    BY <1>6 DEF WayInv
  <2>2. Whole' /\ ~upstream'.discont
    BY <1>1, <1>2 DEF PushInv, ChainInv
  <2>3. Counted
    BY <1>1, <1>2, <2>1, Running
  <2>4. Counted'
    BY <1>2, <1>3, <1>8, <2>3 DEF Counted, Swallowed, tag_size
  <2>. QED BY <1>2, <1>8, <1>9, <2>2, <2>4 DEF WayInv
<1>11. MeetInv'
  <2>1. SUFFICES ASSUME OnTheWay, app.pc # "request" PROVE MeetInv'
    BY <1>2, <1>5 DEF MeetInv
  <2>2. request.seeking
    BY <1>1, <1>3, <2>1 DEF MeetInv
  <2>. QED BY <1>2, <2>2 DEF MeetInv
<1>12. AnswerInv'
  <2>1. SUFFICES ASSUME Waited PROVE AnswerInv'
    BY <1>6 DEF AnswerInv
  <2>2. /\ ~upstream.eos /\ ~flushing /\ ~upstream.stopped /\ demux.state = "TAG_SCRIPT"
    BY <1>1, <1>2, <2>1 DEF AnswerInv, TagStates
  <2>3. file[demux.tag].type = "script"
    BY <1>1, <1>2, <2>2 DEF ChainInv, StateOf
  <2>4. demux'.ret = "OK"
    BY <1>2, <2>3 DEF TagDoes, Streams
  <2>. QED BY <1>2, <1>3, <2>2, <2>3, <2>4 DEF AnswerInv
<1>. QED BY <1>7, <1>10, <1>11, <1>12 DEF AnsweredInv

LEMMA AnswerParsed ==
  ASSUME PushInv, AnsweredInv, TagParsed
  PROVE  AnsweredInv'
<1>1. /\ TypeOK /\ ChainInv /\ SeekInv /\ WayInv /\ MeetInv /\ AnswerInv /\ chain = "parsed"
      /\ UNCHANGED <<file, flags, app, seeks, restarts>>
  BY DEF PushInv, AnsweredInv, TagParsed
<1>2. /\ Behind \in DemuxType /\ Fields(demux, Behind) /\ Behind.pad = demux.pad
      /\ Behind.offset = demux.offset + 2
      /\ Behind.state = IF file[demux.tag].type = "script" /\ request.event # NoEvent
                           /\ demux.indexed THEN "SEEK" ELSE "TAG_TYPE"
  BY <1>1, BehindDoes
<1>3. CASE request.event # NoEvent /\ NoIndex(Behind)
  BY <1>1, <1>2, <1>3, AnswerNoIndex DEF Unasked
<1>4. CASE /\ ~(file[demux.tag].type = "script" /\ request.event # NoEvent /\ ~demux.indexed)
           /\ demux' = Behind /\ chain' = "parse"
           /\ UNCHANGED <<request, flushing, adapter, upstream, past>>
  <2>1. /\ demux'.ret = demux.ret /\ demux'.tag = demux.tag
        /\ Existing(demux') = Existing(demux) /\ demux'.offset = demux.offset + 2
        /\ demux'.state \in {"SEEK", "TAG_TYPE"}
        /\ request.event = NoEvent => demux'.state # "SEEK"
    BY <1>2, <1>4 DEF Fields, Existing
  <2>2. Able' = Able /\ (Unasked => Unasked') /\ OnTheWay' = OnTheWay
    BY <1>1, <1>4, <2>1 DEF Able, Unasked, OnTheWay
  <2>3. Waited' = Waited /\ Unmoved' = Unmoved
    BY <1>1, <1>4, <2>2 DEF Waited, Unmoved
  <2>4. ~upstream.discont /\ Whole /\ (Unmoved => Counted /\ AtState)
    BY <1>1, Running
  <2>5. demux.tag \in DOMAIN file
    BY <1>1 DEF ChainInv
  <2>6. ASSUME Unmoved PROVE AtState' /\ adapter.at # 0
    <3>1. adapter.at = Position(demux.tag + 1)
      BY <1>1, <2>4, <2>6 DEF AtState
    <3>2. adapter.at # 0
      BY <1>1, <2>5, <3>1, AtNats, FileIs
    <3>3. adapter.at \in Starts(file) \cup {FileSize}
      <4>1. CASE demux.tag = Len(file)
        BY <3>1, <4>1 DEF FileSize, Size
      <4>2. CASE demux.tag # Len(file)
        <5>1. demux.tag + 1 \in DOMAIN file
          BY <1>1, <2>5, <4>2, FileIs
        <5>. QED BY <3>1, <5>1 DEF Starts
      <4>. QED BY <4>1, <4>2
    <3>4. AtState'
      BY <1>1, <1>4, <2>1, <3>3 DEF AtState, AtTag, Expected, FileSize
    <3>. QED BY <3>2, <3>4
  <2>7. SeekInv'
    BY <1>1, <2>1, <2>2 DEF SeekInv
  <2>8. WayInv'
    <3>1. SUFFICES ASSUME Unmoved PROVE WayInv'
      BY <2>3 DEF WayInv
    <3>2. adapter.at = demux.offset + 2
      BY <1>1, <2>4, <2>6, <3>1 DEF Counted, Swallowed, tag_size
    <3>3. Counted' /\ Whole'
      BY <1>4, <2>1, <2>4, <3>2 DEF Counted, Whole
    <3>. QED BY <1>4, <2>4, <2>6, <3>1, <3>3 DEF WayInv
  <2>9. MeetInv'
    <3>1. SUFFICES ASSUME OnTheWay, app.pc # "request" PROVE MeetInv'
      BY <1>1, <2>2 DEF MeetInv
    <3>2. request.seeking
      BY <1>1, <3>1 DEF MeetInv
    <3>. QED BY <1>4, <3>2 DEF MeetInv
  <2>10. AnswerInv'
    <3>1. SUFFICES ASSUME Waited PROVE AnswerInv'
      BY <2>3 DEF AnswerInv
    <3>2. /\ ~upstream.eos /\ ~flushing /\ ~upstream.stopped /\ demux.ret = "OK"
          /\ file[demux.tag].type = "script" /\ request.event # NoEvent
      BY <1>1, <3>1 DEF AnswerInv, Waited
    <3>3. demux'.state = "SEEK"
      BY <1>2, <1>4, <3>2
    <3>. QED BY <1>4, <2>1, <3>2, <3>3 DEF AnswerInv
  <2>. QED BY <2>7, <2>8, <2>9, <2>10 DEF AnsweredInv
<1>. QED BY <1>1, <1>3, <1>4, ParsedDoes

LEMMA AnswerLastTag ==
  ASSUME PushInv, AnsweredInv, SeekLastTag
  PROVE  AnsweredInv'
<1>1. /\ TypeOK /\ ChainInv /\ AppInv /\ SeekInv /\ WayInv /\ AnswerInv /\ chain = "parse"
      /\ demux \in DemuxType /\ demux.state = "SEEK"
      /\ UNCHANGED <<file, flags, app, seeks, restarts>>
  BY DEF PushInv, AnsweredInv, SeekLastTag, TypeOK, Parsing
<1>2. ~Unasked
  BY <1>1 DEF Unasked
<1>3. CASE NoIndex(demux)
  BY <1>1, <1>2, <1>3, AnswerNoIndex
<1> DEFINE d == [demux EXCEPT !.state = "TAG_TYPE"]
<1>4. CASE /\ demux.offset = demux.file_size - SIZE_OF_SIZE
           /\ d \in DemuxType /\ d.pad = demux.pad
           /\ d.state = "TAG_TYPE" /\ d.offset = demux.offset
           /\ chain' = "idle" /\ UNCHANGED <<request, past>>
           /\ file # <<>> => SoughtTo(d, Position(Len(file)))
  <2>. HIDE DEF d
  <2>1. file # <<>> /\ seeks # 0
    BY <1>1, <1>2 DEF SeekInv
  <2>2. SoughtTo(d, Position(Len(file)))
    BY <1>4, <2>1
  <2>3. Existing(demux') = Existing(demux)
    BY <1>4, <2>2, SoughtExists
  <2>4. SeekInv'
    BY <1>1, <1>2, <2>1, <2>3 DEF SeekInv
  <2>5. ASSUME OnTheWay PROVE FALSE
    <3>1. Unmoved
      BY <2>5 DEF Unmoved
    <3>2. adapter.at # 0 /\ Counted /\ AtState
      BY <1>1, <2>5, <3>1, Running
    <3>3. adapter.at = demux.offset
      BY <1>1, <3>2 DEF Counted, Swallowed
    <3>4. demux.file_size = FileSize
      BY <1>1, <1>4, <3>3, AtNats DEF AppInv, SIZE_OF_SIZE
    <3>5. AtTag
      BY <1>1, <3>2 DEF AtState
    <3>. QED BY <1>1, <1>4, <3>3, <3>4, <3>5, LastBytes
  <2>6. upstream'.seekable = upstream.seekable /\ upstream'.sized = upstream.sized
    <3>1. Position(Len(file)) \in Nat
      BY <1>1, <2>1, FileNotEmpty, FileIs
    <3>2. CASE upstream.seekable
      <4>1. upstream' = Moved(Position(Len(file))) /\ upstream \in UpstreamType
        BY <1>1, <2>2, <3>2 DEF SoughtTo, TypeOK
      <4>. QED BY <3>1, <4>1, MovedType
    <3>3. CASE ~upstream.seekable
      BY <2>2, <3>3 DEF SoughtTo
    <3>. QED BY <3>2, <3>3
  <2>7. Able' = Able
    BY <1>1, <2>6 DEF Able
  <2>8. OnTheWay' = OnTheWay /\ Waited' = Waited
    BY <1>1, <1>4, <2>7 DEF OnTheWay, Waited
  <2>9. ~Unmoved' /\ ~OnTheWay'
    BY <1>1, <2>1, <2>5, <2>8 DEF Unmoved
  <2>10. AnswerInv'
    <3>1. SUFFICES ASSUME Waited PROVE AnswerInv'
      BY <2>8 DEF AnswerInv
    <3>2. upstream.seekable
      BY <3>1 DEF Waited, Able
    <3>3. Position(Len(file)) \in Nat
      BY <1>1, <2>1, FileNotEmpty, FileIs
    <3>4. /\ upstream' = Moved(Position(Len(file))) /\ flushing' = FALSE
          /\ demux'.state = "TAG_TYPE"
      BY <1>4, <2>2, <3>2 DEF SoughtTo
    <3>5. /\ upstream'.eos = FALSE /\ upstream'.stopped = FALSE /\ upstream'.discont = TRUE
          /\ upstream'.pos = Position(Len(file))
      BY <1>1, <3>3, <3>4, MovedType DEF TypeOK
    <3>. QED BY <1>1, <1>4, <3>4, <3>5 DEF AnswerInv
  <2>. QED BY <2>4, <2>9, <2>10 DEF AnsweredInv, WayInv, MeetInv
<1>. QED BY <1>3, <1>4, LastTagDoes

LEMMA AnswerServe ==
  ASSUME PushInv, AnsweredInv, ServeSeek
  PROVE  AnsweredInv'
<1>1. TypeOK /\ AppInv
  BY DEF PushInv
<1>2. /\ demux.state = "SEEK" /\ ~flushing
      /\ request' = [request EXCEPT !.event = NoEvent] /\ request' \in RequestType
      /\ Found \/ NotFound
      /\ UNCHANGED <<file, flags, app, seeks, restarts>>
  BY <1>1, ServeSeekDoes
<1>3. request'.event = NoEvent /\ ~Unasked
  <2>1. request'.event = NoEvent
    <3>1. request \in RequestType /\ request' = [request EXCEPT !.event = NoEvent]
      BY <1>1, <1>2 DEF TypeOK
    <3>. QED BY <3>1 DEF RequestType
  <2>. QED BY <1>2, <2>1 DEF Unasked
<1>4. Existing(demux') = Existing(demux)
  BY <1>1, <1>2, ServedIs, StreamsExist
<1>. QED BY <1>2, <1>3, <1>4, AnswerGivenUp

LEMMA AnswerSeek ==
  ASSUME PushInv, AnsweredInv, NEW ev \in Events, Seek(ev)
  PROVE  AnsweredInv'
<1>1. TypeOK /\ AppInv /\ SeekInv /\ WayInv
  BY DEF PushInv, AnsweredInv
<1>2. /\ app.pc = "idle" /\ Existing(demux) # {} /\ seeks' = seeks + 1
      /\ app'.kind = "build" => app'.pc = "request"
      /\ UNCHANGED <<file, flags, demux, request, flushing, adapter, chain, upstream,
                     restarts, past>>
  BY <1>1, SeekDoes
<1>3. seeks \in Nat /\ file # <<>>
  BY <1>1, <1>2 DEF TypeOK, AppInv
<1>4. seeks' = 1 => seeks = 0 /\ Unasked
  BY <1>1, <1>2, <1>3 DEF SeekInv
<1>5. seeks' # 0 /\ Unasked' = Unasked
  BY <1>2, <1>3 DEF Unasked
<1>6. SeekInv'
  BY <1>2, <1>3, <1>4, <1>5 DEF SeekInv
<1>7. ~Waited' /\ (OnTheWay' => app'.pc = "request" /\ seeks = 0 /\ upstream.seekable)
  BY <1>2, <1>4 DEF Waited, OnTheWay, Able, Unasked
<1>8. WayInv'
  <2>1. SUFFICES ASSUME Unmoved' PROVE WayInv'
    BY DEF WayInv
  <2>2. Unmoved
    BY <1>5, <1>7, <2>1 DEF Unmoved
  <2>3. /\ Whole' = Whole /\ Counted' = Counted /\ AtState' = AtState
    BY <1>2 DEF Whole, Counted, Swallowed, AtState, AtTag, Expected, FileSize
  <2>. QED BY <1>1, <1>2, <2>2, <2>3 DEF WayInv
<1>9. MeetInv'
  BY <1>7 DEF MeetInv
<1>. QED BY <1>6, <1>7, <1>8, <1>9 DEF AnsweredInv, AnswerInv

LEMMA AnswerRequest ==
  ASSUME PushInv, AnsweredInv, Request
  PROVE  AnsweredInv'
<1>1. TypeOK /\ ChainInv /\ AppInv /\ SeekInv /\ WayInv
  BY DEF PushInv, AnsweredInv
<1>2. /\ app.pc = "request" /\ app.kind = "build"
      /\ request' = [seeking |-> TRUE, event |-> app.event, building |-> TRUE]
      /\ demux' \in DemuxType /\ demux'.pad = demux.pad /\ demux'.state = "SEEK"
      /\ Fields([demux EXCEPT !.file_size = demux'.file_size], demux')
      /\ demux'.offset = demux.offset
      /\ UNCHANGED <<file, flags, flushing, adapter, chain, upstream, seeks, restarts, past>>
  BY RequestDoes
<1>3. \/ /\ app'.pc = "idle"
         /\ request.building \/ ~upstream.sized
      \/ app'.pc = "flush" /\ app'.kind = "build"
  BY RequestDoes, IdleType
<1>4. /\ demux'.tag = demux.tag /\ demux'.ret = demux.ret /\ Existing(demux') = Existing(demux)
      /\ request'.seeking
  BY <1>1, <1>2 DEF TypeOK, DemuxType, Fields, Existing
<1>5. Able' = Able /\ seeks # 0 /\ Existing(demux) # {}
  BY <1>1, <1>2 DEF Able, SeekInv
<1>6. SeekInv'
  BY <1>1, <1>2, <1>3, <1>4, <1>5 DEF SeekInv
<1>7. WayInv'
  <2>1. SUFFICES ASSUME Unmoved' PROVE WayInv'
    BY DEF WayInv
  <2>2. OnTheWay /\ Unmoved
    BY <1>2, <1>5, <2>1 DEF Unmoved, OnTheWay
  <2>3. /\ ~upstream.discont /\ Whole /\ Counted /\ AtState /\ adapter.at # 0
        /\ chain = "idle" => adapter.at > 0
    BY <1>1, <1>5, <2>2 DEF WayInv
  <2>4. Whole' /\ Counted'
    BY <1>2, <2>3 DEF Whole, Counted, Swallowed
  <2>5. AtState'
    <3>1. CASE chain \in {"idle", "parse"}
      <4>1. AtTag
        BY <1>1, <2>3, <3>1, AtTagIs
      <4>. QED BY <1>2, <3>1, <4>1 DEF AtState, AtTag, FileSize
    <3>2. CASE chain \in {"typed", "parsed"}
      BY <1>2, <1>4, <2>3, <3>2 DEF AtState
    <3>. QED BY <1>1, <3>1, <3>2 DEF TypeOK
  <2>. QED BY <1>2, <2>3, <2>4, <2>5 DEF WayInv
<1>8. MeetInv'
  BY <1>4 DEF MeetInv
<1>9. ~Waited'
  <2>1. SUFFICES ASSUME Waited' PROVE FALSE
    OBVIOUS
  <2>2. seeks = 1 /\ upstream.sized /\ app'.pc # "flush"
    BY <1>2, <2>1 DEF Waited, Able
  <2>3. ~request.building
    BY <1>1, <1>2, <2>2 DEF SeekInv, Unasked
  <2>. QED BY <1>3, <2>2, <2>3
<1>. QED BY <1>6, <1>7, <1>8, <1>9 DEF AnsweredInv, AnswerInv

LEMMA AnswerRefused ==
  ASSUME PushInv, AnsweredInv, AppRefused
  PROVE  AnsweredInv'
<1>1. TypeOK /\ SeekInv
  BY DEF PushInv, AnsweredInv
<1>2. /\ app.pc \in {"flush", "jump"} /\ ~upstream.seekable /\ app'.pc = "idle"
      /\ UNCHANGED <<file, request, flushing, adapter, chain, upstream, seeks>>
  BY <1>1, RefusedDoes, IdleType
<1>3. seeks # 0 /\ file # <<>>
  BY <1>1, <1>2 DEF SeekInv
<1>4. SeekInv'
  BY <1>2, <1>3 DEF SeekInv
<1>5. ~Able'
  BY <1>2 DEF Able
<1>. QED BY <1>2, <1>3, <1>4, <1>5
     DEF AnsweredInv, WayInv, Unmoved, OnTheWay, MeetInv, AnswerInv, Waited

LEMMA AnswerFlushStart ==
  ASSUME PushInv, AnsweredInv, FlushStart
  PROVE  AnsweredInv'
<1>1. TypeOK /\ SeekInv /\ WayInv /\ MeetInv
  BY DEF PushInv, AnsweredInv
<1>2. /\ app.pc = "flush" /\ upstream'.discont = upstream.discont
      /\ upstream'.pos = upstream.pos /\ upstream'.seekable = upstream.seekable
      /\ upstream'.sized = upstream.sized
      /\ app'.pc = "stop" /\ app'.kind = app.kind
      /\ UNCHANGED <<file, flags, demux, request, adapter, chain, seeks, restarts, past>>
  BY <1>1, FlushStartDoes
<1>3. Able' = Able /\ Unasked' = Unasked
  BY <1>2 DEF Able, Unasked
<1>4. OnTheWay' => OnTheWay
  BY <1>2, <1>3 DEF OnTheWay
<1>5. Unmoved' => Unmoved
  BY <1>2, <1>4 DEF Unmoved
<1>6. ~Waited'
  BY <1>2 DEF Waited
<1>7. SeekInv'
  BY <1>1, <1>2, <1>3 DEF SeekInv
<1>8. Whole' = Whole /\ Counted' = Counted /\ AtState' = AtState
  BY <1>2 DEF Whole, Counted, Swallowed, AtState, AtTag, Expected, FileSize
<1>9. WayInv'
  BY <1>1, <1>2, <1>5, <1>8 DEF WayInv
<1>10. MeetInv'
  BY <1>1, <1>2, <1>4 DEF MeetInv
<1>. QED BY <1>6, <1>7, <1>9, <1>10 DEF AnsweredInv, AnswerInv

\* Upstream is at the last four bytes, and chain is still to look there.
LEMMA AnswerFlushEnds ==
  ASSUME PushInv, AnsweredInv, FlushEnds
  PROVE  AnsweredInv'
<1>1. TypeOK /\ AppInv /\ SeekInv /\ MeetInv
  BY DEF PushInv, AnsweredInv
<1>2. /\ app.pc = "stop" /\ chain = "idle" /\ Flushes(demux, demux')
      /\ Existing(demux') = Existing(demux)
      /\ flushing' = FALSE /\ upstream' = Moved(app.offset) /\ app.offset \in Nat
      /\ app'.pc = "assign" /\ app'.kind = app.kind
      /\ UNCHANGED <<file, flags, request, chain, seeks, restarts>>
  BY <1>1, FlushEndsDoes
<1>3. /\ upstream'.pos = app.offset /\ upstream'.discont = TRUE
      /\ upstream'.seekable = upstream.seekable /\ upstream'.sized = upstream.sized
      /\ upstream'.eos = FALSE /\ upstream'.stopped = FALSE
  BY <1>1, <1>2, MovedType DEF TypeOK
<1>4. seeks # 0
  BY <1>1, <1>2 DEF SeekInv
<1>5. demux'.state = "SEEK" <=> demux.state = "SEEK"
  BY <1>2 DEF Flushes
<1>6. Able' = Able /\ Unasked' = Unasked
  BY <1>2, <1>3, <1>5 DEF Able, Unasked
<1>7. SeekInv'
  BY <1>1, <1>2, <1>4, <1>6 DEF SeekInv
<1>8. ~OnTheWay' /\ ~Unmoved'
  BY <1>2, <1>4 DEF OnTheWay, Unmoved
<1>9. AnswerInv'
  <2>1. SUFFICES ASSUME Waited' PROVE AnswerInv'
    BY DEF AnswerInv
  <2>2. Able /\ request.event # NoEvent /\ seeks = 1
    BY <1>2, <1>6, <2>1 DEF Waited, Able
  <2>3. app.kind = "build"
    BY <1>1, <1>2, <2>2 DEF SeekInv, Unasked
  <2>4. request.seeking \/ demux.state = "SEEK"
    BY <1>1, <1>2, <2>2, <2>3 DEF MeetInv, OnTheWay
  <2>5. upstream'.pos = FileSize' - SIZE_OF_SIZE
    BY <1>1, <1>2, <1>3, <2>3 DEF AppInv, FileSize
  <2>. QED BY <1>2, <1>3, <1>5, <2>4, <2>5 DEF AnswerInv
<1>. QED BY <1>7, <1>8, <1>9 DEF AnsweredInv, WayInv, MeetInv

LEMMA AnswerJump ==
  ASSUME PushInv, AnsweredInv, Jump
  PROVE  AnsweredInv'
<1>1. TypeOK /\ AppInv /\ SeekInv
  BY DEF PushInv, AnsweredInv
<1>2. /\ app.pc = "jump" /\ app'.pc = "assign" /\ app'.kind = app.kind
      /\ UNCHANGED <<file, demux, request, chain, seeks>>
  BY <1>1, JumpDoes
<1>3. app.kind # "build" /\ seeks # 0 /\ Unasked' = Unasked
  BY <1>1, <1>2 DEF AppInv, SeekInv, Unasked
<1>4. SeekInv'
  BY <1>1, <1>2, <1>3 DEF SeekInv
<1>5. ~OnTheWay' /\ ~Unmoved'
  BY <1>2, <1>3 DEF OnTheWay, Unmoved
<1>6. ~Waited'
  BY <1>1, <1>2, <1>3 DEF Waited, Able, SeekInv, Unasked
<1>. QED BY <1>4, <1>5, <1>6 DEF AnsweredInv, WayInv, MeetInv, AnswerInv

LEMMA AnswerAssign ==
  ASSUME PushInv, AnsweredInv, Assign
  PROVE  AnsweredInv'
<1>1. TypeOK /\ AppInv /\ SeekInv /\ AnswerInv
  BY DEF PushInv, AnsweredInv
<1>2. /\ app.pc = "assign" /\ app'.pc = "idle"
      /\ Fields(demux, demux') /\ demux'.state = demux.state
      /\ UNCHANGED <<file, flags, request, flushing, adapter, chain, upstream, seeks,
                     restarts, past>>
  BY <1>1, AssignDoes, IdleType
<1>3. demux'.tag = demux.tag /\ demux'.ret = demux.ret /\ seeks # 0
  BY <1>1, <1>2 DEF Fields, SeekInv
<1>4. SeekInv'
  BY <1>1, <1>2, <1>3 DEF SeekInv
<1>5. ~OnTheWay' /\ ~Unmoved'
  BY <1>2, <1>3 DEF OnTheWay, Unmoved
<1>6. Waited' => Waited
  BY <1>2 DEF Waited, Able
<1>7. AtState' = AtState /\ Whole' = Whole
  BY <1>2, <1>3 DEF AtState, AtTag, Expected, FileSize, Whole
<1>8. AnswerInv'
  BY <1>1, <1>2, <1>3, <1>6, <1>7 DEF AnswerInv, FileSize
<1>. QED BY <1>4, <1>5, <1>8 DEF AnsweredInv, WayInv, MeetInv

LEMMA AnswerRestart ==
  ASSUME PushInv, AnsweredInv, Restart
  PROVE  AnsweredInv'
<1>1. TypeOK /\ AppInv /\ SeekInv
  BY DEF PushInv, AnsweredInv
<1>2. /\ app.pc = "idle" /\ chain = "idle" /\ flushing' = FALSE
      /\ demux'.state = "HEADER" /\ Existing(demux') = {}
      /\ adapter' = [at |-> 0, len |-> 0]
      /\ upstream'.pos = 0 /\ upstream'.discont = TRUE
      /\ upstream'.eos = FALSE /\ upstream'.stopped = FALSE
      /\ UNCHANGED <<file, flags, request, chain, app, seeks>>
  BY <1>1, RestartDoes
<1>3. Unasked => Unasked'
  BY <1>2 DEF Unasked
<1>4. SeekInv'
  BY <1>1, <1>2, <1>3 DEF SeekInv
<1>5. ~OnTheWay'
  BY <1>2 DEF OnTheWay
<1>6. WayInv'
  BY <1>2 DEF WayInv
<1>7. AnswerInv'
  BY <1>2 DEF AnswerInv
<1>. QED BY <1>4, <1>5, <1>6, <1>7 DEF AnsweredInv, MeetInv

LEMMA AnswerInit ==
  ASSUME Init
  PROVE  AnsweredInv
<1>1. /\ demux = NewDemux /\ request = NoRequest /\ adapter.at = 0 /\ chain = "idle"
      /\ upstream.pos = 0 /\ upstream.discont /\ app.pc = "idle" /\ seeks = 0
  BY IdleType DEF Init
<1>2. Unasked /\ Existing(demux) = {}
  BY <1>1 DEF Unasked, NoRequest, NewDemux, NewPad, Existing
<1>3. ~OnTheWay /\ ~Waited
  BY <1>1 DEF OnTheWay, Waited, Able
<1>4. SeekInv /\ WayInv
  BY <1>1, <1>2 DEF SeekInv, WayInv
<1>. QED BY <1>3, <1>4 DEF AnsweredInv, MeetInv, AnswerInv

LEMMA AnswerStutter ==
  ASSUME AnsweredInv, UNCHANGED vars
  PROVE  AnsweredInv'
BY AnswerFrame DEF vars, Fields, Existing

LEMMA AnswerStep ==
  ASSUME PushInv, AnsweredInv, [Next]_vars
  PROVE  AnsweredInv'
<1>1. CASE UNCHANGED vars
  BY <1>1, AnswerStutter
<1>2. CASE Steps
  <2>1. CASE Segment \/ SinkEos \/ \E n \in 1..MaxChunk : Chain(n)
    BY <2>1, AnswerUpstream, AnswerChain
  <2>2. CASE Leave \/ Wait \/ Garble \/ ParseHeader \/ ParseTagType \/ TagTyped
    BY <2>2, AnswerLeave, AnswerWait, AnswerGarble, AnswerHeader, AnswerType, AnswerTyped
  <2>3. CASE TagParsed \/ SeekLastTag \/ ServeSeek \/ \E flow \in Returned : TakeTag(flow)
    BY <2>3, AnswerParsed, AnswerLastTag, AnswerServe, AnswerTake
  <2>4. CASE Request \/ AppRefused \/ FlushStart \/ FlushEnds \/ Jump \/ Assign
    BY <2>4, AnswerRequest, AnswerRefused, AnswerFlushStart, AnswerFlushEnds, AnswerJump,
       AnswerAssign
  <2>5. CASE Restart \/ \E ev \in Events : Seek(ev)
    BY <2>5, AnswerRestart, AnswerSeek
  <2>. QED BY <1>2, <2>1, <2>2, <2>3, <2>4, <2>5 DEF Steps
<1>. QED BY <1>1, <1>2, NextIs

\* The seek for which the index is first wanted is served or given up before
\* playback is over, wherever chain was when it came: until upstream is moved
\* for it chain reads on from the start of the file, in step with its adapter,
\* and from then on there is always a chunk to come or one to parse until chain
\* has the index or finds that there is none.
THEOREM FirstSeekAnswered == Spec => []SeekAnswered
<1>1. Init => PushInv /\ AnsweredInv
  BY PushInit, AnswerInit
<1>2. PushInv /\ AnsweredInv /\ [Next]_vars => (PushInv /\ AnsweredInv)'
  BY PushStep, AnswerStep
<1>3. AnsweredInv => SeekAnswered
  BY DEF AnsweredInv, AnswerInv, Waited, Able, SeekAnswered
<1>. QED BY <1>1, <1>2, <1>3, PTL DEF Spec

---------------------------------------------------------------------------
(* The streams: an upstream that cannot seek. *)

\* Steps that leave chain where it is.
LEMMA FixedFrame ==
  ASSUME FixedInv, UNCHANGED <<file, adapter, chain>>,
         demux'.tag = demux.tag, demux'.ret = demux.ret, demux'.state = demux.state,
         demux'.offset = demux.offset,
         upstream'.pos = upstream.pos, upstream'.discont = upstream.discont,
         upstream'.seekable = upstream.seekable, past'.stayed = past.stayed,
         app'.pc = "assign" => app'.kind = "stay" \/ app' = app
  PROVE  FixedInv'
<1>1. Whole' = Whole /\ Swallowed' = Swallowed /\ Counted' = Counted /\ AtTag' = AtTag
  BY DEF Whole, Swallowed, Counted, AtTag, FileSize
<1>2. AtState' = AtState
  BY <1>1 DEF AtState, Expected, FileSize
<1>3. upstream.seekable => FixedInv'
  BY DEF FixedInv
<1>4. CASE ~upstream.seekable
  <2>1. app'.pc = "assign" => app'.kind # "build"
    BY <1>4 DEF FixedInv
  <2>2. ~past'.stayed /\ ~upstream'.discont =>
         /\ Whole'
         /\ Swallowed' \/ (Counted' /\ AtState' /\ (chain' = "idle" => adapter'.at > 0))
    BY <1>1, <1>2, <1>4 DEF FixedInv
  <2>3. ~past'.stayed /\ chain' # "idle" /\ adapter'.at = 0 =>
         chain' = "parse" /\ demux'.ret = "OK" /\ demux'.state \in {"HEADER", "SEEK"}
    BY <1>4 DEF FixedInv
  <2>. QED BY <2>1, <2>2, <2>3 DEF FixedInv
<1>. QED BY <1>3, <1>4

\* An upstream that moves can.
LEMMA FixedMoves ==
  ASSUME upstream.seekable, upstream'.seekable = upstream.seekable
  PROVE  FixedInv'
BY DEF FixedInv

\* What chain has while it runs, when upstream cannot seek.
LEMMA FixedRunning ==
  ASSUME PushInv, FixedInv, ~upstream.seekable, ~past.stayed, chain # "idle"
  PROVE  /\ ~flushing /\ ~upstream.discont /\ Whole /\ upstream.pos > 0
         /\ Swallowed \/ (Counted /\ AtState)
         /\ adapter.at = 0 => /\ chain = "parse" /\ demux.ret = "OK"
                              /\ demux.state \in {"HEADER", "SEEK"}
<1>1. ~flushing
  BY DEF PushInv, AppInv
<1>. QED BY <1>1 DEF PushInv, ChainInv, FixedInv

LEMMA FixedUpstream ==
  ASSUME PushInv, FixedInv, Segment \/ SinkEos
  PROVE  FixedInv'
<1>1. TypeOK
  BY DEF PushInv
<1>2. /\ Fields(demux, demux') /\ demux'.offset = demux.offset /\ demux'.state = demux.state
  BY <1>1, SegmentDoes, SinkEosDoes DEF Quiet, Ended
<1>3. /\ UNCHANGED <<file, adapter, chain, app, past>>
      /\ upstream'.pos = upstream.pos /\ upstream'.discont = upstream.discont
      /\ upstream'.seekable = upstream.seekable
  BY <1>1 DEF Segment, SinkEos, TypeOK, UpstreamType
<1>. QED BY <1>2, <1>3, FixedFrame DEF Fields

LEMMA FixedChain ==
  ASSUME PushInv, IndexInv, FixedInv, NEW n \in 1..MaxChunk, Chain(n)
  PROVE  FixedInv'
<1>1. TypeOK /\ ChainInv /\ AppInv /\ PushInv' /\ Untouched
  BY KeepsChain DEF PushInv, IndexInv
<1>2. /\ demux' \in DemuxType
      /\ Fields([demux EXCEPT !.ret = "OK"], demux') /\ demux'.ret = "OK"
      /\ demux'.offset = (IF upstream.pos = 0 THEN 0
                          ELSE IF demux.offset = 0 THEN upstream.pos ELSE demux.offset)
      /\ demux'.state = (IF request.seeking THEN "SEEK"
                         ELSE IF upstream.pos = 0 THEN "HEADER" ELSE demux.state)
      /\ adapter'.at = (IF upstream.discont \/ adapter.len = 0 THEN upstream.pos
                        ELSE adapter.at)
      /\ upstream' = [upstream EXCEPT !.pos = @ + n, !.discont = FALSE]
  BY <1>1, ChainDoes
<1>3. /\ chain' = "parse" /\ chain = "idle" /\ UNCHANGED <<file, flushing, app>>
      /\ past' = [past EXCEPT !.raced = @ \/ Racing]
  BY DEF Chain, CanSend
<1>4. demux'.tag = demux.tag
  BY <1>1, <1>2 DEF TypeOK, Fields, DemuxType
<1>5. upstream'.discont = FALSE /\ upstream'.seekable = upstream.seekable
      /\ past'.stayed = past.stayed
  BY <1>1, <1>2, <1>3 DEF TypeOK, UpstreamType, PastType
<1>6. Whole'
  BY <1>1, <1>3 DEF PushInv, ChainInv
<1>7. SUFFICES ASSUME ~upstream.seekable, ~past.stayed
               PROVE  /\ Swallowed' \/ (Counted' /\ AtState')
                      /\ adapter'.at = 0 => demux'.state \in {"HEADER", "SEEK"}
  BY <1>2, <1>3, <1>5, <1>6 DEF FixedInv
<1>8. CASE upstream.pos = 0
  <2>1. adapter.at = 0
    BY <1>1, <1>7, <1>8 DEF Untouched
  <2>2. adapter'.at = 0 /\ demux'.offset = 0 /\ demux'.state \in {"SEEK", "HEADER"}
    BY <1>2, <1>8, <2>1
  <2>3. CASE demux'.state = "SEEK"
    BY <1>5, <1>7, <2>2, <2>3 DEF Swallowed
  <2>4. CASE demux'.state = "HEADER"
    <3>1. Counted'
      BY <1>3, <2>2 DEF Counted
    <3>2. AtState'
      BY <1>3, <2>2, <2>4 DEF AtState, Expected
    <3>. QED BY <2>4, <3>1, <3>2
  <2>. QED BY <2>2, <2>3, <2>4
<1>9. CASE upstream.pos # 0
  <2>1. ~upstream.discont
    BY <1>1, <1>7, <1>9 DEF Untouched
  <2>2. Whole
    BY <1>7, <2>1 DEF FixedInv
  <2>3. adapter'.at = adapter.at
    BY <1>1, <1>2, <2>1, <2>2, AtNats DEF Whole
  <2>4. CASE Swallowed
    <3>1. demux'.state = "SEEK"
      BY <1>2, <1>9, <2>4 DEF Swallowed
    <3>2. Swallowed'
      BY <1>5, <2>3, <2>4, <3>1 DEF Swallowed
    <3>. QED BY <3>1, <3>2
  <2>5. CASE ~Swallowed
    <3>1. Counted /\ AtState /\ adapter.at > 0
      BY <1>3, <1>7, <2>1, <2>5 DEF FixedInv
    <3>2. adapter.at = demux.offset
      BY <1>3, <2>5, <3>1 DEF Counted
    <3>3. demux'.offset = demux.offset
      BY <1>1, <1>2, <1>9, <3>1, <3>2, AtNats
    <3>4. Counted'
      BY <1>3, <2>3, <3>2, <3>3 DEF Counted
    <3>5. AtTag
      BY <1>1, <1>3, <3>1, AtTagIs, AtNats
    <3>6. AtState'
      <4>1. CASE request.seeking
        BY <1>2, <1>3, <2>3, <3>5, <4>1 DEF AtState, AtTag, FileSize
      <4>2. CASE ~request.seeking
        BY <1>1, <1>2, <1>3, <1>4, <1>9, <2>3, <3>1, <3>5, <4>2
           DEF AtState, AtTag, FileSize, Expected
      <4>. QED BY <4>1, <4>2
    <3>7. adapter'.at # 0
      BY <1>1, <2>3, <3>1, AtNats
    <3>. QED BY <3>4, <3>6, <3>7
  <2>. QED BY <2>4, <2>5
<1>. QED BY <1>8, <1>9

LEMMA FixedLeave ==
  ASSUME PushInv, FixedInv, Leave
  PROVE  FixedInv'
<1>1. /\ TypeOK /\ chain = "parse" /\ chain' = "idle"
      /\ demux.ret # "OK" \/ flushing
      /\ upstream' = [upstream EXCEPT !.stopped = TRUE]
      /\ UNCHANGED <<file, demux, adapter, app, past>>
  BY DEF PushInv, Leave
<1>2. /\ upstream'.pos = upstream.pos /\ upstream'.discont = upstream.discont
      /\ upstream'.seekable = upstream.seekable
  BY <1>1, StoppedType DEF TypeOK
<1>3. ASSUME ~upstream.seekable, ~past.stayed
      PROVE  Whole' /\ (Swallowed' \/ (Counted' /\ AtState' /\ adapter'.at > 0))
  <2>1. /\ Whole /\ (Swallowed \/ (Counted /\ AtState)) /\ adapter.at # 0
    BY <1>1, <1>3, FixedRunning
  <2>2. Whole' /\ Swallowed' = Swallowed
    BY <1>1, <1>2, <2>1 DEF Whole, Swallowed
  <2>3. Counted => Counted'
    BY <1>1, <2>2 DEF Counted
  <2>4. AtState => AtState'
    BY <1>1 DEF AtState, AtTag, Expected, FileSize
  <2>. QED BY <1>1, <2>1, <2>2, <2>3, <2>4, AtNats
<1>. QED BY <1>1, <1>2, <1>3 DEF FixedInv

LEMMA FixedWait ==
  ASSUME PushInv, FixedInv, Wait
  PROVE  FixedInv'
<1>1. /\ TypeOK /\ chain = "parse" /\ chain' = "idle"
      /\ ~(adapter.len >= Needed(demux.state))
      /\ UNCHANGED <<file, demux, adapter, upstream, app, past>>
  BY DEF PushInv, Wait, Parsing, Available
<1>2. ASSUME ~upstream.seekable, ~past.stayed
      PROVE  Whole' /\ Counted' /\ AtState' /\ adapter'.at > 0
  <2>1. /\ Whole /\ (Swallowed \/ (Counted /\ AtState)) /\ upstream.pos > 0
        /\ adapter.at = 0 => demux.state \in {"HEADER", "SEEK"}
    BY <1>1, <1>2, FixedRunning
  <2>2. demux.state # "SEEK"
    BY <1>1, AtNats DEF Needed
  <2>3. adapter.at # 0
    BY <1>1, <2>1, <2>2, AtNats DEF Needed, FLV_HEADER_SIZE, Whole
  <2>4. Whole' /\ Counted'
    BY <1>1, <2>1, <2>2 DEF Whole, Counted, Swallowed
  <2>5. AtState'
    BY <1>1, <2>1, <2>2 DEF AtState, AtTag, Expected, FileSize, Swallowed
  <2>. QED BY <1>1, <2>3, <2>4, <2>5, AtNats
<1>. QED BY <1>1, <1>2 DEF FixedInv

LEMMA FixedGarble ==
  ASSUME PushInv, FixedInv, Garble
  PROVE  FixedInv'
<1>1. /\ TypeOK /\ chain = "parse" /\ ~Expected(demux.state)
      /\ demux.state \in TagStates \cup {"HEADER", "TAG_TYPE"}
      /\ chain' = "idle" /\ past' = [past EXCEPT !.garbled = TRUE]
      /\ UNCHANGED <<file, upstream, app>>
  BY DEF PushInv, Garble, Parsing
<1>2. past'.stayed = past.stayed
  BY <1>1 DEF TypeOK, PastType
<1>3. ASSUME ~upstream.seekable, ~past.stayed PROVE FALSE
  <2>1. demux.state # "SEEK"
    BY <1>1 DEF TagStates
  <2>2. AtState
    BY <1>1, <1>3, <2>1, FixedRunning DEF Swallowed
  <2>. QED BY <1>1, <2>1, <2>2 DEF AtState
<1>. QED BY <1>1, <1>2, <1>3 DEF FixedInv

LEMMA FixedHeader ==
  ASSUME PushInv, FixedInv, ParseHeader
  PROVE  FixedInv'
<1>1. /\ TypeOK /\ PushInv' /\ chain = "parse" /\ demux.state = "HEADER"
      /\ UNCHANGED <<file, chain, upstream, app, past>>
  BY KeepsHeader DEF PushInv, ParseHeader, Parsing
<1>2. /\ demux'.state = "TAG_TYPE" /\ demux'.offset = demux.offset + 1
      /\ adapter' = [at |-> adapter.at + 1, len |-> adapter.len - 1] /\ adapter.at = 0
  BY <1>1, HeaderDoes
<1>3. adapter'.at = 1
  BY <1>2
<1>4. Whole' /\ ~upstream'.discont
  BY <1>1 DEF PushInv, ChainInv
<1>5. ASSUME ~upstream.seekable, ~past.stayed PROVE Counted' /\ AtState'
  <2>1. Counted
    BY <1>1, <1>5, FixedRunning DEF Swallowed
  <2>2. demux.offset = 0
    BY <1>1, <1>2, <2>1 DEF Counted, Swallowed
  <2>3. Counted'
    BY <1>1, <1>2, <1>3, <2>2 DEF Counted
  <2>4. CASE file = <<>>
    <3>1. FileSize = 1
      BY <1>1, <2>4, FileIs
    <3>. QED BY <1>1, <1>2, <1>3, <2>3, <3>1 DEF AtState, Expected, FileSize
  <2>5. CASE file # <<>>
    <3>1. 1 \in Starts(file)
      BY <1>1, <2>5, FileNotEmpty
    <3>. QED BY <1>1, <1>2, <1>3, <2>3, <3>1 DEF AtState, Expected, FileSize
  <2>. QED BY <2>4, <2>5
<1>. QED BY <1>1, <1>3, <1>4, <1>5 DEF FixedInv

LEMMA FixedType ==
  ASSUME PushInv, FixedInv, ParseTagType
  PROVE  FixedInv'
<1> DEFINE i == TagAt(file, adapter.at)
<1>1. /\ TypeOK /\ ChainInv /\ PushInv' /\ chain = "parse" /\ demux.state = "TAG_TYPE"
      /\ chain' = "typed" /\ UNCHANGED <<file, upstream, app, past>>
  BY KeepsType DEF PushInv, ParseTagType, Parsing
<1>2. /\ i \in DOMAIN file /\ adapter.at = Position(i) /\ demux'.tag = i
      /\ demux'.offset = demux.offset + 1
      /\ adapter' = [at |-> adapter.at + 1, len |-> adapter.len - 1]
  BY <1>1, TypeDoes
<1> HIDE DEF i
<1>3. Position(i) \in Nat /\ Position(i) = 3 * i - 2 /\ i >= 1 /\ i \in Nat
  BY <1>1, <1>2, FileIs
<1>4. adapter'.at = Position(i) + 1 /\ adapter'.at # 0
  BY <1>2, <1>3
<1>5. Whole' /\ ~upstream'.discont
  BY <1>1 DEF PushInv, ChainInv
<1>6. ASSUME ~upstream.seekable, ~past.stayed PROVE Counted' /\ AtState'
  <2>1. Counted
    BY <1>1, <1>6, FixedRunning DEF Swallowed
  <2>2. demux.offset = adapter.at
    BY <1>1, <2>1 DEF Counted, Swallowed
  <2>3. Counted'
    BY <1>1, <1>2, <1>4, <2>2 DEF Counted
  <2>. QED BY <1>1, <1>2, <1>4, <2>3 DEF AtState, FLV_TAG_TYPE_SIZE
<1>. QED BY <1>1, <1>4, <1>5, <1>6 DEF FixedInv

\* The seek is given up where chain is.
LEMMA FixedSought ==
  ASSUME PushInv, FixedInv, chain # "idle", NEW d, NEW offset, SoughtTo(d, offset), chain' = "idle",
         UNCHANGED <<file, app>>, past'.stayed = past.stayed,
         ~upstream.seekable /\ ~past.stayed =>
           \/ d.state = "SEEK" /\ adapter.at = 0
           \/ /\ adapter.at # 0 /\ adapter.at = d.offset
              /\ IF d.state = "SEEK" THEN AtTag
                 ELSE IF d.state \in TagStates
                 THEN adapter.at = Position(d.tag) + FLV_TAG_TYPE_SIZE
                 ELSE d.state = "TAG_TYPE" /\ adapter.at \in Starts(file) \cup {FileSize}
  PROVE  FixedInv'
<1>1. CASE upstream.seekable
  <2>1. \E pos : upstream' = Moved(pos)
    BY <1>1 DEF SoughtTo
  <2>2. upstream'.seekable = upstream.seekable
    BY <2>1 DEF PushInv, TypeOK, Moved, UpstreamType
  <2>. QED BY <1>1, <2>2, FixedMoves
<1>2. CASE ~upstream.seekable
  <2>1. demux' = d /\ UNCHANGED <<adapter, flushing, upstream>>
    BY <1>2 DEF SoughtTo
  <2>2. ASSUME ~past.stayed
        PROVE  Whole' /\ (Swallowed' \/ (Counted' /\ AtState' /\ adapter'.at > 0))
    <3>1. Whole'
      BY <2>1, FixedRunning, <1>2, <2>2 DEF Whole
    <3>2. CASE d.state = "SEEK" /\ adapter.at = 0
      BY <1>2, <2>1, <3>1, <3>2 DEF Swallowed
    <3>3. CASE /\ adapter.at # 0 /\ adapter.at = d.offset
               /\ IF d.state = "SEEK" THEN AtTag
                  ELSE IF d.state \in TagStates
                  THEN adapter.at = Position(d.tag) + FLV_TAG_TYPE_SIZE
                  ELSE d.state = "TAG_TYPE" /\ adapter.at \in Starts(file) \cup {FileSize}
      <4>1. Counted'
        BY <2>1, <3>3 DEF Counted
      <4>2. AtState'
        BY <2>1, <3>3 DEF AtState, AtTag, Expected, FileSize, TagStates
      <4>3. adapter'.at > 0
        BY <2>1, <3>3, AtNats DEF PushInv
      <4>. QED BY <3>1, <4>1, <4>2, <4>3
    <3>. QED BY <1>2, <2>2, <3>2, <3>3
  <2>. QED BY <1>2, <2>1, <2>2 DEF FixedInv
<1>. QED BY <1>1, <1>2

LEMMA FixedTyped ==
  ASSUME PushInv, FixedInv, TagTyped
  PROVE  FixedInv'
<1>1. /\ TypeOK /\ ChainInv /\ PushInv' /\ chain = "typed" /\ demux \in DemuxType
      /\ demux.tag \in DOMAIN file /\ demux.state \in TagStates \cup {"SEEK"}
      /\ UNCHANGED <<file, app>>
  BY KeepsTyped DEF PushInv, TagTyped, TypeOK, ChainInv
<1>2. ASSUME ~upstream.seekable, ~past.stayed
      PROVE  /\ adapter.at = Position(demux.tag) + FLV_TAG_TYPE_SIZE /\ adapter.at # 0
             /\ AtTag /\ adapter.at = demux.offset
  <2>1. adapter.at # 0 /\ Counted /\ AtState
    BY <1>1, <1>2, FixedRunning DEF Swallowed
  <2>2. adapter.at = Position(demux.tag) + FLV_TAG_TYPE_SIZE
    BY <1>1, <2>1 DEF AtState
  <2>. QED BY <1>1, <2>1, <2>2 DEF AtTag, Counted, Swallowed
<1>3. CASE NoIndex(demux)
  <2>1. /\ SoughtTo(demux, 0) /\ chain' = "idle"
        /\ past' = [past EXCEPT !.raced = @ \/ Racing]
    BY <1>1, <1>3, NoIndexDoes
  <2>2. past'.stayed = past.stayed
    BY <1>1, <2>1 DEF TypeOK, PastType
  <2>. QED BY <1>1, <1>2, <2>1, <2>2, FixedSought
<1>4. CASE chain' = "parse" /\ UNCHANGED <<demux, request, flushing, adapter, upstream, past>>
  <2>1. Whole' /\ ~upstream'.discont
    BY <1>1, <1>4 DEF PushInv, ChainInv
  <2>2. ASSUME ~upstream.seekable, ~past.stayed PROVE Counted' /\ AtState'
    <3>1. Counted'
      BY <1>1, <1>2, <1>4, <2>2 DEF Counted
    <3>2. AtState'
      BY <1>1, <1>2, <1>4, <2>2 DEF AtState, AtTag, Expected, FileSize, TagStates
    <3>. QED BY <3>1, <3>2
  <2>. QED BY <1>1, <1>2, <1>4, <2>1, <2>2 DEF FixedInv
<1>. QED BY <1>3, <1>4 DEF TagTyped

LEMMA FixedTake ==
  ASSUME PushInv, FixedInv, NEW flow \in Returned, TakeTag(flow)
  PROVE  FixedInv'
<1> DEFINE i == demux.tag
<1>1. TypeOK /\ ChainInv /\ PushInv'
  BY KeepsTake DEF PushInv
<1>2. /\ TagDoes(demux', flow) /\ demux.state \in TagStates /\ i \in DOMAIN file
      /\ chain = "parse" /\ chain' = "parsed"
      /\ adapter' = [at |-> adapter.at + 2, len |-> adapter.len - 2]
      /\ adapter.at = Position(i) + FLV_TAG_TYPE_SIZE
      /\ UNCHANGED <<file, upstream, app, past>>
  BY <1>1, TakeDoes
<1>3. demux'.tag = i /\ demux'.offset = demux.offset
  BY <1>2 DEF TagDoes, SamePlace
<1> HIDE DEF i
<1>4. Position(i) = 3 * i - 2 /\ Position(i + 1) = 3 * i + 1 /\ i >= 1 /\ i \in Nat
  BY <1>1, <1>2, FileIs
<1>5. adapter'.at = Position(i + 1) /\ adapter'.at # 0 /\ adapter'.at = adapter.at + 2
  BY <1>2, <1>4 DEF FLV_TAG_TYPE_SIZE
<1>6. Whole' /\ ~upstream'.discont
  BY <1>1, <1>2 DEF PushInv, ChainInv
<1>7. ASSUME ~upstream.seekable, ~past.stayed PROVE Counted' /\ AtState'
  <2>1. Counted /\ ~Swallowed
    BY <1>2, <1>7, FixedRunning DEF Swallowed, TagStates
  <2>2. demux.offset = adapter.at
    BY <1>2, <2>1 DEF Counted
  <2>3. Counted'
    BY <1>2, <1>3, <1>5, <2>2 DEF Counted, tag_size
  <2>. QED BY <1>2, <1>3, <1>5, <2>3 DEF AtState
<1>. QED BY <1>2, <1>5, <1>6, <1>7 DEF FixedInv

LEMMA FixedParsed ==
  ASSUME PushInv, FixedInv, TagParsed
  PROVE  FixedInv'
<1> DEFINE i == demux.tag
<1>1. /\ TypeOK /\ ChainInv /\ PushInv' /\ chain = "parsed" /\ i \in DOMAIN file
      /\ UNCHANGED <<file, app>>
  BY KeepsParsed DEF PushInv, TagParsed, ChainInv
<1>2. /\ Behind \in DemuxType /\ Fields(demux, Behind)
      /\ Behind.offset = demux.offset + 2 /\ Behind.state \in {"SEEK", "TAG_TYPE"}
  BY <1>1, BehindDoes
<1> HIDE DEF i
<1>3. /\ Len(file) \in Nat /\ i <= Len(file) /\ FileSize = 3 * Len(file) + 1
      /\ Position(i + 1) = 3 * i + 1 /\ i \in Nat
  BY <1>1, FileIs
<1>4. Position(i + 1) \in Starts(file) \cup {FileSize}
  <2>1. CASE i = Len(file)
    BY <1>3, <2>1
  <2>2. CASE i # Len(file)
    <3>1. i + 1 \in 1..Len(file)
      BY <1>3, <2>2
    <3>2. i + 1 \in DOMAIN file
      BY <1>1, <3>1, FileIs
    <3>. QED BY <3>2 DEF Starts
  <2>. QED BY <2>1, <2>2
<1>5. ASSUME ~upstream.seekable, ~past.stayed
      PROVE  /\ adapter.at = Position(i + 1) /\ adapter.at # 0 /\ adapter.at = demux.offset + 2
             /\ AtTag
  <2>1. adapter.at # 0 /\ Counted /\ AtState
    BY <1>1, <1>5, FixedRunning DEF Swallowed
  <2>2. adapter.at = Position(i + 1)
    BY <1>1, <2>1 DEF AtState, i
  <2>. QED BY <1>1, <1>4, <2>1, <2>2 DEF AtTag, Counted, Swallowed, tag_size
<1>6. CASE NoIndex(Behind)
  <2>1. /\ SoughtTo(Behind, 0) /\ chain' = "idle"
        /\ past' = [past EXCEPT !.raced = @ \/ Racing]
    BY <1>1, <1>2, <1>6, NoIndexDoes
  <2>2. past'.stayed = past.stayed
    BY <1>1, <2>1 DEF TypeOK, PastType
  <2>3. Behind.state \notin TagStates
    BY <1>2 DEF TagStates
  <2>. QED BY <1>1, <1>2, <1>4, <1>5, <2>1, <2>2, <2>3, FixedSought
<1>7. CASE demux' = Behind /\ chain' = "parse"
           /\ UNCHANGED <<request, flushing, adapter, upstream, past>>
  <2>1. Whole' /\ ~upstream'.discont
    BY <1>1, <1>7 DEF PushInv, ChainInv
  <2>2. ASSUME ~upstream.seekable, ~past.stayed PROVE Counted' /\ AtState'
    <3>1. Counted'
      BY <1>2, <1>5, <1>7, <2>2 DEF Counted
    <3>2. AtState'
      BY <1>1, <1>2, <1>4, <1>5, <1>7, <2>2 DEF AtState, AtTag, Expected, FileSize
    <3>. QED BY <3>1, <3>2
  <2>. QED BY <1>1, <1>5, <1>7, <2>1, <2>2 DEF FixedInv
<1>. QED BY <1>1, <1>6, <1>7, ParsedDoes

LEMMA FixedLastTag ==
  ASSUME PushInv, IndexInv, FixedInv, SeekLastTag
  PROVE  FixedInv'
<1>1. /\ TypeOK /\ ChainInv /\ AppInv /\ Untouched /\ chain = "parse" /\ demux.state = "SEEK"
      /\ demux \in DemuxType /\ UNCHANGED <<file, app>>
  BY DEF PushInv, TypeOK, IndexInv, SeekLastTag, Parsing
<1>2. ASSUME ~upstream.seekable, ~past.stayed, adapter.at # 0
      PROVE  AtTag /\ adapter.at = demux.offset
  <2>1. Counted /\ AtState /\ ~Swallowed
    BY <1>1, <1>2, FixedRunning DEF Swallowed
  <2>. QED BY <1>1, <2>1 DEF Counted, AtState
<1>3. CASE NoIndex(demux)
  <2>1. /\ SoughtTo(demux, 0) /\ chain' = "idle"
        /\ past' = [past EXCEPT !.raced = @ \/ Racing]
    BY <1>1, <1>3, NoIndexDoes
  <2>2. past'.stayed = past.stayed
    BY <1>1, <2>1 DEF TypeOK, PastType
  <2>. QED BY <1>1, <1>2, <2>1, <2>2, FixedSought
<1>4. CASE ~NoIndex(demux)
  <2> DEFINE d == [demux EXCEPT !.state = "TAG_TYPE"]
  <2>1. /\ demux.offset = demux.file_size - SIZE_OF_SIZE
        /\ chain' = "idle" /\ UNCHANGED <<request, past>>
        /\ file # <<>> => SoughtTo(d, Position(Len(file)))
    BY <1>4, LastTagDoes
  <2>. HIDE DEF d
  <2>2. demux.file_size # 0
    BY <1>1, <2>1 DEF DemuxType, SIZE_OF_SIZE
  <2>3. file # <<>> /\ demux.file_size = FileSize
    BY <1>1, <2>2 DEF AppInv
  <2>4. ASSUME ~upstream.seekable, ~past.stayed PROVE FALSE
    <3>1. adapter.at # 0
      BY <1>1, <2>2, <2>4 DEF Untouched
    <3>. QED BY <1>1, <1>2, <2>1, <2>3, <2>4, <3>1, LastBytes
  <2>5. SoughtTo(d, Position(Len(file))) /\ past'.stayed = past.stayed
    BY <2>1, <2>3
  <2>. QED BY <1>1, <2>1, <2>4, <2>5, FixedSought
<1>. QED BY <1>3, <1>4

LEMMA FixedServe ==
  ASSUME PushInv, FixedInv, ServeSeek
  PROVE  FixedInv'
<1>1. /\ TypeOK /\ ChainInv /\ AppInv /\ chain = "parse" /\ chain' = "idle" /\ ~flushing
      /\ demux.state = "SEEK" /\ demux'.offset = demux.offset
      /\ Found \/ NotFound
      /\ UNCHANGED <<file, app>>
  BY ServeSeekDoes DEF PushInv
<1>2. /\ upstream'.seekable = upstream.seekable /\ (past.stayed => past'.stayed)
      /\ ~upstream.seekable =>
           upstream'.pos = upstream.pos /\ upstream'.discont = upstream.discont
           /\ adapter' = adapter
  BY <1>1, ServedIs
<1>3. CASE upstream.seekable
  BY <1>2, <1>3, FixedMoves
<1>4. CASE ~upstream.seekable
  <2>1. demux'.state = "SEEK" \/ past'.stayed
    <3>1. ASSUME NEW history \in PastType, Stays(history) PROVE past'.stayed
      <4>1. past' = [history EXCEPT !.stayed = TRUE]
        BY <3>1 DEF Stays
      <4>. QED BY <4>1 DEF PastType
    <3>. QED BY <1>1, <1>4, <3>1 DEF Found, NotFound, Goes, Refused
  <2>2. ASSUME ~past'.stayed
        PROVE  Whole' /\ (Swallowed' \/ (Counted' /\ AtState' /\ adapter'.at > 0))
    <3>1. Whole /\ (Swallowed \/ (Counted /\ AtState))
      BY <1>1, <1>2, <1>4, <2>2, FixedRunning
    <3>2. Whole'
      BY <1>2, <1>4, <3>1 DEF Whole
    <3>3. CASE adapter.at = 0
      BY <1>2, <1>4, <2>1, <2>2, <3>2, <3>3 DEF Swallowed
    <3>4. CASE adapter.at # 0
      <4>1. Counted /\ AtTag
        BY <1>1, <3>1, <3>4 DEF Swallowed, AtState
      <4>2. adapter.at = demux.offset
        BY <1>1, <3>4, <4>1 DEF Counted, Swallowed
      <4>3. Counted'
        BY <1>1, <1>2, <1>4, <4>2 DEF Counted
      <4>4. AtState'
        BY <1>1, <1>2, <1>4, <2>1, <2>2, <4>1 DEF AtState, AtTag, FileSize
      <4>5. adapter'.at > 0
        BY <1>1, <1>2, <1>4, <3>4, AtNats
      <4>. QED BY <3>2, <4>3, <4>4, <4>5
    <3>. QED BY <3>3, <3>4
  <2>. QED BY <1>1, <1>2, <1>4, <2>2 DEF FixedInv
<1>. QED BY <1>3, <1>4

LEMMA FixedRequest ==
  ASSUME PushInv, FixedInv, Request
  PROVE  FixedInv'
<1>1. /\ TypeOK /\ ChainInv /\ app.pc = "request" /\ demux'.state = "SEEK"
      /\ Fields([demux EXCEPT !.file_size = demux'.file_size], demux')
      /\ demux'.offset = demux.offset /\ app'.pc # "assign"
      /\ UNCHANGED <<file, flushing, adapter, chain, upstream, past>>
  BY RequestDoes DEF PushInv, Idle
<1>2. demux'.tag = demux.tag /\ demux'.ret = demux.ret
  BY <1>1 DEF TypeOK, DemuxType, Fields
<1>3. ASSUME ~upstream.seekable, ~past.stayed, ~upstream.discont
      PROVE  Whole' /\ (Swallowed' \/ (Counted' /\ AtState' /\ (chain' = "idle" => adapter'.at > 0)))
  <2>1. Whole /\ Whole'
    BY <1>1, <1>3 DEF FixedInv, Whole
  <2>2. CASE adapter.at = 0
    BY <1>1, <1>3, <2>1, <2>2 DEF Swallowed
  <2>3. CASE adapter.at # 0
    <3>1. Counted /\ AtState
      BY <1>3, <2>3 DEF FixedInv, Swallowed
    <3>2. Counted'
      BY <1>1, <2>3, <3>1 DEF Counted, Swallowed
    <3>3. AtState'
      <4>1. CASE chain \in {"idle", "parse"}
        <5>1. AtTag
          BY <1>1, <2>3, <3>1, <4>1, AtTagIs
        <5>. QED BY <1>1, <4>1, <5>1 DEF AtState, AtTag, FileSize
      <4>2. CASE chain \notin {"idle", "parse"}
        BY <1>1, <1>2, <3>1, <4>2 DEF AtState
      <4>. QED BY <4>1, <4>2
    <3>4. adapter'.at > 0
      BY <1>1, <2>3, AtNats
    <3>. QED BY <2>1, <3>2, <3>3, <3>4
  <2>. QED BY <2>2, <2>3
<1>4. ~upstream.seekable /\ ~past.stayed /\ chain # "idle" /\ adapter.at = 0 =>
        chain = "parse" /\ demux.ret = "OK"
  BY DEF FixedInv
<1>. QED BY <1>1, <1>2, <1>3, <1>4 DEF FixedInv

\* The other steps of the application's thread.
LEMMA FixedApp ==
  ASSUME PushInv, FixedInv,
         (\E ev \in Events : Seek(ev)) \/ AppRefused \/ FlushStart \/ FlushEnds \/ Jump \/ Assign
  PROVE  FixedInv'
<1>1. TypeOK /\ AppInv
  BY DEF PushInv
<1>2. ASSUME NEW ev \in Events, Seek(ev) PROVE FixedInv'
  <2>1. app'.pc = "assign" => app'.kind = "stay"
    BY <1>1, <1>2, SeekDoes
  <2>2. UNCHANGED <<file, adapter, chain, demux, upstream, past>>
    BY <1>2 DEF Seek
  <2>. QED BY <2>1, <2>2, FixedFrame
<1>3. CASE AppRefused
  <2>1. /\ app' = Idle /\ Fields(demux, demux') /\ demux'.state = demux.state
        /\ demux'.offset = demux.offset
        /\ UNCHANGED <<file, adapter, chain, upstream, past>>
    BY <1>1, <1>3, RefusedDoes
  <2>. QED BY <2>1, FixedFrame DEF Fields, Idle
<1>4. CASE FlushStart
  <2>1. upstream.seekable /\ upstream'.seekable = upstream.seekable
    BY <1>1, <1>4, FlushStartDoes
  <2>. QED BY <2>1, FixedMoves
<1>5. CASE FlushEnds
  <2>1. upstream.seekable /\ upstream' = Moved(app.offset)
    BY <1>1, <1>5, FlushEndsDoes DEF AppInv
  <2>. QED BY <1>1, <2>1, FixedMoves DEF Moved, TypeOK, UpstreamType
<1>6. CASE Jump
  <2>1. upstream.seekable /\ upstream' = Moved(app.offset)
    BY <1>1, <1>6, JumpDoes
  <2>. QED BY <1>1, <2>1, FixedMoves DEF Moved, TypeOK, UpstreamType
<1>7. CASE Assign
  <2>1. /\ app.pc = "assign" /\ app' = Idle /\ app.kind \in {"build", "seek", "stay"}
        /\ Fields(demux, demux') /\ demux'.state = demux.state
        /\ app.kind = "seek" => Breaks(demux, demux')
        /\ app.kind = "stay" => Quiet(demux, demux')
        /\ UNCHANGED <<file, adapter, chain, upstream, past>>
    BY <1>1, <1>7, AssignDoes
  <2>2. CASE upstream.seekable
    BY <2>1, <2>2, FixedMoves
  <2>3. CASE ~upstream.seekable
    <3>1. demux'.offset = demux.offset
      BY <2>1, <2>3 DEF FixedInv, Breaks, Quiet
    <3>. QED BY <2>1, <3>1, FixedFrame DEF Fields, Idle
  <2>. QED BY <2>2, <2>3
<1>. QED BY <1>2, <1>3, <1>4, <1>5, <1>6, <1>7

LEMMA FixedRestart ==
  ASSUME PushInv, FixedInv, Restart
  PROVE  FixedInv'
<1>1. /\ chain' = "idle" /\ app'.pc = "idle" /\ upstream'.discont = TRUE
  BY RestartDoes DEF PushInv
<1>. QED BY <1>1 DEF FixedInv

LEMMA FixedInit == Init => FixedInv
BY DEF Init, FixedInv, Idle

LEMMA FixedStep ==
  ASSUME PushInv, IndexInv, FixedInv, [Next]_vars
  PROVE  FixedInv'
<1>1. CASE UNCHANGED vars
  BY <1>1, FixedFrame DEF vars
<1>2. CASE Segment \/ SinkEos \/ \E n \in 1..MaxChunk : Chain(n)
  BY <1>2, FixedUpstream, FixedChain
<1>3. CASE Leave \/ Wait \/ Garble \/ ParseHeader
  BY <1>3, FixedLeave, FixedWait, FixedGarble, FixedHeader
<1>4. CASE ParseTagType \/ TagTyped \/ TagParsed \/ \E flow \in Returned : TakeTag(flow)
  BY <1>4, FixedType, FixedTyped, FixedParsed, FixedTake
<1>5. CASE SeekLastTag \/ ServeSeek
  BY <1>5, FixedLastTag, FixedServe
<1>6. CASE Request \/ Restart
  BY <1>6, FixedRequest, FixedRestart
<1>7. CASE (\E ev \in Events : Seek(ev)) \/ AppRefused \/ FlushStart \/ FlushEnds \/ Jump
           \/ Assign
  BY <1>7, FixedApp
<1>8. Next => Steps \/ UNCHANGED vars
  BY NextIs
<1>. QED BY <1>1, <1>2, <1>3, <1>4, <1>5, <1>6, <1>7, <1>8 DEF Steps

---------------------------------------------------------------------------
(* The streams: what the pads know. *)

AllSettled == \A f \in Files : Settled(f)

\* A step that makes no pad, learns of no configuration and delivers nothing.
Follows(d, e) ==
  /\ e.got_par => d.got_par
  /\ \A p \in Streams : /\ Stream(d.pad[p], e.pad[p])
                        /\ d.pad[p].need_discont => e.pad[p].need_discont
                        /\ e.pad[p].out.tag \in {0, d.pad[p].out.tag}

LEMMA StreamFrame ==
  ASSUME StreamInv, UNCHANGED file, Follows(demux, demux')
  PROVE  StreamInv'
<1>1. ParInv(demux)'
  BY DEF StreamInv, ParInv, Follows
<1>2. ASSUME NEW p \in Streams PROVE PadInv(demux, p)'
  <2>1. PadInv(demux, p)
    BY DEF StreamInv
  <2>2. /\ Stream(demux.pad[p], demux'.pad[p])
        /\ demux.pad[p].need_discont => demux'.pad[p].need_discont
    BY DEF Follows
  <2>. QED BY <2>1, <2>2 DEF PadInv, Stream
<1>. QED BY <1>1, <1>2 DEF StreamInv

LEMMA FollowsPads ==
  ASSUME NEW d, NEW e, e.got_par = d.got_par, e.pad = d.pad
  PROVE  Follows(d, e)
BY DEF Follows, Stream, SameTimes

LEMMA FollowsStreams ==
  ASSUME NEW d, NEW e, e.got_par = d.got_par, SameStreams(d, e) \/ BrokenStreams(d, e)
  PROVE  Follows(d, e)
BY DEF Follows, SameStreams, BrokenStreams, NothingOut

LEMMA FollowsQuiet ==
  ASSUME NEW d, NEW e, Quiet(d, e) \/ Breaks(d, e) \/ Ended(d, e) \/ Flushes(d, e)
  PROVE  Follows(d, e)
BY DEF Follows, Quiet, Breaks, Ended, Flushes, Fields, NothingOut

LEMMA FollowsSought ==
  ASSUME NEW d, NEW offset, SoughtTo(d, offset), d.got_par = demux.got_par,
         d.pad = demux.pad
  PROVE  Follows(demux, demux')
<1>1. demux'.got_par = d.got_par
  BY DEF SoughtTo, Fields
<1>2. CASE demux' = d
  BY <1>1, <1>2, FollowsPads
<1>3. CASE BrokenStreams(d, demux')
  <2>1. BrokenStreams(demux, demux')
    BY <1>3 DEF BrokenStreams
  <2>. QED BY <1>1, <2>1, FollowsStreams
<1>. QED BY <1>2, <1>3 DEF SoughtTo

LEMMA ChainFollows ==
  ASSUME TypeOK, (\E n \in 1..MaxChunk : Chain(n)) \/ ParseHeader \/ Leave \/ Wait \/ Garble
  PROVE  Follows(demux, demux')
<1>1. demux \in DemuxType
  BY DEF TypeOK
<1>2. ASSUME NEW n \in 1..MaxChunk, Chain(n) PROVE Follows(demux, demux')
  <2>1. demux'.pad = demux.pad /\ Fields([demux EXCEPT !.ret = "OK"], demux')
    BY <1>2, ChainDoes
  <2>2. demux'.got_par = demux.got_par
    BY <1>1, <2>1 DEF Fields, DemuxType
  <2>. QED BY <2>1, <2>2, FollowsPads
<1>3. CASE ParseHeader
  <2>1. demux'.pad = demux.pad /\ Fields([demux EXCEPT !.ret = "OK"], demux')
    BY <1>3, HeaderDoes
  <2>2. demux'.got_par = demux.got_par
    BY <1>1, <2>1 DEF Fields, DemuxType
  <2>. QED BY <2>1, <2>2, FollowsPads
<1>4. CASE Leave \/ Wait
  BY <1>4, FollowsPads DEF Leave, Wait
<1>5. CASE Garble
  <2>1. demux'.pad = demux.pad /\ demux'.got_par = demux.got_par
    BY <1>1, <1>5 DEF Garble, DemuxType
  <2>. QED BY <2>1, FollowsPads
<1>. QED BY <1>2, <1>3, <1>4, <1>5

LEMMA ParseFollows ==
  ASSUME PushInv, ParseTagType \/ TagTyped \/ TagParsed \/ SeekLastTag \/ ServeSeek
  PROVE  Follows(demux, demux')
<1>1. TypeOK /\ ChainInv /\ AppInv /\ demux \in DemuxType
  BY DEF PushInv, TypeOK
<1>2. CASE ParseTagType
  <2>1. demux'.pad = demux.pad /\ demux'.got_par = demux.got_par
    BY <1>1, <1>2, TypeDoes
  <2>. QED BY <2>1, FollowsPads
<1>3. ASSUME NEW d \in DemuxType, NoIndex(d), d.pad = demux.pad, d.got_par = demux.got_par
      PROVE  Follows(demux, demux')
  BY <1>1, <1>3, NoIndexDoes, FollowsSought
<1>4. CASE TagTyped
  <2>1. NoIndex(demux) \/ demux' = demux
    BY <1>4 DEF TagTyped
  <2>. QED BY <1>1, <1>3, <2>1, FollowsPads
<1>5. CASE TagParsed
  <2>1. NoIndex(Behind) \/ demux' = Behind
    BY <1>1, <1>5, ParsedDoes
  <2>2. Behind \in DemuxType /\ Behind.pad = demux.pad /\ Behind.got_par = demux.got_par
    BY <1>1, BehindDoes DEF Fields
  <2>. QED BY <1>3, <2>1, <2>2, FollowsPads
<1>6. CASE SeekLastTag
  <2> DEFINE d == [demux EXCEPT !.state = "TAG_TYPE"]
  <2>1. \/ NoIndex(demux)
        \/ /\ demux.offset = demux.file_size - SIZE_OF_SIZE /\ d.pad = demux.pad
           /\ d.got_par = demux.got_par
           /\ file # <<>> => SoughtTo(d, Position(Len(file)))
    BY <1>6, LastTagDoes DEF Fields
  <2>. HIDE DEF d
  <2>2. demux.offset = demux.file_size - SIZE_OF_SIZE => file # <<>>
    BY <1>1, FileNotEmpty DEF AppInv, DemuxType, SIZE_OF_SIZE
  <2>. QED BY <1>1, <1>3, <2>1, <2>2, FollowsSought
<1>7. CASE ServeSeek
  <2>1. Fields([demux EXCEPT !.ret = demux'.ret], demux') /\ (Found \/ NotFound)
    BY <1>1, <1>7, ServeSeekDoes
  <2>2. demux'.got_par = demux.got_par
    BY <1>1, <2>1 DEF Fields, DemuxType
  <2>3. SameStreams(demux, demux') \/ BrokenStreams(demux, demux')
    BY <2>1 DEF Found, NotFound, Stays, Goes, Refused
  <2>. QED BY <2>2, <2>3, FollowsStreams
<1>. QED BY <1>2, <1>4, <1>5, <1>6, <1>7

LEMMA AppFollows ==
  ASSUME PushInv,
         \/ Request \/ AppRefused \/ FlushStart \/ FlushEnds \/ Jump \/ Assign
         \/ \E ev \in Events : Seek(ev)
  PROVE  Follows(demux, demux')
<1>1. TypeOK /\ AppInv /\ demux \in DemuxType
  BY DEF PushInv, TypeOK
<1>2. CASE Request
  <2>1. /\ demux'.pad = demux.pad
        /\ Fields([demux EXCEPT !.file_size = demux'.file_size], demux')
    BY <1>2, RequestDoes
  <2>2. demux'.got_par = demux.got_par
    BY <1>1, <2>1 DEF Fields, DemuxType
  <2>. QED BY <2>1, <2>2, FollowsPads
<1>3. CASE AppRefused
  <2>1. Breaks(demux, demux') \/ demux' = demux
    BY <1>1, <1>3, RefusedDoes
  <2>. QED BY <2>1, FollowsQuiet, FollowsPads
<1>4. CASE FlushStart \/ Jump \/ \E ev \in Events : Seek(ev)
  BY <1>4, FollowsPads DEF FlushStart, Jump, Seek
<1>5. CASE FlushEnds
  BY <1>1, <1>5, FlushEndsDoes, FollowsQuiet
<1>6. CASE Assign
  <2>1. /\ Breaks(demux, demux') \/ Quiet(demux, demux') \/ demux'.pad = demux.pad
        /\ demux'.got_par = demux.got_par
    BY <1>1, <1>6, AssignDoes DEF Fields
  <2>. QED BY <2>1, FollowsQuiet, FollowsPads
<1>. QED BY <1>2, <1>3, <1>4, <1>5, <1>6

LEMMA StreamRestart ==
  ASSUME PushInv, StreamInv, Restart
  PROVE  StreamInv'
<1>1. /\ ~demux'.got_par /\ UNCHANGED file
      /\ \A p \in Streams : /\ ~demux'.pad[p].exists /\ demux'.pad[p].need_discont
                            /\ demux'.pad[p].codec = demux.pad[p].codec
  BY RestartDoes DEF PushInv
<1>2. ParInv(demux)'
  BY <1>1 DEF ParInv
<1>3. ASSUME NEW p \in Streams PROVE PadInv(demux, p)'
  BY <1>1 DEF StreamInv, PadInv
<1>. QED BY <1>2, <1>3 DEF StreamInv

\* What a settled file says of the tag at hand.
LEMMA SettledTag ==
  ASSUME TypeOK, AllSettled, NEW i \in DOMAIN file
  PROVE  /\ \A j \in DOMAIN file : file[j].type \in Streams /\ file[j].type = file[i].type
              => file[j].codec = file[i].codec
         /\ HasPar => \A j \in DOMAIN file :
                        ~(file[j].type = "video" /\ file[j].codec = "configured")
<1>1. Settled(file)
  BY DEF TypeOK, AllSettled
<1>. QED BY <1>1 DEF Settled, HasPar

\* A tag leaves a stream without a discontinuity only with its configuration,
\* and a frame is not delivered only where one is due or chain fails.
LEMMA TagStreams ==
  ASSUME TypeOK, AllSettled, StreamInv, NEW flow, NEW m, TagDoes(m, flow),
         demux.tag \in DOMAIN file
  PROVE  /\ ParInv(m) /\ \A p \in Streams : PadInv(m, p)
         /\ \A p \in Streams : p # file[demux.tag].type => m.pad[p] = demux.pad[p]
         /\ file[demux.tag].type \in Streams =>
              LET t == file[demux.tag].type
                  pad == demux.pad[t]
                  new == m.pad[t]
              IN \/ /\ new.out = pad.out /\ new.need_discont = pad.need_discont
                    /\ HasPayload(file[demux.tag]) => pad.need_discont \/ m.ret = "ERROR"
                 \/ /\ flow \notin Closed => new.out.tag = demux.tag
                    /\ flow \notin Closed => new.out.discont = pad.need_discont
                    /\ flow \in Closed => new.out.tag = pad.out.tag
                    /\ HasPayload(file[demux.tag]) /\ new.out.eos = pad.out.eos
<1> DEFINE i == demux.tag
           tag == file[i]
           t == tag.type
<1>1. tag \in Tags
  BY FileIs
<1>2. /\ \A j \in DOMAIN file : file[j].type \in Streams /\ file[j].type = t
           => file[j].codec = tag.codec
      /\ HasPar => \A j \in DOMAIN file :
                     ~(file[j].type = "video" /\ file[j].codec = "configured")
  BY SettledTag
<1>3. ParInv(demux) /\ \A p \in Streams : PadInv(demux, p)
  BY DEF StreamInv
<1>4. ParInv(m)
  <2>1. m.got_par => demux.got_par \/ HasPar
    BY DEF TagDoes
  <2>. QED BY <1>2, <1>3, <2>1 DEF ParInv
<1>5. ASSUME NEW p \in Streams, p # t PROVE m.pad[p] = demux.pad[p]
  <2>1. CASE t \in Streams
    BY <1>5, <2>1 DEF TagDoes, MediaDoes, OnlyPad
  <2>2. CASE t \notin Streams
    BY <2>2 DEF TagDoes
  <2>. QED BY <2>1, <2>2
<1>6. ASSUME t \in Streams
      PROVE  /\ PadInv(m, t)
             /\ LET pad == demux.pad[t]
                    new == m.pad[t]
                IN \/ /\ new.out = pad.out /\ new.need_discont = pad.need_discont
                      /\ HasPayload(tag) => pad.need_discont \/ m.ret = "ERROR"
                   \/ /\ flow \notin Closed => new.out.tag = i
                      /\ flow \notin Closed => new.out.discont = pad.need_discont
                      /\ flow \in Closed => new.out.tag = pad.out.tag
                      /\ HasPayload(tag) /\ new.out.eos = pad.out.eos
  <2> DEFINE pad == demux.pad[t]
             new == m.pad[t]
  <2>1. MediaDoes(demux, m, i, tag, flow) /\ PadInv(demux, t)
    BY <1>3, <1>6 DEF TagDoes
  <2>2. /\ pad.exists => new.exists
        /\ new.codec \in {pad.codec, tag.codec}
        /\ ~pad.exists /\ new.exists => new.codec = tag.codec
        /\ Keeps(demux, t, tag.codec) /\ pad.codec_data => new.codec_data
        /\ new.out.eos = pad.out.eos
        /\ \/ /\ new.out = pad.out /\ new.need_discont = pad.need_discont
              /\ HasPayload(tag) => Dropped(demux, t, tag) \/ m.ret = "ERROR"
           \/ /\ HasPayload(tag) /\ new.exists /\ ~new.need_discont
              /\ new.codec = tag.codec
              /\ tag.codec = "configured" => pad.codec_data
              /\ flow \in Closed =>
                   new.out.tag = pad.out.tag /\ new.out.discont = pad.out.discont
              /\ flow \notin Closed =>
                   new.out.tag = i /\ new.out.discont = pad.need_discont
    BY <2>1 DEF MediaDoes
  <2>3. /\ ~pad.exists => pad.need_discont
        /\ pad.codec \in {"none", tag.codec} /\ (pad.exists => pad.codec = tag.codec)
        /\ ~pad.need_discont /\ pad.codec = "configured" => pad.codec_data
    BY <2>1 DEF PadInv
  <2>4. tag.codec = "configured" => Keeps(demux, t, tag.codec)
    BY <1>3, <1>6, <2>3 DEF Keeps, ParInv
  <2>5. PadInv(m, t)
    <3>1. ~new.exists => new.need_discont
      BY <2>2, <2>3
    <3>2. new.codec \in {"none", tag.codec} /\ (new.exists => new.codec = tag.codec)
      BY <2>2, <2>3
    <3>3. ~new.need_discont /\ new.codec = "configured" => new.codec_data
      BY <2>2, <2>3, <2>4, <3>1, <3>2
    <3>. QED BY <1>2, <1>6, <3>1, <3>2, <3>3 DEF PadInv
  <2>6. HasPayload(tag) /\ Dropped(demux, t, tag) => pad.need_discont
    BY <2>3 DEF Dropped, HasPayload
  <2>. QED BY <2>2, <2>5, <2>6
<1>7. ASSUME NEW p \in Streams PROVE PadInv(m, p)
  <2>1. CASE p # t
    BY <1>3, <1>5, <2>1 DEF PadInv
  <2>. QED BY <1>6, <2>1
<1>. QED BY <1>4, <1>5, <1>6, <1>7

LEMMA StreamTake ==
  ASSUME PushInv, AllSettled, StreamInv, NEW flow \in Returned, TakeTag(flow)
  PROVE  StreamInv'
<1>1. TypeOK /\ ChainInv
  BY DEF PushInv
<1>2. TagDoes(demux', flow) /\ demux.tag \in DOMAIN file /\ UNCHANGED file
  BY <1>1, TakeDoes
<1>3. ParInv(demux') /\ \A p \in Streams : PadInv(demux', p)
  BY <1>1, <1>2, TagStreams
<1>. QED BY <1>2, <1>3 DEF StreamInv, ParInv, PadInv

LEMMA StreamInit == TypeOK /\ Init => StreamInv
BY DEF Init, StreamInv, ParInv, PadInv, NewDemux, NewPad

LEMMA StepFollows ==
  ASSUME PushInv, [Next]_vars
  PROVE  \/ Restart \/ \E flow \in Returned : TakeTag(flow)
         \/ UNCHANGED file /\ Follows(demux, demux')
<1>1. TypeOK
  BY DEF PushInv
<1>2. CASE UNCHANGED vars
  BY <1>2, FollowsPads DEF vars
<1>3. CASE Segment \/ SinkEos
  <2>1. Quiet(demux, demux') \/ Ended(demux, demux')
    BY <1>1, <1>3, SegmentDoes, SinkEosDoes
  <2>. QED BY <1>3, <2>1, FollowsQuiet DEF Segment, SinkEos
<1>4. CASE (\E n \in 1..MaxChunk : Chain(n)) \/ ParseHeader \/ Leave \/ Wait \/ Garble
  <2>1. UNCHANGED file
    BY <1>4 DEF Chain, ParseHeader, Leave, Wait, Garble
  <2>. QED BY <1>1, <1>4, <2>1, ChainFollows
<1>5. CASE ParseTagType \/ TagTyped \/ TagParsed \/ SeekLastTag \/ ServeSeek
  <2>1. UNCHANGED file
    BY <1>5 DEF ParseTagType, TagTyped, TagParsed, SeekLastTag, ServeSeek
  <2>. QED BY <1>5, <2>1, ParseFollows
<1>6. CASE \/ Request \/ AppRefused \/ FlushStart \/ FlushEnds \/ Jump \/ Assign
           \/ \E ev \in Events : Seek(ev)
  <2>1. UNCHANGED file
    BY <1>6 DEF Request, AppRefused, FlushStart, FlushEnds, Jump, Assign, Seek
  <2>. QED BY <1>6, <2>1, AppFollows
<1>7. Next => Steps \/ UNCHANGED vars
  BY NextIs
<1>. QED BY <1>2, <1>3, <1>4, <1>5, <1>6, <1>7 DEF Steps

LEMMA StreamStep ==
  ASSUME PushInv, AllSettled, StreamInv, [Next]_vars
  PROVE  StreamInv'
BY StepFollows, StreamFrame, StreamRestart, StreamTake

---------------------------------------------------------------------------
(* The streams: in the order of the file. *)

\* A step that moves upstream without a flush, or has not yet marked it, is none
\* of these.
Onward ==
  /\ past'.jumped = past.jumped /\ (past.stayed => past'.stayed)
  /\ (past.raced => past'.raced) /\ (past.garbled => past'.garbled)
  /\ upstream'.discont = upstream.discont
  /\ app' = app \/ app.pc # "assign" \/ app.kind # "seek"

\* A pad that goes on where it was.
Lasts(x, y) ==
  /\ y.out.tag = x.out.tag /\ (x.need_discont => y.need_discont)
  /\ x.out.eos => y.out.eos

LEMMA SoundBack ==
  ASSUME Onward, Sound'
  PROVE  Sound
BY DEF Onward, Sound, Calm

LEMMA PositionsAre ==
  ASSUME TypeOK
  PROVE  /\ adapter.at \in Nat /\ adapter.len \in Nat /\ upstream.pos \in Nat
         /\ \A p \in Streams : /\ demux.pad[p].out.tag \in Nat
                               /\ Position(demux.pad[p].out.tag) = 3 * demux.pad[p].out.tag - 2
                               /\ Position(demux.pad[p].out.tag + 1) = 3 * demux.pad[p].out.tag + 1
         /\ \A p \in Streams : Continues(p) => adapter.at # 0
<1>1. adapter.at \in Nat /\ adapter.len \in Nat /\ upstream.pos \in Nat
  BY DEF TypeOK, UpstreamType
<1>2. ASSUME NEW p \in Streams
      PROVE  LET last == demux.pad[p].out.tag IN
             /\ last \in Nat /\ Position(last) = 3 * last - 2
             /\ Position(last + 1) = 3 * last + 1
  <2>1. demux.pad[p] \in PadType
    BY PadOf DEF TypeOK
  <2>2. demux.pad[p].out \in OutType
    BY <2>1 DEF PadType
  <2>3. demux.pad[p].out.tag \in Nat
    BY <2>2 DEF OutType
  <2>. QED BY <2>3 DEF Position, FLV_HEADER_SIZE
<1>3. ASSUME NEW p \in Streams, Continues(p) PROVE adapter.at # 0
  BY <1>1, <1>2, <1>3 DEF Continues
<1>. QED BY <1>1, <1>2, <1>3

\* Every stream that goes on stays where it is, and chain with what it holds.
LEMMA OrderFrame ==
  ASSUME TypeOK, OrderInv, UNCHANGED <<file, adapter>>, Onward,
         upstream'.pos = upstream.pos, flushing => flushing', Failing => Failing',
         \A p \in Streams : Lasts(demux.pad[p], demux'.pad[p]),
         ~past'.stayed /\ Whole /\ AtState /\ adapter.at # 0 => AtState'
  PROVE  OrderInv'
<1>1. SUFFICES ASSUME Sound', NEW p \in Streams
               PROVE  /\ upstream'.discont =>
                           \/ demux'.pad[p].need_discont
                           \/ past'.jumped /\ app'.pc = "assign" /\ app'.kind = "seek"
                      /\ GoesOn(p)' =>
                           /\ Continues(p)' /\ Whole'
                           /\ ~past'.jumped /\ ~past'.stayed => AtState'
  BY DEF OrderInv
<1>2. /\ upstream.discont =>
           \/ demux.pad[p].need_discont
           \/ past.jumped /\ app.pc = "assign" /\ app.kind = "seek"
      /\ GoesOn(p) =>
           /\ Continues(p) /\ Whole
           /\ ~past.jumped /\ ~past.stayed => AtState
  BY <1>1, SoundBack DEF OrderInv
<1>3. Lasts(demux.pad[p], demux'.pad[p])
  OBVIOUS
<1>4. GoesOn(p)' => GoesOn(p)
  BY <1>3 DEF GoesOn, Lasts, Onward
<1>5. Continues(p)' = Continues(p) /\ Whole' = Whole
  BY <1>3 DEF Continues, Lasts, Whole, Frames
<1>6. Continues(p) => adapter.at # 0
  BY PositionsAre
<1>7. ~past'.jumped /\ ~past'.stayed => ~past.jumped /\ ~past.stayed
  BY DEF Onward
<1>. QED BY <1>2, <1>3, <1>4, <1>5, <1>6, <1>7 DEF Onward, Lasts

\* Every stream is told of a discontinuity.
LEMMA OrderBroken ==
  ASSUME \A p \in Streams : demux'.pad[p].need_discont
  PROVE  OrderInv'
BY DEF OrderInv, GoesOn

\* Nothing goes out any more.
LEMMA OrderStops ==
  ASSUME OrderInv, UNCHANGED demux, Onward, flushing' \/ Failing'
  PROVE  OrderInv'
BY SoundBack DEF OrderInv, GoesOn, Onward

\* Where chain stands does not depend on what the pads are.
LEMMA StateKept ==
  ASSUME UNCHANGED <<file, adapter, chain>>, demux'.tag = demux.tag,
         demux'.state = demux.state
  PROVE  AtState' = AtState
BY DEF AtState, AtTag, Expected, FileSize

LEMMA OrderUpstream ==
  ASSUME PushInv, OrderInv, Segment \/ SinkEos
  PROVE  OrderInv'
<1>1. TypeOK
  BY DEF PushInv
<1>2. /\ Fields(demux, demux') /\ demux'.state = demux.state
      /\ \A p \in Streams : Lasts(demux.pad[p], demux'.pad[p])
  BY <1>1, SegmentDoes, SinkEosDoes DEF Quiet, Ended, Lasts
<1>3. /\ UNCHANGED <<file, adapter, chain, app, past, flushing>>
      /\ upstream'.pos = upstream.pos /\ upstream'.discont = upstream.discont
      /\ upstream'.stopped = upstream.stopped
  BY <1>1 DEF Segment, SinkEos, TypeOK, UpstreamType
<1>4. Onward
  BY <1>3 DEF Onward
<1>5. Failing => Failing'
  BY <1>2, <1>3 DEF Failing, Fields
<1>6. AtState' = AtState
  BY <1>2, <1>3, StateKept DEF Fields
<1>. QED BY <1>1, <1>2, <1>3, <1>4, <1>5, <1>6, OrderFrame

\* A chunk is the next one of the file, or every stream knows that it is not.
LEMMA OrderChain ==
  ASSUME PushInv, OrderInv, NEW n \in 1..MaxChunk, Chain(n)
  PROVE  OrderInv'
<1>1. TypeOK /\ ChainInv /\ PushInv'
  BY KeepsChain DEF PushInv
<1>2. /\ demux'.pad = demux.pad
      /\ Fields([demux EXCEPT !.ret = "OK"], demux') /\ demux'.ret = "OK"
      /\ demux'.state = (IF request.seeking THEN "SEEK"
                         ELSE IF upstream.pos = 0 THEN "HEADER" ELSE demux.state)
      /\ adapter'.at = (IF upstream.discont \/ adapter.len = 0 THEN upstream.pos
                        ELSE adapter.at)
      /\ upstream' = [upstream EXCEPT !.pos = @ + n, !.discont = FALSE]
  BY <1>1, ChainDoes
<1>3. /\ chain' = "parse" /\ chain = "idle" /\ UNCHANGED <<file, flushing, app>>
      /\ past' = [past EXCEPT !.raced = @ \/ Racing] /\ ~upstream.stopped
  BY DEF Chain, CanSend
<1>4. demux'.tag = demux.tag
  BY <1>1, <1>2 DEF TypeOK, Fields, DemuxType
<1>5. upstream'.discont = FALSE
  BY <1>1, <1>2 DEF TypeOK, UpstreamType
<1>6. /\ past'.stayed = past.stayed /\ past'.jumped = past.jumped
      /\ past'.garbled = past.garbled /\ past'.raced = (past.raced \/ Racing)
  BY <1>1, <1>3 DEF TypeOK, PastType
<1>7. Whole'
  BY <1>1, <1>3 DEF PushInv, ChainInv
<1>8. SUFFICES ASSUME Sound', NEW p \in Streams, GoesOn(p)'
               PROVE  Continues(p)' /\ (~past'.jumped /\ ~past'.stayed => AtState')
  BY <1>5, <1>7 DEF OrderInv
<1>9. Sound
  BY <1>6, <1>8 DEF Sound, Calm
<1>10. ~demux.pad[p].need_discont /\ ~demux.pad[p].out.eos /\ ~flushing
  BY <1>2, <1>3, <1>8 DEF GoesOn
<1>11. ~upstream.discont
  <2>1. SUFFICES ASSUME upstream.discont PROVE FALSE
    OBVIOUS
  <2>2. past.jumped /\ app.pc = "assign"
    BY <1>9, <1>10, <2>1 DEF OrderInv
  <2>3. past'.raced /\ past'.jumped
    BY <1>6, <2>2 DEF Racing
  <2>. QED BY <1>8, <2>3 DEF Sound, Calm
<1>12. GoesOn(p)
  BY <1>3, <1>10, <1>11 DEF GoesOn, Failing
<1>13. Continues(p) /\ Whole /\ (~past.jumped /\ ~past.stayed => AtState)
  BY <1>9, <1>12 DEF OrderInv
<1>14. adapter'.at = adapter.at /\ adapter.at # 0 /\ upstream.pos # 0
  BY <1>1, <1>2, <1>11, <1>13, PositionsAre DEF Whole
<1>15. Continues(p)'
  BY <1>2, <1>3, <1>13, <1>14 DEF Continues, Frames
<1>16. ASSUME AtState PROVE AtState'
  <2>1. AtTag
    BY <1>1, <1>3, <1>14, <1>16, AtTagIs
  <2>2. CASE request.seeking
    BY <1>2, <1>3, <1>14, <2>1, <2>2 DEF AtState, AtTag, FileSize
  <2>3. CASE ~request.seeking
    BY <1>1, <1>2, <1>3, <1>4, <1>14, <1>16, <2>1, <2>3
       DEF AtState, AtTag, FileSize, Expected
  <2>. QED BY <2>2, <2>3
<1>. QED BY <1>6, <1>13, <1>15, <1>16

LEMMA OrderLeave ==
  ASSUME PushInv, OrderInv, Leave
  PROVE  OrderInv'
<1>1. /\ chain' = "idle" /\ upstream' = [upstream EXCEPT !.stopped = TRUE]
      /\ UNCHANGED <<demux, app, past>> /\ upstream \in UpstreamType
  BY DEF Leave, PushInv, TypeOK
<1>2. upstream'.stopped /\ upstream'.discont = upstream.discont
  BY <1>1, StoppedType
<1>3. Onward /\ Failing'
  BY <1>1, <1>2 DEF Onward, Failing
<1>. QED BY <1>1, <1>3, OrderStops

LEMMA OrderWait ==
  ASSUME PushInv, OrderInv, Wait
  PROVE  OrderInv'
<1>1. /\ UNCHANGED <<file, demux, flushing, adapter, upstream, app, past>>
      /\ chain = "parse" /\ chain' = "idle" /\ demux.ret = "OK"
  BY DEF Wait, Parsing
<1>2. Onward /\ ~Failing /\ (AtState => AtState')
  BY <1>1 DEF Onward, Failing, AtState, AtTag, Expected, FileSize
<1>3. \A p \in Streams : Lasts(demux.pad[p], demux'.pad[p])
  BY <1>1 DEF Lasts
<1>. QED BY <1>1, <1>2, <1>3, OrderFrame DEF PushInv

\* Other bytes are parsed only after a seek that raced with chain.
LEMMA OrderGarble ==
  ASSUME PushInv, OrderInv, Garble
  PROVE  OrderInv'
<1>1. /\ TypeOK /\ UNCHANGED <<file, flushing, upstream, app>>
      /\ demux' = [demux EXCEPT !.state = "TAG_TYPE"] /\ demux.ret = "OK"
      /\ past' = [past EXCEPT !.garbled = TRUE] /\ chain = "parse"
      /\ demux.state # "SEEK" /\ ~Expected(demux.state)
  BY DEF Garble, Parsing, PushInv, TagStates
<1>2. demux'.pad = demux.pad
  BY <1>1 DEF TypeOK, DemuxType
<1>3. past'.garbled /\ past'.jumped = past.jumped /\ past'.stayed = past.stayed
  BY <1>1 DEF TypeOK, PastType
<1>4. ~AtState
  BY <1>1 DEF AtState
<1>5. SUFFICES ASSUME Sound', NEW p \in Streams
               PROVE  /\ upstream'.discont => demux'.pad[p].need_discont
                      /\ ~GoesOn(p)'
  BY DEF OrderInv
<1>6. ~past.jumped /\ ~past.stayed
  BY <1>3, <1>5 DEF Sound, Calm
<1>7. ~GoesOn(p) /\ (upstream.discont => demux.pad[p].need_discont)
  BY <1>4, <1>6 DEF OrderInv, Sound
<1>8. GoesOn(p)' => GoesOn(p)
  BY <1>1, <1>2 DEF GoesOn, Failing
<1>. QED BY <1>1, <1>2, <1>7, <1>8

LEMMA OrderHeader ==
  ASSUME PushInv, OrderInv, ParseHeader
  PROVE  OrderInv'
<1>1. TypeOK /\ demux'.pad = demux.pad /\ adapter.at = 0
  BY HeaderDoes DEF PushInv
<1>2. /\ UNCHANGED <<flushing, upstream, app, past>> /\ chain = "parse" /\ demux.ret = "OK"
  BY DEF ParseHeader, Parsing
<1>3. SUFFICES ASSUME Sound', NEW p \in Streams
               PROVE  /\ upstream'.discont =>
                           \/ demux'.pad[p].need_discont
                           \/ past'.jumped /\ app'.pc = "assign" /\ app'.kind = "seek"
                      /\ ~GoesOn(p)'
  BY DEF OrderInv
<1>4. /\ upstream.discont =>
           \/ demux.pad[p].need_discont
           \/ past.jumped /\ app.pc = "assign" /\ app.kind = "seek"
      /\ GoesOn(p) => Continues(p)
  BY <1>2, <1>3 DEF OrderInv, Sound, Calm
<1>5. ~Continues(p)
  BY <1>1, PositionsAre
<1>6. GoesOn(p)' => GoesOn(p)
  BY <1>1, <1>2 DEF GoesOn, Failing
<1>. QED BY <1>1, <1>2, <1>4, <1>5, <1>6

\* A tag that begins here is not behind any that is to come.
LEMMA OrderType ==
  ASSUME PushInv, OrderInv, ParseTagType
  PROVE  OrderInv'
<1> DEFINE i == TagAt(file, adapter.at)
<1>1. /\ TypeOK /\ ChainInv /\ i \in DOMAIN file /\ adapter.at = Position(i)
      /\ demux'.tag = i /\ demux'.pad = demux.pad
      /\ adapter' = [at |-> adapter.at + 1, len |-> adapter.len - 1]
  BY TypeDoes DEF PushInv
<1>2. i \in Nat /\ Position(i) = 3 * i - 2
  BY <1>1, FileIs
<1> HIDE DEF i
<1>3. /\ UNCHANGED <<file, flushing, upstream, app, past>> /\ chain = "parse"
      /\ chain' = "typed" /\ demux.ret = "OK"
  BY DEF ParseTagType, Parsing
<1>4. adapter'.at = adapter.at + 1 /\ adapter'.len = adapter.len - 1
  BY <1>1
<1>5. SUFFICES ASSUME Sound', NEW p \in Streams
               PROVE  /\ upstream'.discont =>
                           \/ demux'.pad[p].need_discont
                           \/ past'.jumped /\ app'.pc = "assign" /\ app'.kind = "seek"
                      /\ GoesOn(p)' => Continues(p)' /\ Whole' /\ AtState'
  BY DEF OrderInv
<1>6. /\ upstream.discont =>
           \/ demux.pad[p].need_discont
           \/ past.jumped /\ app.pc = "assign" /\ app.kind = "seek"
      /\ GoesOn(p) => Continues(p) /\ Whole
  BY <1>3, <1>5 DEF OrderInv, Sound, Calm
<1>7. GoesOn(p)' => GoesOn(p)
  BY <1>1, <1>3 DEF GoesOn, Failing
<1>8. ASSUME Continues(p), Whole PROVE Continues(p)' /\ Whole'
  <2> DEFINE last == demux.pad[p].out.tag
  <2>1. /\ last # 0 /\ Position(last + 1) <= adapter.at
        /\ \A k \in Frames(p) : last < k => adapter.at <= Position(k) + FLV_TAG_TYPE_SIZE
    BY <1>8 DEF Continues
  <2>2. adapter.at \in Nat /\ adapter.len \in Nat /\ upstream.pos \in Nat
        /\ last \in Nat /\ Position(last + 1) = 3 * last + 1
    BY <1>1, PositionsAre
  <2>3. Whole'
    BY <1>3, <1>4, <1>8, <2>2 DEF Whole
  <2>4. ASSUME NEW k \in Frames(p), last < k
        PROVE  adapter.at + 1 <= Position(k) + FLV_TAG_TYPE_SIZE
    <3>1. k \in Nat /\ Position(k) = 3 * k - 2
      BY <1>1, FileIs DEF Frames
    <3>2. adapter.at <= Position(k) + FLV_TAG_TYPE_SIZE
      BY <2>1, <2>4
    <3>. QED BY <1>1, <1>2, <3>1, <3>2 DEF FLV_TAG_TYPE_SIZE
  <2>. QED BY <1>1, <1>3, <1>4, <2>1, <2>2, <2>3, <2>4 DEF Continues, Frames
<1>9. AtState'
  BY <1>1, <1>3, <1>4 DEF AtState, FLV_TAG_TYPE_SIZE
<1>. QED BY <1>1, <1>3, <1>6, <1>7, <1>8, <1>9

\* The streams end, or chain goes on with what it holds.
LEMMA OrderNoIndex ==
  ASSUME PushInv, OrderInv, NEW d \in DemuxType, NoIndex(d), UNCHANGED <<file, app>>,
         d.pad = demux.pad, ~Failing,
         demux' = d /\ UNCHANGED adapter /\ AtState => AtState'
  PROVE  OrderInv'
<1>1. /\ TypeOK /\ SoughtTo(d, 0) /\ past' = [past EXCEPT !.raced = @ \/ Racing]
  BY NoIndexDoes DEF PushInv
<1>2. CASE BrokenStreams(d, demux')
  BY <1>2, OrderBroken DEF BrokenStreams
<1>3. CASE demux' = d /\ UNCHANGED <<adapter, flushing, upstream>>
  <2>1. /\ past'.jumped = past.jumped /\ past'.stayed = past.stayed
        /\ past'.garbled = past.garbled /\ past'.raced = (past.raced \/ Racing)
    BY <1>1 DEF TypeOK, PastType
  <2>2. Onward
    BY <1>3, <2>1 DEF Onward
  <2>3. \A p \in Streams : Lasts(demux.pad[p], demux'.pad[p])
    BY <1>3 DEF Lasts
  <2>. QED BY <1>1, <1>3, <2>2, <2>3, OrderFrame
<1>. QED BY <1>1, <1>2, <1>3 DEF SoughtTo

LEMMA OrderTyped ==
  ASSUME PushInv, OrderInv, TagTyped
  PROVE  OrderInv'
<1>1. /\ TypeOK /\ ChainInv /\ demux \in DemuxType /\ UNCHANGED <<file, app>>
      /\ chain = "typed" /\ ~Failing
  BY DEF PushInv, TypeOK, TagTyped, Failing
<1>2. demux.tag \in DOMAIN file /\ demux.state \in TagStates \cup {"SEEK"}
  BY <1>1 DEF ChainInv
<1>3. ASSUME UNCHANGED <<demux, adapter>>, chain' \in {"idle", "parse"}, AtState PROVE AtState'
  <2>1. adapter.at = Position(demux.tag) + FLV_TAG_TYPE_SIZE
    BY <1>1, <1>3 DEF AtState
  <2>. QED BY <1>1, <1>2, <1>3, <2>1 DEF AtState, AtTag, Expected, TagStates
<1>4. CASE NoIndex(demux)
  <2>1. chain' = "idle"
    BY <1>4 DEF NoIndex
  <2>. QED BY <1>1, <1>3, <1>4, <2>1, OrderNoIndex
<1>5. CASE chain' = "parse" /\ UNCHANGED <<demux, request, flushing, adapter, upstream, past>>
  <2>1. Onward /\ \A p \in Streams : Lasts(demux.pad[p], demux'.pad[p])
    BY <1>1, <1>5 DEF Onward, Lasts
  <2>. QED BY <1>1, <1>3, <1>5, <2>1, OrderFrame
<1>. QED BY <1>4, <1>5 DEF TagTyped

LEMMA OrderParsed ==
  ASSUME PushInv, OrderInv, TagParsed
  PROVE  OrderInv'
<1>1. /\ TypeOK /\ ChainInv /\ UNCHANGED <<file, app>> /\ chain = "parsed"
  BY DEF PushInv, TagParsed
<1>2. /\ Behind \in DemuxType /\ Fields(demux, Behind) /\ Behind.pad = demux.pad
      /\ Behind.state \in {"SEEK", "TAG_TYPE"}
  BY <1>1, BehindDoes
<1>3. demux.tag \in DOMAIN file
  BY <1>1 DEF ChainInv
<1>4. ASSUME demux' = Behind, UNCHANGED adapter, chain' \in {"idle", "parse"}, AtState
      PROVE  AtState'
  <2>1. adapter.at = Position(demux.tag + 1)
    BY <1>1, <1>4 DEF AtState
  <2>2. adapter.at \in Starts(file) \cup {FileSize}
    <3>1. CASE demux.tag = Len(file)
      BY <2>1, <3>1 DEF FileSize, Size
    <3>2. CASE demux.tag # Len(file)
      <4>1. demux.tag + 1 \in DOMAIN file
        BY <1>1, <1>3, <3>2, FileIs
      <4>. QED BY <2>1, <4>1 DEF Starts
    <3>. QED BY <3>1, <3>2
  <2>. QED BY <1>1, <1>2, <1>4, <2>2 DEF AtState, AtTag, Expected, FileSize
<1>5. CASE /\ file[demux.tag].type = "script" /\ NoIndex(Behind)
  <2>1. chain' = "idle" /\ ~Failing
    BY <1>1, <1>5 DEF NoIndex, Failing
  <2>. QED BY <1>1, <1>2, <1>4, <1>5, <2>1, OrderNoIndex
<1>6. CASE /\ demux' = Behind /\ chain' = "parse"
           /\ UNCHANGED <<request, flushing, adapter, upstream, past>>
  <2>1. Onward /\ \A p \in Streams : Lasts(demux.pad[p], demux'.pad[p])
    BY <1>1, <1>2, <1>6 DEF Onward, Lasts
  <2>2. Failing => Failing'
    BY <1>1, <1>2, <1>6 DEF Failing, Fields
  <2>. QED BY <1>1, <1>4, <1>6, <2>1, <2>2, OrderFrame
<1>. QED BY <1>1, <1>5, <1>6, ParsedDoes

\* The last four bytes are never at hand where upstream cannot seek, unless a
\* seek left chain in the middle of a tag.
LEMMA OrderLastTag ==
  ASSUME PushInv, IndexInv, FixedInv, OrderInv, SeekLastTag
  PROVE  OrderInv'
<1>1. /\ TypeOK /\ ChainInv /\ AppInv /\ demux \in DemuxType /\ UNCHANGED <<file, app>>
      /\ chain = "parse" /\ demux.ret = "OK" /\ demux.state = "SEEK" /\ ~Failing
  BY DEF PushInv, TypeOK, SeekLastTag, Parsing, Failing
<1>2. CASE NoIndex(demux)
  <2>1. demux' = demux /\ UNCHANGED adapter /\ AtState => AtState'
    BY <1>1, <1>2 DEF NoIndex, AtState, AtTag, FileSize
  <2>. QED BY <1>1, <1>2, <2>1, OrderNoIndex
<1>3. CASE ~NoIndex(demux)
  <2> DEFINE d == [demux EXCEPT !.state = "TAG_TYPE"]
             last == Position(Len(file))
  <2>1. /\ demux.offset = demux.file_size - SIZE_OF_SIZE /\ d.pad = demux.pad
        /\ chain' = "idle" /\ UNCHANGED past
        /\ file # <<>> => SoughtTo(d, last)
    BY <1>3, LastTagDoes
  <2>. HIDE DEF d, last
  <2>2. file # <<>> /\ demux.file_size = FileSize
    BY <1>1, <2>1 DEF AppInv, DemuxType, SIZE_OF_SIZE
  <2>3. CASE BrokenStreams(d, demux')
    BY <2>3, OrderBroken DEF BrokenStreams
  <2>4. CASE ~upstream.seekable /\ demux' = d /\ UNCHANGED <<adapter, flushing, upstream>>
    <3>1. past.stayed
      <4>1. SUFFICES ASSUME ~past.stayed PROVE FALSE
        OBVIOUS
      <4>2. Swallowed \/ (Counted /\ AtState)
        BY <1>1, <2>4, <4>1, FixedRunning
      <4>3. ~Swallowed
        BY <1>1, <2>2, <2>4, FileNotEmpty DEF IndexInv, Untouched, Swallowed
      <4>4. adapter.at = FileSize - SIZE_OF_SIZE
        BY <1>1, <2>1, <2>2, <4>2, <4>3 DEF Counted
      <4>5. AtTag
        BY <1>1, <4>2, <4>3 DEF AtState
      <4>. QED BY <1>1, <4>4, <4>5, LastBytes
    <3>2. Onward /\ past'.stayed
      BY <1>1, <2>1, <2>4, <3>1 DEF Onward
    <3>3. \A p \in Streams : Lasts(demux.pad[p], demux'.pad[p])
      BY <2>1, <2>4 DEF Lasts
    <3>. QED BY <1>1, <2>4, <3>2, <3>3, OrderFrame
  <2>. QED BY <2>1, <2>2, <2>3, <2>4 DEF SoughtTo
<1>. QED BY <1>2, <1>3

LEMMA OrderServe ==
  ASSUME PushInv, OrderInv, ServeSeek
  PROVE  OrderInv'
<1>1. /\ TypeOK /\ chain = "parse" /\ chain' = "idle" /\ ~flushing /\ demux.ret = "OK"
      /\ Found \/ NotFound
      /\ UNCHANGED <<file, app>>
  BY ServeSeekDoes DEF PushInv
<1>2. ~Failing
  BY <1>1 DEF Failing
<1>3. ASSUME NEW history \in PastType, SameHistory(history), Stays(history) PROVE OrderInv'
  <2>1. /\ past'.jumped = past.jumped /\ past'.stayed /\ past'.raced = past.raced
        /\ past'.garbled = past.garbled
    BY <1>3 DEF SameHistory, Stays, PastType
  <2>2. Onward
    BY <1>1, <1>3, <2>1 DEF Onward, Stays
  <2>3. \A p \in Streams : Lasts(demux.pad[p], demux'.pad[p])
    BY <1>3 DEF Lasts, Stays, SameStreams
  <2>. QED BY <1>1, <1>2, <1>3, <2>1, <2>2, <2>3, OrderFrame DEF Stays
<1>4. CASE BrokenStreams(demux, demux')
  BY <1>4, OrderBroken DEF BrokenStreams
<1>5. CASE NotFound
  <2>1. /\ upstream' = [upstream EXCEPT !.stopped = TRUE] /\ SameHistory(past')
        /\ UNCHANGED <<adapter, flushing>> /\ SameStreams(demux, demux')
    BY <1>5 DEF NotFound
  <2>2. upstream'.stopped /\ upstream'.discont = upstream.discont
    BY <1>1, <2>1, StoppedType DEF TypeOK
  <2>3. Onward /\ Failing'
    BY <1>1, <2>1, <2>2 DEF Onward, SameHistory, Failing
  <2>4. SUFFICES ASSUME Sound', NEW p \in Streams
                 PROVE  upstream'.discont =>
                          \/ demux'.pad[p].need_discont
                          \/ past'.jumped /\ app'.pc = "assign" /\ app'.kind = "seek"
    BY <2>3 DEF OrderInv, GoesOn
  <2>5. upstream.discont =>
          \/ demux.pad[p].need_discont
          \/ past.jumped /\ app.pc = "assign" /\ app.kind = "seek"
    BY <2>3, <2>4, SoundBack DEF OrderInv
  <2>. QED BY <1>1, <2>1, <2>2, <2>5 DEF SameHistory, SameStreams
<1>6. Found => BrokenStreams(demux, demux') \/ \E history \in PastType :
                 SameHistory(history) /\ Stays(history)
  BY DEF Found, Goes, Refused
<1>. QED BY <1>1, <1>3, <1>4, <1>5, <1>6

\* A frame that is not delivered leaves no stream that goes on behind.
LEMMA OrderTake ==
  ASSUME PushInv, AllSettled, StreamInv, OrderInv, NEW flow \in Returned, TakeTag(flow)
  PROVE  OrderInv'
<1> DEFINE i == demux.tag
           t == file[i].type
<1>1. /\ TypeOK /\ ChainInv /\ TagDoes(demux', flow) /\ i \in DOMAIN file
      /\ chain = "parse" /\ chain' = "parsed" /\ ~flushing /\ demux.ret = "OK"
      /\ adapter' = [at |-> adapter.at + 2, len |-> adapter.len - 2]
      /\ adapter.at = Position(i) + FLV_TAG_TYPE_SIZE
      /\ UNCHANGED <<file, flushing, upstream, app, past>>
  BY TakeDoes DEF PushInv
<1>2. /\ i \in Nat /\ Position(i) = 3 * i - 2 /\ Position(i + 1) = 3 * i + 1
  BY <1>1, FileIs
<1>3. /\ adapter'.at = adapter.at + 2 /\ adapter'.len = adapter.len - 2
      /\ adapter.at = 3 * i - 1 /\ adapter'.at = 3 * i + 1
      /\ adapter.len \in Nat /\ adapter.at \in Nat /\ upstream.pos \in Nat
  BY <1>1, <1>2, PositionsAre DEF FLV_TAG_TYPE_SIZE
<1>4. demux'.tag = i
  BY <1>1 DEF TagDoes, SamePlace
<1>5. AtState'
  BY <1>1, <1>2, <1>3, <1>4 DEF AtState
<1>6. Whole'
  BY <1>1, KeepsTake DEF PushInv, ChainInv
<1>7. ~upstream.discont
  BY <1>1 DEF ChainInv
<1>8. SUFFICES ASSUME Sound', NEW p \in Streams, GoesOn(p)' PROVE Continues(p)'
  BY <1>1, <1>5, <1>6, <1>7 DEF OrderInv
<1>9. ~demux.pad[p].need_discont /\ ~demux.pad[p].out.eos => GoesOn(p)
  BY <1>1, <1>7 DEF GoesOn, Failing
<1>10. GoesOn(p) => Continues(p)
  BY <1>1, <1>8 DEF OrderInv, Sound, Calm
<1>11. demux'.ret # "ERROR" \/ t = "script"
  BY <1>1, <1>4, <1>8 DEF GoesOn, Failing
\* A tag that is no frame of the stream is passed.
<1>12. ASSUME i \notin Frames(p), demux'.pad[p].out.tag = demux.pad[p].out.tag, Continues(p)
       PROVE  Continues(p)'
  <2> DEFINE last == demux.pad[p].out.tag
  <2>1. /\ last # 0 /\ Position(last + 1) <= adapter.at
        /\ \A k \in Frames(p) : last < k => adapter.at <= Position(k) + FLV_TAG_TYPE_SIZE
    BY <1>12 DEF Continues
  <2>2. last \in Nat /\ Position(last + 1) = 3 * last + 1
    BY <1>1, PositionsAre
  <2>3. ASSUME NEW k \in Frames(p), last < k
        PROVE  adapter'.at <= Position(k) + FLV_TAG_TYPE_SIZE
    <3>1. k \in Nat /\ Position(k) = 3 * k - 2
      BY <1>1, FileIs DEF Frames
    <3>2. adapter.at <= Position(k) + FLV_TAG_TYPE_SIZE /\ k # i
      BY <1>12, <2>1, <2>3
    <3>. QED BY <1>2, <1>3, <3>1, <3>2 DEF FLV_TAG_TYPE_SIZE
  <2>4. Position(last + 1) <= adapter'.at
    BY <1>3, <2>1, <2>2
  <2>. QED BY <1>1, <1>12, <2>1, <2>3, <2>4 DEF Continues, Frames
<1>13. CASE p # t
  <2>1. demux'.pad[p] = demux.pad[p]
    BY <1>1, <1>13, TagStreams
  <2>2. i \notin Frames(p)
    BY <1>13 DEF Frames
  <2>3. GoesOn(p)
    BY <1>8, <1>9, <2>1 DEF GoesOn
  <2>. QED BY <1>10, <1>12, <2>1, <2>2, <2>3
<1>14. CASE p = t
  <2> DEFINE pad == demux.pad[t]
             new == demux'.pad[t]
  <2>1. \/ /\ new.out = pad.out /\ new.need_discont = pad.need_discont
           /\ HasPayload(file[i]) => pad.need_discont \/ demux'.ret = "ERROR"
        \/ /\ flow \notin Closed => new.out.tag = i
           /\ flow \in Closed => new.out.tag = pad.out.tag
           /\ HasPayload(file[i]) /\ new.out.eos = pad.out.eos
    BY <1>1, <1>14, TagStreams
  <2>2. t # "script"
    BY <1>14 DEF Streams
  <2>3. CASE /\ new.out = pad.out /\ new.need_discont = pad.need_discont
             /\ HasPayload(file[i]) => pad.need_discont \/ demux'.ret = "ERROR"
    <3>1. GoesOn(p) /\ ~HasPayload(file[i])
      BY <1>8, <1>9, <1>11, <1>14, <2>2, <2>3 DEF GoesOn
    <3>2. i \notin Frames(p)
      BY <3>1 DEF Frames
    <3>. QED BY <1>10, <1>12, <1>14, <2>3, <3>1, <3>2
  <2>4. CASE /\ flow \notin Closed => new.out.tag = i
             /\ new.out.eos = pad.out.eos
    <3>1. ~pad.out.eos
      BY <1>8, <1>14, <2>4 DEF GoesOn
    <3>2. flow \notin Closed
      BY <1>1, <3>1, ReturnedIs DEF Closed
    <3>3. demux'.pad[p].out.tag = i
      BY <1>14, <2>4, <3>2
    <3>4. ASSUME NEW k \in Frames(p), i < k
          PROVE  adapter'.at <= Position(k) + FLV_TAG_TYPE_SIZE
      <4>1. k \in Nat /\ Position(k) = 3 * k - 2
        BY <1>1, FileIs DEF Frames
      <4>. QED BY <1>2, <1>3, <3>4, <4>1 DEF FLV_TAG_TYPE_SIZE
    <3>5. i # 0 /\ Position(i + 1) <= adapter'.at
      BY <1>1, <1>2, <1>3, FileIs
    <3>. QED BY <1>1, <3>3, <3>4, <3>5 DEF Continues, Frames
  <2>. QED BY <2>1, <2>3, <2>4
<1>. QED BY <1>13, <1>14

\* The application's thread marks a discontinuity, or leaves the streams alone.
LEMMA OrderApp ==
  ASSUME PushInv, OrderInv,
         (\E ev \in Events : Seek(ev)) \/ Request \/ AppRefused
  PROVE  OrderInv'
<1>1. TypeOK /\ ChainInv
  BY DEF PushInv
<1>2. ASSUME UNCHANGED <<file, adapter, upstream, flushing, past, chain>>,
             app.pc # "assign", demux'.tag = demux.tag, demux'.ret = demux.ret,
             \A p \in Streams : Lasts(demux.pad[p], demux'.pad[p]),
             AtState /\ adapter.at # 0 => AtState'
      PROVE  OrderInv'
  <2>1. Onward /\ (Failing => Failing')
    BY <1>2 DEF Onward, Failing
  <2>. QED BY <1>1, <1>2, <2>1, OrderFrame
<1>3. CASE \E ev \in Events : Seek(ev)
  <2>1. /\ app.pc = "idle"
        /\ UNCHANGED <<file, demux, flushing, adapter, chain, upstream, past>>
    BY <1>3 DEF Seek
  <2>2. AtState' = AtState /\ \A p \in Streams : Lasts(demux.pad[p], demux'.pad[p])
    BY <2>1, StateKept DEF Lasts
  <2>. QED BY <1>2, <2>1, <2>2
<1>4. CASE Request
  <2>1. /\ app.pc = "request" /\ demux'.pad = demux.pad /\ demux'.state = "SEEK"
        /\ Fields([demux EXCEPT !.file_size = demux'.file_size], demux')
        /\ UNCHANGED <<file, flushing, adapter, chain, upstream, past>>
    BY <1>4, RequestDoes
  <2>2. demux'.tag = demux.tag /\ demux'.ret = demux.ret
    BY <1>1, <2>1 DEF Fields, TypeOK, DemuxType
  <2>3. ASSUME AtState, adapter.at # 0 PROVE AtState'
    <3>1. chain \in {"idle", "parse"} => AtTag
      BY <1>1, <2>3, AtTagIs
    <3>. QED BY <2>1, <2>2, <2>3, <3>1 DEF AtState, AtTag, FileSize
  <2>4. \A p \in Streams : Lasts(demux.pad[p], demux'.pad[p])
    BY <2>1 DEF Lasts
  <2>. QED BY <1>2, <2>1, <2>2, <2>3, <2>4
<1>5. CASE AppRefused
  <2>1. /\ app.pc \in {"flush", "jump"} /\ Fields(demux, demux')
        /\ Breaks(demux, demux') \/ demux' = demux
        /\ demux'.state = demux.state
        /\ UNCHANGED <<file, flushing, adapter, chain, upstream, past>>
    BY <1>1, <1>5, RefusedDoes
  <2>2. AtState' = AtState
    BY <2>1, StateKept DEF Fields
  <2>3. \A p \in Streams : Lasts(demux.pad[p], demux'.pad[p])
    BY <2>1 DEF Lasts, Breaks
  <2>. QED BY <1>2, <2>1, <2>2, <2>3 DEF Fields
<1>. QED BY <1>3, <1>4, <1>5

LEMMA OrderMove ==
  ASSUME PushInv, OrderInv, FlushStart \/ FlushEnds \/ Jump \/ Assign \/ Restart
  PROVE  OrderInv'
<1>1. TypeOK /\ AppInv
  BY DEF PushInv
<1>2. CASE FlushStart
  <2>1. /\ flushing' = TRUE /\ upstream'.discont = upstream.discont /\ app.pc = "flush"
        /\ UNCHANGED <<demux, past>>
    BY <1>1, <1>2, FlushStartDoes
  <2>2. Onward
    BY <2>1 DEF Onward
  <2>. QED BY <2>1, <2>2, OrderStops
<1>3. CASE FlushEnds
  BY <1>1, <1>3, FlushEndsDoes, OrderBroken DEF Flushes
\* A jump without a flush is marked when upstream has answered.
<1>4. CASE Jump
  <2>1. /\ app.pc = "jump" /\ past'.jumped = TRUE /\ app'.pc = "assign"
        /\ app'.kind = app.kind /\ upstream' = Moved(app.offset) /\ app.offset \in Nat
    BY <1>1, <1>4, JumpDoes
  <2>2. app'.kind = "seek"
    BY <1>1, <2>1 DEF AppInv
  <2>3. upstream'.discont = TRUE
    BY <1>1, <2>1, MovedType DEF TypeOK
  <2>. QED BY <2>1, <2>2, <2>3 DEF OrderInv, GoesOn
<1>5. CASE Assign
  <2>1. /\ app.pc = "assign" /\ app.kind \in {"build", "seek", "stay"}
        /\ Fields(demux, demux') /\ demux'.state = demux.state
        /\ app.kind = "build" => demux'.pad = demux.pad
        /\ app.kind = "seek" => Breaks(demux, demux')
        /\ app.kind = "stay" => Quiet(demux, demux')
        /\ UNCHANGED <<file, flushing, adapter, chain, upstream, past>>
    BY <1>1, <1>5, AssignDoes
  <2>2. CASE app.kind = "seek"
    BY <2>1, <2>2, OrderBroken DEF Breaks
  <2>3. CASE app.kind # "seek"
    <3>1. \A p \in Streams : Lasts(demux.pad[p], demux'.pad[p])
      BY <2>1, <2>3 DEF Lasts, Quiet
    <3>2. AtState' = AtState
      BY <2>1, StateKept DEF Fields
    <3>3. Onward /\ (Failing => Failing')
      BY <2>1, <2>3 DEF Onward, Failing, Fields
    <3>. QED BY <1>1, <2>1, <3>1, <3>2, <3>3, OrderFrame
  <2>. QED BY <2>2, <2>3
<1>6. CASE Restart
  BY <1>1, <1>6, RestartDoes, OrderBroken
<1>. QED BY <1>2, <1>3, <1>4, <1>5, <1>6

LEMMA OrderInit == Init => OrderInv
BY DEF Init, OrderInv, GoesOn, NewDemux, NewPad

LEMMA OrderStep ==
  ASSUME PushInv, AllSettled, IndexInv, DeliverInv, [Next]_vars
  PROVE  OrderInv'
<1>1. TypeOK /\ FixedInv /\ StreamInv /\ OrderInv
  BY DEF PushInv, DeliverInv
<1>2. CASE UNCHANGED vars
  <2>1. UNCHANGED <<file, demux, flushing, adapter, chain, upstream, app, past>>
    BY <1>2 DEF vars
  <2>2. Onward /\ (Failing => Failing') /\ \A p \in Streams : Lasts(demux.pad[p], demux'.pad[p])
    BY <2>1 DEF Onward, Failing, Lasts
  <2>3. AtState' = AtState
    BY <2>1, StateKept
  <2>. QED BY <1>1, <2>1, <2>2, <2>3, OrderFrame
<1>3. CASE Segment \/ SinkEos \/ \E n \in 1..MaxChunk : Chain(n)
  BY <1>1, <1>3, OrderUpstream, OrderChain
<1>4. CASE Leave \/ Wait \/ Garble \/ ParseHeader \/ ParseTagType
  BY <1>1, <1>4, OrderLeave, OrderWait, OrderGarble, OrderHeader, OrderType
<1>5. CASE TagTyped \/ TagParsed \/ SeekLastTag \/ ServeSeek
  BY <1>1, <1>5, OrderTyped, OrderParsed, OrderLastTag, OrderServe
<1>6. CASE \E flow \in Returned : TakeTag(flow)
  BY <1>1, <1>6, OrderTake
<1>7. CASE (\E ev \in Events : Seek(ev)) \/ Request \/ AppRefused
  BY <1>1, <1>7, OrderApp
<1>8. CASE FlushStart \/ FlushEnds \/ Jump \/ Assign \/ Restart
  BY <1>1, <1>8, OrderMove
<1>9. Next => Steps \/ UNCHANGED vars
  BY NextIs
<1>. QED BY <1>2, <1>3, <1>4, <1>5, <1>6, <1>7, <1>8, <1>9 DEF Steps

LEMMA DeliverStep ==
  ASSUME PushInv, AllSettled, IndexInv, DeliverInv, [Next]_vars
  PROVE  DeliverInv'
<1>1. FixedInv /\ StreamInv
  BY DEF DeliverInv
<1>. QED BY <1>1, FixedStep, StreamStep, OrderStep DEF DeliverInv

---------------------------------------------------------------------------
(* The steps of the delivery. *)

LEMMA DeliveryStep ==
  ASSUME UNCHANGED file, TypeOK',
         Delivery!Flush \/ \E p \in Streams : Delivery!Deliver(p)
  PROVE  Delivery!Next
<1>1. ASSUME NEW p \in Streams PROVE demux'.pad[p].out.discont \in BOOLEAN
  <2>1. demux' \in DemuxType
    BY DEF TypeOK
  <2>2. demux'.pad[p] \in PadType
    BY <2>1, PadOf
  <2>3. demux'.pad[p].out \in OutType
    BY <2>2 DEF PadType
  <2>. QED BY <2>3 DEF OutType
<1>2. [p \in Streams |-> demux.pad[p].out.discont
                         \/ ((past.jumped \/ past.stayed) /\ ~Calm)]' \in [Streams -> BOOLEAN]
  BY <1>1
<1>. QED BY <1>2 DEF Delivery!Next

\* Nothing went out, or what had gone out was flushed.
LEMMA NothingDelivered ==
  ASSUME UNCHANGED file, TypeOK',
         \A p \in Streams : demux'.pad[p].out.tag \in {0, demux.pad[p].out.tag}
  PROVE  Delivery!Next
<1>1. Delivery!Flush
  BY DEF Delivery!Flush
<1>. QED BY <1>1, DeliveryStep

\* A frame that is delivered is the next one of its stream, or says that it may
\* not be.
LEMMA TakeDelivers ==
  ASSUME PushInv, TypeOK', AllSettled, StreamInv, OrderInv, NEW flow \in Returned,
         TakeTag(flow)
  PROVE  Delivery!Next
<1> DEFINE i == demux.tag
           t == file[i].type
<1>1. /\ TypeOK /\ ChainInv /\ TagDoes(demux', flow) /\ i \in DOMAIN file
      /\ chain = "parse" /\ ~flushing /\ demux.ret = "OK"
      /\ adapter.at = Position(i) + FLV_TAG_TYPE_SIZE
      /\ UNCHANGED <<file, past>>
  BY TakeDoes DEF PushInv
<1>2. \A p \in Streams : p # t => demux'.pad[p] = demux.pad[p]
  BY <1>1, TagStreams
<1>3. CASE \A p \in Streams : demux'.pad[p].out.tag = demux.pad[p].out.tag
  BY <1>1, <1>3, NothingDelivered
<1>4. ASSUME NEW q \in Streams, demux'.pad[q].out.tag # demux.pad[q].out.tag
      PROVE  Delivery!Next
  <2> DEFINE pad == demux.pad[q]
             new == demux'.pad[q]
  <2>1. q = t
    BY <1>2, <1>4
  <2>2. /\ HasPayload(file[i]) /\ flow \notin Closed
        /\ new.out.tag = i /\ new.out.discont = pad.need_discont
        /\ new.out.eos = pad.out.eos
    BY <1>1, <1>4, <2>1, TagStreams
  <2>3. i \in Delivery!Frames(q)
    BY <1>1, <2>1, <2>2 DEF Delivery!Frames, HasPayload
  <2>4. ASSUME Sound, ~pad.need_discont PROVE Delivery!IsNext(q, pad.out.tag, i)
    <3>1. ~upstream.discont
      BY <1>1 DEF ChainInv
    <3>2. pad.exists
      BY <2>4 DEF StreamInv, PadInv
    <3>3. ~pad.out.eos
      BY <1>4, <2>1, <2>2, <3>2 DEF Returned, Closed, Existing
    <3>4. Continues(q)
      BY <1>1, <2>4, <3>1, <3>3 DEF OrderInv, GoesOn, Failing
    <3>5. /\ pad.out.tag # 0 /\ Position(pad.out.tag + 1) <= adapter.at
          /\ \A k \in Frames(q) :
               pad.out.tag < k => adapter.at <= Position(k) + FLV_TAG_TYPE_SIZE
      BY <3>4 DEF Continues
    <3>6. /\ i \in Nat /\ Position(i) = 3 * i - 2
          /\ pad.out.tag \in Nat /\ Position(pad.out.tag + 1) = 3 * pad.out.tag + 1
      BY <1>1, PositionsAre, FileIs
    <3>7. pad.out.tag < i
      BY <1>1, <3>5, <3>6 DEF FLV_TAG_TYPE_SIZE
    <3>8. ASSUME NEW k \in Delivery!Frames(q), pad.out.tag < k PROVE i <= k
      <4>1. k \in Frames(q)
        BY <3>8 DEF Delivery!Frames, Frames, HasPayload
      <4>2. k \in Nat /\ Position(k) = 3 * k - 2
        BY <1>1, <4>1, FileIs DEF Frames
      <4>3. adapter.at <= Position(k) + FLV_TAG_TYPE_SIZE
        BY <3>5, <3>8, <4>1
      <4>. QED BY <1>1, <3>6, <4>2, <4>3 DEF FLV_TAG_TYPE_SIZE
    <3>. QED BY <3>5, <3>7, <3>8 DEF Delivery!IsNext
  <2>5. /\ Sound /\ ~pad.need_discont => Delivery!IsNext(q, pad.out.tag, i)
        /\ ~Sound => (past'.jumped \/ past'.stayed) /\ ~Calm'
    BY <1>1, <2>4 DEF Sound, Calm
  <2>6. Delivery!Deliver(q)
    BY <1>2, <2>1, <2>2, <2>3, <2>5 DEF Delivery!Deliver
  <2>. QED BY <1>1, <2>6, DeliveryStep
<1>. QED BY <1>3, <1>4

LEMMA StepDelivers ==
  ASSUME PushInv, TypeOK', AllSettled, StreamInv, OrderInv, [Next]_vars
  PROVE  Delivery!Next
<1>1. CASE Restart
  <2>1. UNCHANGED file /\ \A p \in Streams : demux'.pad[p].out = NothingOut
    BY <1>1, RestartDoes DEF PushInv
  <2>2. \A p \in Streams : demux'.pad[p].out.tag \in {0, demux.pad[p].out.tag}
    BY <2>1 DEF NothingOut
  <2>. QED BY <2>1, <2>2, NothingDelivered
<1>2. CASE \E flow \in Returned : TakeTag(flow)
  BY <1>2, TakeDelivers
<1>3. CASE UNCHANGED file /\ Follows(demux, demux')
  BY <1>3, NothingDelivered DEF Follows
<1>. QED BY <1>1, <1>2, <1>3, StepFollows

\* Each stream of a file gets its frames one after the other, none left out and
\* none twice, unless the buffer says that it is a discontinuity: whatever the
\* chunks are, whatever seeks the application's thread makes while chain runs,
\* and whether upstream can be moved for them or not.
THEOREM PushDelivers ==
  ASSUME \A f \in Files : Settled(f)
  PROVE  Spec => DeliversInOrder
<1>1. AllSettled
  BY DEF AllSettled
<1>2. Init => Delivery!Init
  <2> SUFFICES ASSUME Init PROVE Delivery!Init
    OBVIOUS
  <2>1. \A p \in Streams : demux.pad[p].out.tag = 0 /\ ~demux.pad[p].out.discont
    BY DEF Init, NewDemux, NewPad, NothingOut
  <2>2. ~past.jumped /\ ~past.stayed
    BY DEF Init, NoHistory
  <2>3. \A p \in Streams : (demux.pad[p].out.discont
                            \/ ((past.jumped \/ past.stayed) /\ ~Calm)) = FALSE
    BY <2>1, <2>2
  <2>. QED BY <2>1, <2>3 DEF Delivery!Init
<1>3. Init => PushInv /\ IndexInv /\ DeliverInv
  BY PushInit, IndexInit, FixedInit, StreamInit, OrderInit DEF PushInv, DeliverInv
<1>4. PushInv /\ IndexInv /\ DeliverInv /\ [Next]_vars => PushInv' /\ IndexInv' /\ DeliverInv'
  BY <1>1, PushStep, IndexStep, DeliverStep
<1>5. PushInv /\ PushInv' /\ DeliverInv /\ [Next]_vars
        => [Delivery!Next]_<<file, [p \in Streams |-> demux.pad[p].out.tag],
                             [p \in Streams |-> demux.pad[p].out.discont
                                \/ ((past.jumped \/ past.stayed) /\ ~Calm)]>>
  BY <1>1, StepDelivers DEF PushInv, DeliverInv
<1>. QED BY <1>2, <1>3, <1>4, <1>5, PTL DEF Spec, DeliversInOrder, Delivery!Spec

===========================================================================
