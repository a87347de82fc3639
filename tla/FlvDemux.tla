----------------------------- MODULE FlvDemux -----------------------------
(***************************************************************************)
(* The FLV demuxer in push mode (src/uflv/gstflvdemux.c).  Upstream, which *)
(* is external, serves byte ranges: its streaming thread sends a segment   *)
(* and then chunks of any size and runs gst_flv_demux_chain on each; a     *)
(* byte seek flushes and moves it.  The application's thread sends seeks   *)
(* to times, which the demuxer turns into byte seeks, and it shares the    *)
(* demuxer's fields with the streaming thread: only request is written     *)
(* under the object lock, and nothing the application's thread does is     *)
(* under the stream lock that upstream holds while chain runs.             *)
(*                                                                         *)
(* chain is where the streaming thread is between two steps another thread *)
(* can come in between: at the label parse, or past the call that took     *)
(* what it waited for ("typed", "parsed").                                 *)
(***************************************************************************)
EXTENDS FlvTags

CONSTANTS
  Flags,          \* what the header may say of the streams
  Flows,          \* what downstream may return
  Seekable,       \* the answers upstream may give: whether it can seek
  Sized,          \* and whether it knows its size
  Events,         \* the seeks: records [target, flush, key_unit, after]
  MaxChunk,       \* bound: units of a chunk
  MaxSeeks, MaxRestarts

ASSUME PushAssumption ==
  /\ Flags \subseteq SUBSET Streams
  /\ Flows \subseteq {"OK", "NOT_LINKED", "EOS", "ERROR"}
  /\ Seekable \subseteq BOOLEAN /\ Sized \subseteq BOOLEAN
  /\ Events \subseteq [target : Nat, flush : BOOLEAN, key_unit : BOOLEAN,
                       after : BOOLEAN]
  /\ {MaxChunk, MaxSeeks, MaxRestarts} \subseteq Nat

VARIABLES
  file, flags,
  demux,      \* struct GstUFlvDemux
  request,    \* its seeking, seek_event and building_index
  flushing,   \* its flushing
  adapter,    \* what of the file it holds: from the position at, len units
  chain,      \* the streaming thread
  upstream,   \* the source: where it is, what it owes, what it can do
  app,        \* the application's thread, and the seek it is in
  seeks, restarts,
  past        \* history: see NoHistory

vars == <<file, flags, demux, request, flushing, adapter, chain, upstream, app,
          seeks, restarts, past>>

NoEvent == [target |-> TIME_NONE, flush |-> FALSE, key_unit |-> FALSE,
            after |-> FALSE]
NoRequest == [seeking |-> FALSE, event |-> NoEvent, building |-> FALSE]
Idle == [pc |-> "idle", kind |-> "none", offset |-> 0, segment |-> NoSegment,
         event |-> NoEvent]

\* raced: chain met a seek the application's thread was not done with; jumped:
\* upstream moved without a flush; garbled: bytes were parsed as what they are
\* not; null_seek: chain served a seek event that was not there; stayed: a seek
\* was to where playback was before upstream went for the index; goal: the time
\* of the seek last served.
NoHistory == [raced |-> FALSE, jumped |-> FALSE, garbled |-> FALSE,
              null_seek |-> FALSE, stayed |-> FALSE, goal |-> TIME_NONE]

Fresh(u) == [u EXCEPT !.pos = 0, !.discont = TRUE, !.segment = TRUE,
                      !.eos = FALSE, !.flushing = FALSE, !.stopped = FALSE]

Init ==
  /\ file \in Files /\ flags \in Flags
  /\ demux = NewDemux /\ request = NoRequest /\ flushing = FALSE
  /\ adapter = [at |-> 0, len |-> 0] /\ chain = "idle"
  /\ \E seekable \in Seekable, sized \in Sized :
       upstream = [pos |-> 0, discont |-> TRUE, segment |-> TRUE, eos |-> FALSE,
                   flushing |-> FALSE, stopped |-> FALSE,
                   seekable |-> seekable, sized |-> sized]
  /\ app = Idle /\ seeks = 0 /\ restarts = 0 /\ past = NoHistory

FileSize == Size(file)

Available(n) == adapter.len >= n
Take(n) == adapter' = [at |-> adapter.at + n, len |-> adapter.len - n]
Clear == adapter' = [adapter EXCEPT !.len = 0]

---------------------------------------------------------------------------
(* Upstream, which calls the sink pad when chain is not running. *)

CanSend == chain = "idle" /\ ~upstream.flushing

\* A segment in bytes: the one prepared by a seek is thrown away.
Segment ==
  /\ CanSend /\ upstream.segment /\ ~upstream.stopped
  /\ upstream' = [upstream EXCEPT !.segment = FALSE]
  /\ demux' = gst_flow_combiner_reset(NeedSegment(demux, NoSegment))
  /\ UNCHANGED <<file, flags, request, flushing, adapter, chain, app, seeks,
                 restarts, past>>

\* Upstream also ends when the demuxer returns what is not GST_FLOW_OK.
SinkEos ==
  /\ CanSend /\ ~upstream.segment /\ ~upstream.eos
  /\ upstream.stopped \/ upstream.pos >= FileSize
  /\ upstream' = [upstream EXCEPT !.eos = TRUE]
  /\ demux' = IF Existing(demux) = {} THEN demux
              ELSE gst_flv_demux_push_src_event(
                     [demux EXCEPT !.no_more_pads = TRUE], "EOS")
  /\ UNCHANGED <<file, flags, request, flushing, adapter, chain, app, seeks,
                 restarts, past>>

Racing == app.pc \notin {"idle", "request"}

\* gst_flv_demux_chain up to the label parse.
Chain(n) ==
  /\ CanSend /\ ~upstream.segment /\ ~upstream.stopped
  /\ upstream.pos + n <= FileSize
  /\ LET pos == upstream.pos
         held == IF upstream.discont THEN 0 ELSE adapter.len
         first == pos = 0
         offset == IF first THEN 0
                   ELSE IF demux.offset = 0 THEN pos ELSE demux.offset
     IN /\ demux' = [demux EXCEPT !.offset = offset, !.ret = "OK",
                       !.state = IF request.seeking THEN "SEEK"
                                 ELSE IF first THEN "HEADER" ELSE @]
        /\ adapter' = [at |-> IF held = 0 THEN pos ELSE adapter.at,
                       len |-> held + n]
  /\ request' = [request EXCEPT !.seeking = FALSE]
  /\ upstream' = [upstream EXCEPT !.pos = @ + n, !.discont = FALSE]
  /\ chain' = "parse"
  /\ past' = [past EXCEPT !.raced = @ \/ Racing]
  /\ UNCHANGED <<file, flags, flushing, app, seeks, restarts>>

---------------------------------------------------------------------------
(* gst_flv_demux_chain from the label parse. *)

TagStates == {"TAG_VIDEO", "TAG_AUDIO", "TAG_SCRIPT", "SKIP"}
Parsing(state) ==
  chain = "parse" /\ demux.ret = "OK" /\ ~flushing /\ demux.state = state

\* An upstream that got an error or a flush stops until it is sought.
Leave ==
  /\ chain = "parse" /\ (demux.ret # "OK" \/ flushing)
  /\ chain' = "idle" /\ upstream' = [upstream EXCEPT !.stopped = TRUE]
  /\ UNCHANGED <<file, flags, demux, request, flushing, adapter, app, seeks,
                 restarts, past>>

Needed(state) ==
  CASE state = "HEADER" -> FLV_HEADER_SIZE
    [] state = "TAG_TYPE" -> FLV_TAG_TYPE_SIZE
    [] state = "SEEK" -> 0
    [] OTHER -> tag_size

\* Too little is there: chain returns and waits for the next chunk.
Wait ==
  /\ Parsing(demux.state) /\ ~Available(Needed(demux.state))
  /\ chain' = "idle"
  /\ UNCHANGED <<file, flags, demux, request, flushing, adapter, upstream, app,
                 seeks, restarts, past>>

\* Whether the bytes at hand are those the state stands for.
Expected(state) ==
  CASE state = "HEADER" -> adapter.at = 0
    [] state = "TAG_TYPE" -> adapter.at \in Starts(file) \cup {FileSize}
    [] OTHER -> adapter.at = Position(demux.tag) + FLV_TAG_TYPE_SIZE

\* What the parsers make of other bytes is not modelled: they take them all.
Garble ==
  /\ \E state \in TagStates \cup {"HEADER", "TAG_TYPE"} :
       Parsing(state) /\ Available(Needed(state)) /\ ~Expected(state)
  /\ Clear /\ chain' = "idle"
  /\ demux' = [demux EXCEPT !.state = "TAG_TYPE"]
  /\ past' = [past EXCEPT !.garbled = TRUE]
  /\ UNCHANGED <<file, flags, request, flushing, upstream, app, seeks, restarts>>

ParseHeader ==
  /\ Parsing("HEADER") /\ Available(FLV_HEADER_SIZE) /\ Expected("HEADER")
  /\ Take(FLV_HEADER_SIZE)
  /\ demux' = [gst_flv_demux_parse_header(demux, flags,
                 upstream.seekable /\ upstream.sized)
               EXCEPT !.offset = @ + FLV_HEADER_SIZE, !.state = "TAG_TYPE"]
  /\ UNCHANGED <<file, flags, request, flushing, chain, upstream, app, seeks,
                 restarts, past>>

\* Mutant: the offset of the tag is noted after it moved on.
ParseTagType_LateOffset ==
  /\ Parsing("TAG_TYPE") /\ Available(FLV_TAG_TYPE_SIZE) /\ Expected("TAG_TYPE")
  /\ Take(FLV_TAG_TYPE_SIZE) /\ chain' = "typed"
  /\ LET i == TagAt(file, adapter.at)
         offset == demux.offset + FLV_TAG_TYPE_SIZE
     IN demux' = gst_flv_demux_parse_tag_type(
                   [demux EXCEPT !.cur_tag_offset = offset, !.tag = i,
                                 !.offset = offset], file[i])
  /\ UNCHANGED <<file, flags, request, flushing, upstream, app, seeks, restarts,
                 past>>

ParseTagType ==
  /\ Parsing("TAG_TYPE") /\ Available(FLV_TAG_TYPE_SIZE) /\ Expected("TAG_TYPE")
  /\ Take(FLV_TAG_TYPE_SIZE) /\ chain' = "typed"
  /\ LET i == TagAt(file, adapter.at)
     IN demux' = gst_flv_demux_parse_tag_type(
                   [demux EXCEPT !.cur_tag_offset = demux.offset, !.tag = i,
                                 !.offset = @ + FLV_TAG_TYPE_SIZE], file[i])
  /\ UNCHANGED <<file, flags, request, flushing, upstream, app, seeks, restarts,
                 past>>

\* gst_flv_demux_flush; what it pushes downstream flushes that as well.
Flushed(d) ==
  LET e == gst_flv_demux_push_src_event(Discont(d), "FLUSH_STOP")
  IN IF d.state = "SEEK" THEN e ELSE [e EXCEPT !.state = "TAG_TYPE", !.offset = 0]

Moved(pos) == [upstream EXCEPT !.pos = pos, !.discont = TRUE, !.segment = TRUE,
                               !.eos = FALSE, !.flushing = FALSE, !.stopped = FALSE]

\* flv_demux_seek_to_offset in the streaming thread: the flush and the move
\* are done when it returns, and the offset is set then.
SeekToOffset(d, offset) ==
  IF upstream.seekable
  THEN /\ demux' = [Flushed(d) EXCEPT !.offset = offset]
       /\ Clear /\ flushing' = FALSE /\ upstream' = Moved(offset)
  ELSE demux' = d /\ UNCHANGED <<adapter, flushing, upstream>>

\* Mutant: the file does not start again.
NoIndex_StaysPut(d) ==
  /\ request' = [request EXCEPT !.seeking = FALSE, !.event = NoEvent]
  /\ demux' = d /\ chain' = "idle"
  /\ UNCHANGED <<flushing, adapter, upstream, past>>

\* no_index: the seek is given up and the file starts again.
NoIndex(d) ==
  /\ request' = [request EXCEPT !.seeking = FALSE, !.event = NoEvent]
  /\ SeekToOffset(d, 0)
  /\ chain' = "idle"
  /\ past' = [past EXCEPT !.raced = @ \/ Racing]

\* Mutant: playback goes on whatever tag the last one is.
TagTyped_NeverGivesUp ==
  /\ chain = "typed" /\ chain' = "parse"
  /\ UNCHANGED <<file, flags, demux, request, flushing, adapter, upstream, app,
                 seeks, restarts, past>>

\* Whoever waits for the index takes the first tag that comes for the last.
TagTyped ==
  /\ chain = "typed"
  /\ IF request.event # NoEvent /\ demux.state # "TAG_SCRIPT" THEN NoIndex(demux)
     ELSE chain' = "parse"
          /\ UNCHANGED <<demux, request, flushing, adapter, upstream, past>>
  /\ UNCHANGED <<file, flags, app, seeks, restarts>>

\* What a push of the tag at hand may return.
Returned ==
  LET type == file[demux.tag].type IN
  IF flushing THEN {"FLUSHING"}
  ELSE IF type \in Existing(demux) /\ demux.pad[type].out.eos THEN {"AFTER_EOS"}
  ELSE Flows

TakeTag(flow) ==
  /\ \E state \in TagStates : Parsing(state)
  /\ Available(tag_size) /\ Expected(demux.state)
  /\ Take(tag_size) /\ chain' = "parsed"
  /\ demux' = ParseTag(demux, file, demux.tag, flow)
  /\ UNCHANGED <<file, flags, request, flushing, upstream, app, seeks, restarts,
                 past>>

TagParsed ==
  /\ chain = "parsed"
  /\ LET script == file[demux.tag].type = "script" /\ request.event # NoEvent
         d == [demux EXCEPT !.offset = @ + tag_size,
                 !.state = IF script /\ demux.indexed THEN "SEEK" ELSE "TAG_TYPE"]
     IN IF script /\ ~demux.indexed THEN NoIndex(d)
        ELSE demux' = d /\ chain' = "parse"
             /\ UNCHANGED <<request, flushing, adapter, upstream, past>>
  /\ UNCHANGED <<file, flags, app, seeks, restarts>>

\* At the last four bytes: on to the tag they end.
SeekLastTag ==
  /\ Parsing("SEEK") /\ ~demux.indexed
  /\ IF demux.offset = demux.file_size - SIZE_OF_SIZE /\ Available(SIZE_OF_SIZE)
     THEN /\ SeekToOffset([demux EXCEPT !.state = "TAG_TYPE"], Position(Len(file)))
          /\ chain' = "idle" /\ UNCHANGED <<request, past>>
     ELSE NoIndex(demux)
  /\ UNCHANGED <<file, flags, app, seeks, restarts>>

\* flv_demux_handle_seek_push: whether it moves upstream, and to where.
SeekSegment(d, ev) == gst_segment_do_seek(d.segment, ev.target, 1)
Moves(d, ev) == ev.flush \/ ev.target # d.segment.position
FoundSegment(d, ev) ==
  IF Moves(d, ev) THEN KeyUnitSegment(d, SeekSegment(d, ev), ev.key_unit, ev.after)
  ELSE SeekSegment(d, ev)
FoundOffset(d, ev) == gst_flv_demux_find_offset(d, SeekSegment(d, ev), ev.after)

\* What it does once upstream has answered.
Sought(d) == Discont(gst_flow_combiner_reset(d))
Configured(d, segment) == NeedSegment([d EXCEPT !.segment = segment], segment)

\* In the streaming thread: the state is still SEEK when upstream flushes, so
\* that the offset stays what it was.
Serve(ev, history) ==
  LET segment == FoundSegment(demux, ev)
      d == IF ev.flush THEN Flushed(demux) ELSE demux
  IN IF ~Moves(demux, ev)
     THEN /\ demux' = [Configured(demux, segment) EXCEPT !.state = "TAG_TYPE"]
          /\ past' = [history EXCEPT !.stayed = TRUE]
          /\ UNCHANGED <<flushing, adapter, upstream>>
     ELSE IF upstream.seekable
     THEN /\ demux' = [Configured(Sought(d), segment) EXCEPT !.state = "TAG_TYPE"]
          /\ upstream' = Moved(FoundOffset(demux, ev))
          /\ IF ev.flush THEN Clear /\ flushing' = FALSE
             ELSE UNCHANGED <<adapter, flushing>>
          /\ past' = [history EXCEPT !.jumped = @ \/ ~ev.flush]
     ELSE /\ demux' = [Sought(demux) EXCEPT !.ret = "ERROR"]
          /\ upstream' = [upstream EXCEPT !.stopped = TRUE]
          /\ past' = history /\ UNCHANGED <<flushing, adapter>>

\* Without an event the seek is read from a null pointer: it fails, or what
\* the stack held is sought.
ServeSeek ==
  /\ Parsing("SEEK") /\ demux.indexed
  /\ request' = [request EXCEPT !.event = NoEvent]
  /\ \/ request.event # NoEvent
        /\ Serve(request.event, [past EXCEPT !.goal = request.event.target])
     \/ /\ request.event = NoEvent
        /\ \E ev \in Events : Serve(ev, [past EXCEPT !.null_seek = TRUE, !.goal = ev.target])
     \/ /\ request.event = NoEvent
        /\ demux' = [demux EXCEPT !.ret = "ERROR"]
        /\ upstream' = [upstream EXCEPT !.stopped = TRUE]
        /\ past' = [past EXCEPT !.null_seek = TRUE]
        /\ UNCHANGED <<flushing, adapter>>
  /\ chain' = "idle"
  /\ UNCHANGED <<file, flags, app, seeks, restarts>>

---------------------------------------------------------------------------
(* gst_flv_demux_handle_seek_push in the application's thread.  Upstream   *)
(* does not know of times and has refused the event itself.                *)

Call(kind, pc, offset, segment, ev) ==
  app' = [pc |-> pc, kind |-> kind, offset |-> offset, segment |-> segment,
          event |-> ev]

\* With an index the seek is made here and now.
Seek(ev) ==
  /\ app.pc = "idle" /\ seeks < MaxSeeks /\ Existing(demux) # {}
  /\ seeks' = seeks + 1
  /\ IF demux.indexed
     THEN Call(IF Moves(demux, ev) THEN "seek" ELSE "stay",
               IF ~Moves(demux, ev) THEN "assign"
               ELSE IF ev.flush THEN "flush" ELSE "jump",
               FoundOffset(demux, ev), FoundSegment(demux, ev), ev)
     ELSE Call("build", "request", 0, NoSegment, ev)
  /\ UNCHANGED <<file, flags, demux, request, flushing, adapter, chain, upstream,
                 restarts, past>>

\* Without one it is left to chain.  The first such seek goes for the last
\* four bytes, later ones leave that to it.
Request ==
  /\ app.pc = "request"
  /\ request' = [seeking |-> TRUE, event |-> app.event, building |-> TRUE]
  /\ LET sized == demux.file_size # 0 \/ upstream.sized
         size == IF demux.file_size # 0 THEN demux.file_size ELSE FileSize
         d == [demux EXCEPT !.state = "SEEK"]
     IN IF request.building \/ ~sized
        THEN demux' = d /\ app' = Idle
        ELSE demux' = [d EXCEPT !.file_size = size]
             /\ Call("build", "flush", size - SIZE_OF_SIZE, NoSegment, app.event)
  /\ UNCHANGED <<file, flags, flushing, adapter, chain, upstream, seeks, restarts,
                 past>>

\* Upstream cannot seek: FALSE is returned, and what was set stays set.
AppRefused ==
  /\ app.pc \in {"flush", "jump"} /\ ~upstream.seekable
  /\ demux' = IF app.kind = "seek" THEN Sought(demux) ELSE demux
  /\ app' = Idle
  /\ UNCHANGED <<file, flags, request, flushing, adapter, chain, upstream, seeks,
                 restarts, past>>

FlushStart ==
  /\ app.pc = "flush" /\ upstream.seekable
  /\ flushing' = TRUE /\ upstream' = [upstream EXCEPT !.flushing = TRUE]
  /\ app' = [app EXCEPT !.pc = "stop"]
  /\ UNCHANGED <<file, flags, demux, request, adapter, chain, seeks, restarts, past>>

Served == IF app.kind = "seek" THEN app.event.target ELSE past.goal

\* The flush ends, and upstream goes on from the new place, once chain is out.
FlushEnds ==
  /\ app.pc = "stop" /\ chain = "idle"
  /\ demux' = Flushed(demux) /\ Clear /\ flushing' = FALSE
  /\ upstream' = Moved(app.offset) /\ app' = [app EXCEPT !.pc = "assign"]
  /\ past' = [past EXCEPT !.goal = Served]
  /\ UNCHANGED <<file, flags, request, chain, seeks, restarts>>

Jump ==
  /\ app.pc = "jump" /\ upstream.seekable /\ chain = "idle"
  /\ upstream' = Moved(app.offset) /\ app' = [app EXCEPT !.pc = "assign"]
  /\ past' = [past EXCEPT !.jumped = TRUE, !.goal = Served]
  /\ UNCHANGED <<file, flags, demux, request, flushing, adapter, chain, seeks,
                 restarts>>

\* Upstream has answered, if it was asked, and may have sent chunks since.
Assign ==
  /\ app.pc = "assign"
  /\ demux' = CASE app.kind = "build" -> [demux EXCEPT !.offset = app.offset]
                [] app.kind = "seek" -> Configured(Sought(demux), app.segment)
                [] OTHER -> Configured(demux, app.segment)
  /\ app' = Idle
  /\ UNCHANGED <<file, flags, request, flushing, adapter, chain, upstream, seeks,
                 restarts, past>>

\* To READY and back: gst_flv_demux_cleanup leaves the request alone.
Restart ==
  /\ app.pc = "idle" /\ chain = "idle" /\ restarts < MaxRestarts
  /\ restarts' = restarts + 1
  /\ demux' = gst_flv_demux_cleanup(demux)
  /\ flushing' = FALSE /\ adapter' = [at |-> 0, len |-> 0]
  /\ upstream' = Fresh(upstream)
  /\ past' = [past EXCEPT !.goal = TIME_NONE]
  /\ UNCHANGED <<file, flags, request, chain, app, seeks>>

---------------------------------------------------------------------------

Upstream == Segment \/ SinkEos \/ \E n \in 1..MaxChunk : Chain(n)

Parse ==
  \/ Leave \/ Wait \/ Garble \/ ParseHeader \/ ParseTagType \/ TagTyped
  \/ TagParsed \/ SeekLastTag \/ ServeSeek
  \/ chain = "parse" /\ demux.state \in TagStates /\ \E flow \in Returned : TakeTag(flow)

Application ==
  Request \/ AppRefused \/ FlushStart \/ FlushEnds \/ Jump \/ Assign

\* Playback may be over, and nobody has to seek or restart.
Over == chain = "idle" /\ app.pc = "idle" /\ upstream.eos /\ UNCHANGED vars

Next ==
  Upstream \/ Parse \/ Application \/ Restart \/ Over \/ \E ev \in Events : Seek(ev)

Spec == Init /\ [][Next]_vars

(* Properties. *)

Calm == ~past.raced /\ ~past.garbled

\* The times of a stream go back so far that it is taken for a resync.
Frames(p) == {i \in DOMAIN file : file[i].type = p /\ HasPayload(file[i])}

TurnsBack(p) ==
  \E i, j \in Frames(p) :
    i < j /\ Ddts(file[j].time, file[i].time) <= -RESYNC_THRESHOLD

\* Every entry of the index leads to the start of a tag of that time that is a
\* key unit if the entry says so.  Where the times of a stream turn back the
\* entry has the later time downstream is given.
IndexTrue ==
  Calm => \A k \in DOMAIN demux.index :
            LET entry == demux.index[k] IN
              /\ entry.pos \in Starts(file)
              /\ LET tag == file[TagAt(file, entry.pos)] IN
                   /\ \/ entry.time \in {tag.time, Pts(tag)}
                      \/ entry.time > Pts(tag) /\ TurnsBack(tag.type)
                   /\ entry.key => tag.key \/ tag.type = "audio"

\* After a seek the first frame of a stream is at or before the time sought,
\* or the first of the file: nothing the application asked for is skipped.
SeekSkipsNothing ==
  [][\A p \in Streams :
       (demux.pad[p].out.tag = 0 /\ demux'.pad[p].out.tag # 0
        /\ app.pc = "idle" /\ past.goal # TIME_NONE /\ Calm /\ ~past.null_seek)
       => LET i == demux'.pad[p].out.tag IN
          \A j \in Frames(p) : j < i => file[j].time < past.goal
                                        /\ ~(file[j].key /\ file[i].time > past.goal)]_vars

\* Downstream gets the end of the stream only after the last frame there is
\* at or after the time last sought, unless
\* downstream or the parsers failed, a seek was asked of an upstream that
\* cannot seek, a seek was to where playback already was, which leaves upstream
\* at the last tag, or chain met a seek that the application's thread was not
\* done with, which may send upstream there when nobody waits for the index.
EndAfterLast ==
  [][\A p \in Streams :
       (/\ ~demux.pad[p].out.eos /\ demux'.pad[p].out.eos /\ ~upstream.stopped
        /\ (upstream.seekable \/ seeks = 0)
        /\ Calm /\ ~past.null_seek /\ ~past.stayed)
       => \A i \in Frames(p) :
            file[i].time >= past.goal => i <= demux.pad[p].out.tag]_vars

\* Each stream is delivered as FlvDelivery says, unless a seek without a flush
\* moved upstream before the application's thread had marked the discontinuity,
\* or left the demuxer in the middle of a tag, upstream moved or not.
Delivery == INSTANCE FlvDelivery WITH
  at <- [p \in Streams |-> demux.pad[p].out.tag],
  discont <- [p \in Streams |-> demux.pad[p].out.discont
                                \/ ((past.jumped \/ past.stayed) /\ ~Calm)]

DeliversInOrder == Delivery!Spec

\* The seek for which the index is first wanted is served or given up before
\* playback is over, if upstream can send what it waits for.  A later one that
\* comes before the index is there waits for upstream to send something, which
\* at the end of the file it does no more: building_index is never reset.
SeekAnswered ==
  (/\ upstream.eos /\ chain = "idle" /\ app.pc = "idle" /\ seeks = 1
   /\ upstream.seekable /\ upstream.sized) => request.event = NoEvent

===========================================================================
