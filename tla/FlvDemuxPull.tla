--------------------------- MODULE FlvDemuxPull ---------------------------
(***************************************************************************)
(* The FLV demuxer in pull mode (src/uflv/gstflvdemux.c).  A task of the   *)
(* sink pad runs gst_flv_demux_loop under the stream lock: it pulls tags,  *)
(* in reverse section by section, from key unit to key unit backwards.     *)
(* The application's thread seeks: it flushes or pauses the task, waits    *)
(* for the stream lock, and makes the seek, or leaves it to the task when  *)
(* the index does not reach far enough.                                    *)
(*                                                                         *)
(* flushing says that the pads flush, so that a pull or a push fails.  It  *)
(* may be set at any moment, so a step of the task that finds it set may   *)
(* have pulled before it was.                                              *)
(***************************************************************************)
EXTENDS FlvTags

CONSTANTS
  Flags,          \* what the header may say of the streams
  Flows,          \* what downstream may return
  Sized,          \* whether upstream knows its size, and can seek then
  Events,         \* the seeks: records [target, rate, flush, key_unit, after]
  INDEX_AHEAD,    \* how far past the index a seek goes without a scan
  PAST_STOP,      \* how far past its stop a section in reverse is played
  MaxSeeks, MaxRestarts

ASSUME PullAssumption ==
  /\ Flags \subseteq SUBSET Streams
  /\ Flows \subseteq {"OK", "NOT_LINKED", "EOS", "ERROR"}
  /\ Sized \subseteq BOOLEAN
  /\ Events \subseteq [target : Nat, rate : {-1, 1}, flush : BOOLEAN,
                       key_unit : BOOLEAN, after : BOOLEAN]
  /\ {INDEX_AHEAD, PAST_STOP, MaxSeeks, MaxRestarts} \subseteq Nat

VARIABLES
  file, flags, sized,
  demux,      \* struct GstUFlvDemux
  section,    \* its from_offset and to_offset
  request,    \* its seeking and seek_event
  flushing,
  task,       \* the streaming task: where it is, and whether it is started
  app,        \* the application's thread, and the seek it is in
  seeks, restarts,
  past        \* history: see NoHistory

vars == <<file, flags, sized, demux, section, request, flushing, task, app,
          seeks, restarts, past>>

NoEvent == [target |-> TIME_NONE, rate |-> 1, flush |-> FALSE,
            key_unit |-> FALSE, after |-> FALSE]
Idle == [pc |-> "idle", event |-> NoEvent]
NotSet == -1

\* asked, made: the seek last taken and the one last made; stayed: that moved
\* nothing, and perhaps did not replace one that is left to the task; played:
\* the frames that went out since.
NoHistory == [asked |-> NoEvent, made |-> NoEvent, stayed |-> FALSE, played |-> {}]

Init ==
  /\ file \in Files /\ flags \in Flags /\ sized \in Sized
  /\ demux = NewDemux /\ section = [from |-> 0, to |-> 0]
  /\ request = [seeking |-> FALSE, event |-> NoEvent] /\ flushing = FALSE
  /\ task = [pc |-> "loop", started |-> TRUE]
  /\ app = Idle /\ seeks = 0 /\ restarts = 0 /\ past = NoHistory

FileSize == Size(file)
G_MAXINT64 == FileSize + 1      \* past every offset

---------------------------------------------------------------------------
(* Moving about in the file. *)

MoveToOffset(d, offset) ==
  LET e == Discont(d) IN
  [e EXCEPT !.offset = offset,
            !.state = IF offset = 0 THEN "HEADER" ELSE "TAG_TYPE",
            !.pad = [p \in Streams |->
               [e.pad[p] EXCEPT !.done = FALSE, !.first_ts = TIME_NONE]]]

\* Mutant: one stream is enough.
AllPlayed_Either(d, sec) ==
  \/ \E p \in Streams : d.pad[p].first_ts = TIME_NONE
                        \/ d.pad[p].first_ts < d.segment.start
  \/ sec.from =< 0

\* A section that brought nothing from before the start is the last one.
AllPlayed(d, sec) ==
  \/ \A p \in Streams : d.pad[p].first_ts = TIME_NONE
                        \/ d.pad[p].first_ts < d.segment.start
  \/ sec.from =< 0

PrevKeyframe(d, sec) ==
  gst_mem_index_get_assoc_entry(d.index, "BEFORE", TRUE, "pos", sec.from - 1)

\* gst_flv_demux_seek_to_prev_keyframe, and the section that follows.
SeekToPrevKeyframe(d, sec) ==
  LET entry == PrevKeyframe(d, sec) IN
  IF AllPlayed(d, sec) \/ entry = NULL THEN [d EXCEPT !.ret = "EOS"]
  ELSE [MoveToOffset(d, d.index[entry].pos) EXCEPT !.ret = "OK"]

PrevSection(d, sec) ==
  IF AllPlayed(d, sec) \/ PrevKeyframe(d, sec) = NULL THEN sec
  ELSE [from |-> NotSet, to |-> sec.from]

EndOfSection(d, sec) ==
  /\ d.segment.rate < 0
  /\ \/ d.offset >= sec.to
     \/ d.segment.position >= d.segment.stop + PAST_STOP
     \/ \A p \in Streams : d.pad[p].done

---------------------------------------------------------------------------
(* Looking ahead: the index and the metadata. *)

\* gst_flv_demux_parse_tag_timestamp of some tags, which are not parsed any
\* further: the streams there are, and the longest time.
ParseTagTimestamps(d, tags) ==
  LET known == {i \in tags : file[i].type # "other"}
  IN [d EXCEPT !.has = @ \cup ({file[i].type : i \in known} \cap Streams),
               !.duration = Max({@} \cup {file[i].time : i \in known})]

\* Those it adds to the index as it goes: video, and audio before any video.
Listed(d, tags) ==
  {i \in tags : \/ file[i].type = "video"
               \/ /\ file[i].type = "audio" /\ "video" \notin d.has
                  /\ \A j \in tags : j < i => file[j].type # "video"}

\* gst_flv_demux_create_index: from the last tag indexed to the first one
\* past the time, which is indexed too, or the first one it does not know.
\* The header, whose pull a flush made fail, is no tag that it knows.  A flush
\* breaks it off after any tag.
Scanned(d, first, last) ==
  LET e == ParseTagTimestamps(d, first..last)
  IN IF d.indexed THEN e ELSE AddTags(e, file, Listed(d, first..last))

CreateIndex(d, ts) ==
  LET first == TagAt(file, d.index_max_pos)
      ends == {i \in first..Len(file) : file[i].type = "other" \/ file[i].time > ts}
      last == IF ends = {} THEN Len(file) ELSE Min(ends)
      broken == {[Scanned(d, first, i) EXCEPT !.ret = "FLUSHING"] : i \in (first - 1)..last}
      e == [Scanned(d, first, last) EXCEPT !.indexed = @ \/ ends = {}, !.ret = "OK"]
  IN IF ~sized \/ d.index_max_pos = 0 THEN {[d EXCEPT !.ret = "OK"]}
     ELSE {e} \cup (IF flushing THEN broken ELSE {})

\* gst_flv_demux_get_metadata: once, after the first tag, the last tag is read.
LastTag(d) ==
  LET i == Len(file)
      e == ParseTagTimestamps(d, {i})
  IN IF i = 0 THEN d
     ELSE IF file[i].type = "script"
     THEN [gst_flv_demux_parse_tag_script(e, file, file[i]) EXCEPT !.ret = d.ret]
     ELSE e

GetMetadata(d) ==
  LET e == [d EXCEPT !.file_size = FileSize] IN
  IF d.file_size # 0 \/ d.indexed \/ d.has = {} \/ ~sized THEN {d}
  ELSE {LastTag(e)} \cup (IF flushing THEN {e} ELSE {})

---------------------------------------------------------------------------
(* gst_flv_demux_loop. *)

At(pc) == task.pc = pc /\ (pc = "loop" => task.started)

Stops(ret, no_more_pads) == ret # "OK" /\ ~(ret = "NOT_LINKED" /\ ~no_more_pads)

\* A pad that flushes takes no EOS.
PushEos(d) ==
  IF flushing THEN d ELSE gst_flv_demux_push_src_event(d, "EOS")

\* At the end the position is that of the segment's end.
Ended(d) ==
  LET e == [d EXCEPT !.no_more_pads = TRUE,
              !.segment.position = IF d.segment.rate < 0 THEN d.segment.start
                                   ELSE IF d.segment.stop # TIME_NONE
                                        THEN d.segment.stop ELSE @]
  IN PushEos(e)

Pause(d) ==
  CASE d.ret = "EOS" -> Ended(d)
    [] d.ret \in {"NOT_LINKED", "ERROR"} -> PushEos(d)
    [] OTHER -> d

\* The end of every turn: the section or the segment may be over, and the
\* task pauses unless all went well.
EndOfTurn(d, sec, started) ==
  LET over == EndOfSection(d, sec)
      past_stop == d.segment.rate > 0 /\ d.segment.stop # TIME_NONE
                   /\ d.segment.position >= d.segment.stop
      e == IF over THEN SeekToPrevKeyframe(d, sec)
           ELSE IF past_stop THEN [d EXCEPT !.ret = "EOS"] ELSE d
      stops == Stops(e.ret, e.no_more_pads)
  IN /\ demux' = IF stops THEN Pause(e) ELSE e
     /\ section' = IF over THEN PrevSection(d, sec) ELSE sec
     /\ task' = [pc |-> "loop", started |-> started /\ ~stops]

\* What gst_flv_demux_pull_range may return for so many units at the offset.
Pulls(n) ==
  {IF demux.offset + n =< FileSize THEN "OK" ELSE "EOS"}
    \cup (IF flushing THEN {"FLUSHING"} ELSE {})

\* The default of the switch; index scans start after the header.
PullHeader ==
  /\ At("loop") /\ demux.state \notin {"TAG_TYPE", "SEEK"}
  /\ \E ret \in Pulls(FLV_HEADER_SIZE) :
       LET d == IF ret # "OK" THEN [demux EXCEPT !.ret = ret]
                ELSE [gst_flv_demux_parse_header(demux, flags, sized)
                      EXCEPT !.offset = @ + FLV_HEADER_SIZE, !.state = "TAG_TYPE"]
       IN EndOfTurn([d EXCEPT !.index_max_pos = d.offset], section, TRUE)
  /\ UNCHANGED <<file, flags, sized, request, flushing, app, seeks, restarts, past>>

Begun == IF section.from = NotSet THEN [section EXCEPT !.from = demux.offset]
         ELSE section

\* gst_flv_demux_pull_tag: its first pull, that of type and size.
PullTagType ==
  /\ At("loop") /\ demux.state = "TAG_TYPE"
  /\ \E ret \in Pulls(FLV_TAG_TYPE_SIZE) :
       LET d == [demux EXCEPT !.cur_tag_offset = demux.offset, !.ret = ret]
           i == TagAt(file, demux.offset)
       IN IF ret = "OK"
          THEN /\ demux' = [gst_flv_demux_parse_tag_type(d, file[i])
                            EXCEPT !.tag = i, !.offset = @ + FLV_TAG_TYPE_SIZE]
               /\ section' = Begun /\ task' = [task EXCEPT !.pc = "typed"]
          ELSE \E e \in GetMetadata(d) : EndOfTurn(e, Begun, TRUE)
  /\ UNCHANGED <<file, flags, sized, request, flushing, app, seeks, restarts, past>>

\* What a push of the tag at hand may return.
Returned ==
  LET type == file[demux.tag].type IN
  IF flushing THEN {"FLUSHING"}
  ELSE IF type \in Existing(demux) /\ demux.pad[type].out.eos THEN {"AFTER_EOS"}
  ELSE Flows

\* Its second pull, of the whole rest, and the tag is parsed.
PullTag(flow) ==
  /\ At("typed")
  /\ \E ret \in Pulls(tag_size) :
       LET parsed == [ParseTag(demux, file, demux.tag, flow)
                      EXCEPT !.offset = @ + tag_size,
                             !.state = "TAG_TYPE"]
           d == IF ret = "OK" THEN parsed ELSE [demux EXCEPT !.ret = ret]
           out == {d.pad[p].out.tag : p \in Streams} \cap {demux.tag}
       IN /\ \E e \in GetMetadata(d) : EndOfTurn(e, section, task.started)
          /\ past' = [past EXCEPT !.played = @ \cup out]
  /\ UNCHANGED <<file, flags, sized, request, flushing, app, seeks, restarts>>

\* A seek that was left to the task: first the index.
Scan ==
  /\ At("loop") /\ demux.state = "SEEK"
  /\ \E d \in CreateIndex(demux, request.event.target) :
       IF d.ret = "OK"
       THEN demux' = d /\ task' = [task EXCEPT !.pc = "serve"]
       ELSE demux' = Pause(d) /\ task' = [task EXCEPT !.started = FALSE]
  /\ UNCHANGED <<file, flags, sized, section, request, flushing, app, seeks,
                 restarts, past>>

---------------------------------------------------------------------------
(* gst_flv_demux_handle_seek_pull, in either thread, with the stream lock. *)

SeekSegment(ev) == gst_segment_do_seek(demux.segment, ev.target, ev.rate)
Moves(ev) == ev.flush \/ ev.target # demux.segment.position
TooFar(ev) ==
  ~demux.indexed /\ ev.target > demux.index_max_time + INDEX_AHEAD

FlushedDown(d, ev) ==
  IF ev.flush THEN gst_flv_demux_push_src_event(d, "FLUSH_STOP") ELSE d

\* The seek is made.
Configure(ev) ==
  LET segment == IF Moves(ev)
                 THEN KeyUnitSegment(demux, SeekSegment(ev), ev.key_unit, ev.after)
                 ELSE SeekSegment(ev)
      d == IF Moves(ev)
           THEN MoveToOffset(demux, gst_flv_demux_find_offset(demux, SeekSegment(ev), ev.after))
           ELSE demux
  IN /\ demux' = NeedSegment(gst_flow_combiner_reset(
                   [FlushedDown(d, ev) EXCEPT !.segment = segment]), segment)
     /\ section' = IF Moves(ev) THEN [from |-> NotSet, to |-> G_MAXINT64] ELSE section

Made(ev, stayed) == [past EXCEPT !.made = ev, !.stayed = stayed, !.played = {}]

\* The task makes it, and another seek may have begun since.
Serve ==
  /\ At("serve")
  /\ Configure(request.event)
  /\ past' = Made(request.event, past.stayed \/ ~Moves(request.event))
  /\ flushing' = (flushing /\ ~request.event.flush)
  /\ request' = [request EXCEPT !.event = NoEvent]
  /\ task' = [task EXCEPT !.pc = "served"]
  /\ UNCHANGED <<file, flags, sized, app, seeks, restarts>>

Served ==
  /\ At("served")
  /\ request' = [request EXCEPT !.seeking = FALSE]
  /\ task' = [task EXCEPT !.pc = IF request.seeking THEN "halt" ELSE "go"]
  /\ UNCHANGED <<file, flags, sized, demux, section, flushing, app, seeks,
                 restarts, past>>

\* The other seek, which has flushed already perhaps, starts the task itself.
Resume ==
  /\ \E pc \in {"halt", "go"} : At(pc) /\ EndOfTurn(demux, section, pc = "go")
  /\ UNCHANGED <<file, flags, sized, request, flushing, app, seeks, restarts, past>>

---------------------------------------------------------------------------
(* The application's thread. *)

Seek(ev) ==
  /\ app.pc = "idle" /\ seeks < MaxSeeks /\ Existing(demux) # {}
  /\ seeks' = seeks + 1 /\ app' = [pc |-> "halt", event |-> ev]
  /\ request' = [request EXCEPT !.seeking = TRUE]
  /\ past' = [past EXCEPT !.asked = ev]
  /\ UNCHANGED <<file, flags, sized, demux, section, flushing, task, restarts>>

\* FLUSH_START to both sides, or gst_pad_pause_task.
Halt ==
  /\ app.pc = "halt" /\ app' = [app EXCEPT !.pc = "lock"]
  /\ flushing' = (flushing \/ app.event.flush)
  /\ task' = [task EXCEPT !.started = @ /\ app.event.flush]
  /\ UNCHANGED <<file, flags, sized, demux, section, request, seeks, restarts, past>>

\* Mutant: a seek that is left already is not replaced.
Defer_KeepsOld(ev) ==
  /\ demux' = [FlushedDown(demux, ev) EXCEPT !.state = "SEEK"]
  /\ request' = [seeking |-> FALSE,
                 event |-> IF request.event = NoEvent THEN ev ELSE request.event]
  /\ UNCHANGED <<section, past>>

\* The index does not reach: the task is to scan for it.
Defer(ev) ==
  /\ demux' = [FlushedDown(demux, ev) EXCEPT !.state = "SEEK"]
  /\ request' = [seeking |-> FALSE, event |-> ev]
  /\ UNCHANGED <<section, past>>

\* With the stream lock, from the end of the flush to the task's start.
Locked ==
  /\ app.pc = "lock" /\ task.pc = "loop"
  /\ flushing' = (flushing /\ ~app.event.flush)
  /\ IF Moves(app.event) /\ TooFar(app.event) THEN Defer(app.event)
     ELSE /\ Configure(app.event)
          /\ request' = [request EXCEPT !.seeking = FALSE]
          /\ past' = Made(app.event, ~Moves(app.event))
  /\ task' = [task EXCEPT !.started = TRUE] /\ app' = Idle
  /\ UNCHANGED <<file, flags, sized, seeks, restarts>>

\* To READY and back.
Restart ==
  /\ app.pc = "idle" /\ task.pc = "loop" /\ restarts < MaxRestarts
  /\ restarts' = restarts + 1
  /\ demux' = gst_flv_demux_cleanup(demux) /\ flushing' = FALSE
  /\ task' = [task EXCEPT !.started = TRUE] /\ past' = NoHistory
  /\ UNCHANGED <<file, flags, sized, section, request, app, seeks>>

Loop ==
  \/ PullHeader \/ PullTagType \/ Scan \/ Serve \/ Served \/ Resume
  \/ task.pc = "typed" /\ \E flow \in Returned : PullTag(flow)

\* Playback may be over, and nobody has to seek or restart.
Over == ~task.started /\ task.pc = "loop" /\ app.pc = "idle" /\ UNCHANGED vars

Next == Loop \/ Halt \/ Locked \/ Restart \/ Over \/ \E ev \in Events : Seek(ev)

Spec == Init /\ [][Next]_vars

---------------------------------------------------------------------------
(* Properties. *)

\* Every variable keeps its type.
TypeOK ==
  /\ file \in Files /\ flags \in Flags /\ sized \in Sized
  /\ demux \in DemuxType /\ flushing \in BOOLEAN
  /\ section \in [from : Nat \cup {NotSet}, to : Nat]
  /\ request \in [seeking : BOOLEAN, event : Events \cup {NoEvent}]
  /\ task \in [pc : {"loop", "typed", "serve", "served", "halt", "go"}, started : BOOLEAN]
  /\ app \in [pc : {"idle", "halt", "lock"}, event : Events \cup {NoEvent}]
  /\ seeks \in 0..MaxSeeks /\ restarts \in 0..MaxRestarts
  /\ past \in [asked : Events \cup {NoEvent}, made : Events \cup {NoEvent},
               stayed : BOOLEAN, played : SUBSET DOMAIN file]

\* Once the application's thread is out, and the task between two turns, it is
\* the last seek that counts, whether it was made or is left to the task, and
\* the task runs on unless it came to an end by itself: neither a pause nor a
\* flush of a seek that another one overtook is left behind.  (A seek to where
\* playback already is leaves the state SEEK, and the seek before it is served.)
SeekTakesEffect ==
  (app.pc = "idle" /\ task.pc = "loop") =>
    /\ \/ past.stayed
       \/ past.asked = IF demux.state = "SEEK" THEN request.event ELSE past.made
    /\ ~flushing /\ (task.started \/ demux.ret \in {"EOS", "NOT_LINKED", "ERROR"})

\* The frames that were asked for, of the streams that have a pad: from the
\* time sought on, or that of the key unit after it; in reverse from the start
\* of the segment up to it.
Wanted(ev, segment) ==
  {i \in DOMAIN file : HasPayload(file[i]) /\ file[i].type \in Existing(demux) /\
     IF segment.rate > 0
     THEN file[i].time >= (IF ev.after THEN segment.start ELSE ev.target)
     ELSE file[i].time \in segment.start..ev.target}

\* Playback ends with nothing left out of what was asked for, forwards or in
\* reverse, with a whole index, one that was scanned for the seek, or none.
\* In reverse the code ends too soon after a section without a frame, and when
\* the file ends in the section it began with; a seek to where playback
\* already is changes the direction without beginning a section.  After an
\* end nothing goes out before a flush, nor does it once downstream has refused.
PlaysAll ==
  [][LET Ends(p) == ~demux.pad[p].out.eos /\ demux'.pad[p].out.eos
         ended == demux'.ret = "EOS" /\ \A p \in Existing(demux') : Ends(p)
         first_section == section.to = G_MAXINT64 /\ demux.offset = FileSize
         refused == \E p \in Streams : demux'.pad[p].flow \notin {"OK", "FLUSHING"}
         no_frame == \A p \in Streams : demux.pad[p].first_ts = TIME_NONE
     IN ended /\ ~past.stayed /\ ~refused /\ (demux.segment.rate > 0 \/ ~(first_section \/ no_frame))
        => Wanted(past.made, demux.segment) \subseteq past'.played]_vars

\* Each stream is delivered as FlvDelivery says, in either direction.
Delivery == INSTANCE FlvDelivery WITH
  at <- [p \in Streams |-> demux.pad[p].out.tag],
  discont <- [p \in Streams |-> demux.pad[p].out.discont]

DeliversInOrder == Delivery!Spec

===========================================================================
