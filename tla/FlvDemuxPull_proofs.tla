------------------------ MODULE FlvDemuxPull_proofs ------------------------
(***************************************************************************)
(* The demuxer in pull mode: the seek last asked for is the one that takes *)
(* effect, whatever the two threads overtake, and each stream is delivered *)
(* in the order of the file, as FlvDelivery says.                          *)
(***************************************************************************)
EXTENDS FlvDemuxPull, FlvTags_proofs

(***************************************************************************)
(* The seeks.                                                              *)
(***************************************************************************)
TagStates == {"TAG_VIDEO", "TAG_AUDIO", "TAG_SCRIPT", "SKIP"}
Ends == {"EOS", "NOT_LINKED", "ERROR"}

\* The pads flush only until the seek that flushed them has the stream lock.
FlushInv == flushing => app.pc = "lock" /\ app.event.flush

\* The task is told to halt by a seek that is to start it.
HaltInv ==
  /\ request.seeking \/ task.pc = "halt" => app.pc # "idle"
  /\ ~task.started => app.pc # "idle" \/ demux.ret \in Ends
  /\ task.pc # "loop" => demux.ret = "OK"

\* The seek last asked for is in the application's thread, with the task, or made.
AskedInv ==
  /\ app.pc # "idle" => past.asked = app.event
  /\ app.pc = "idle" =>
       past.stayed \/ past.asked = IF demux.state = "SEEK" THEN request.event ELSE past.made
  /\ task.pc = "typed" => demux.state \in TagStates
  /\ task.pc = "serve" => demux.state = "SEEK"
  /\ task.pc \in {"served", "halt", "go"} => demux.state # "SEEK" \/ past.stayed

SeekInv == FlushInv /\ HaltInv /\ AskedInv

(***************************************************************************)
(* The place in the file.                                                  *)
(***************************************************************************)
StateOf(type) ==
  CASE type = "video" -> "TAG_VIDEO" [] type = "audio" -> "TAG_AUDIO"
    [] type = "script" -> "TAG_SCRIPT" [] OTHER -> "SKIP"

\* Between two tags, or before the header.
Between(d) ==
  \/ d.state = "HEADER" /\ d.offset = 0
  \/ d.state = "TAG_TYPE" /\ \E i \in 1..(Len(file) + 1) : d.offset = Position(i)

\* Past the type of a tag.
Inside(d) ==
  /\ d.tag \in DOMAIN file /\ d.state = StateOf(file[d.tag].type)
  /\ d.offset = Position(d.tag) + 1 /\ d.cur_tag_offset = Position(d.tag)

IndexStarts(d) == \A k \in DOMAIN d.index : \E i \in DOMAIN file : d.index[k].pos = Position(i)

PlaceInv ==
  /\ IndexStarts(demux)
  /\ task.pc = "typed" => Inside(demux)
  /\ task.pc # "typed" =>
       \/ Between(demux) \/ demux.state = "SEEK"
       \/ task.pc = "loop" /\ flushing /\ ~task.started

(***************************************************************************)
(* The streams.                                                            *)
(***************************************************************************)
\* Only a pad that got a buffer and whose configuration is known goes on without
\* a discontinuity.
PadInv(d, p) ==
  LET pad == d.pad[p] IN
  /\ ~pad.exists => pad.need_discont /\ ~pad.out.eos
  /\ \A i \in DOMAIN file : file[i].type = p =>
       /\ pad.codec \in {"none", file[i].codec}
       /\ pad.exists => pad.codec = file[i].codec
  /\ ~pad.need_discont /\ pad.codec = "configured" => pad.codec_data

ParInv(d) ==
  d.got_par => \A i \in DOMAIN file : ~(file[i].type = "video" /\ file[i].codec = "configured")

\* The last buffer of a stream was that of the last frame before tag n.
Before(out, p, n) ==
  /\ out.tag # 0 /\ out.tag < n
  /\ \A k \in Delivery!Frames(p) : ~(out.tag < k /\ k < n)

\* The next buffer of a stream is the next frame, or a discontinuity, or there
\* is none before a flush.
NextInv(p) ==
  LET pad == demux.pad[p] IN
  \/ pad.need_discont \/ pad.out.eos \/ flushing \/ demux.state = "SEEK"
  \/ task.pc = "typed" /\ Before(pad.out, p, demux.tag)
  \/ /\ task.pc # "typed" /\ demux.state = "TAG_TYPE"
     /\ \E n \in 1..(Len(file) + 1) : demux.offset = Position(n) /\ Before(pad.out, p, n)

StreamInv == ParInv(demux) /\ \A p \in Streams : PadInv(demux, p) /\ NextInv(p)

PullInv == TypeOK /\ SeekInv /\ PlaceInv

---------------------------------------------------------------------------
(* What the steps are made of. *)

Sections == [from : Nat \cup {NotSet}, to : Nat]

\* The place is that of an entry of the index, or the start of the file, and
\* every stream knows.
MovedIn(d, e) ==
  /\ e.state = IF e.offset = 0 THEN "HEADER" ELSE "TAG_TYPE"
  /\ e.offset = 0 \/ \E k \in DOMAIN d.index : e.offset = d.index[k].pos
  /\ \A p \in Streams : e.pad[p].need_discont

LEMMA MoveToOffsetType ==
  ASSUME NEW d \in DemuxType, NEW offset \in Nat
  PROVE  LET e == MoveToOffset(d, offset) IN
         /\ e \in DemuxType /\ e.offset = offset
         /\ e.state = IF offset = 0 THEN "HEADER" ELSE "TAG_TYPE"
         /\ e.index = d.index /\ e.got_par = d.got_par /\ e.ret = d.ret
         /\ e.segment = d.segment
         /\ \A p \in Streams : /\ e.pad[p].exists = d.pad[p].exists
                               /\ e.pad[p].codec = d.pad[p].codec
                               /\ e.pad[p].codec_data = d.pad[p].codec_data
                               /\ e.pad[p].out = d.pad[p].out
                               /\ e.pad[p].need_discont
<1> DEFINE a == Discont(d)
           pads == [p \in Streams |-> [a.pad[p] EXCEPT !.done = FALSE, !.first_ts = TIME_NONE]]
           state == IF offset = 0 THEN "HEADER" ELSE "TAG_TYPE"
           e == [a EXCEPT !.offset = offset, !.state = state, !.pad = pads]
<1>1. MoveToOffset(d, offset) = e
  BY DEF MoveToOffset
<1>2. /\ a \in DemuxType /\ a = [d EXCEPT !.pad = a.pad]
      /\ \A p \in Streams : a.pad[p] = [d.pad[p] EXCEPT !.need_discont = TRUE]
  BY DiscontType
<1> HIDE DEF a
<1>3. ASSUME NEW p \in Streams
      PROVE  /\ pads[p] \in PadType
             /\ pads[p].exists = d.pad[p].exists /\ pads[p].codec = d.pad[p].codec
             /\ pads[p].codec_data = d.pad[p].codec_data
             /\ pads[p].out = d.pad[p].out /\ pads[p].need_discont
  <2>1. d.pad[p] \in PadType /\ TIME_NONE \in Int
    BY PadOf DEF TIME_NONE
  <2>2. pads[p] = [a.pad[p] EXCEPT !.done = FALSE, !.first_ts = TIME_NONE]
    OBVIOUS
  <2>3. a.pad[p] = [d.pad[p] EXCEPT !.need_discont = TRUE]
    BY <1>2
  <2> DEFINE x == a.pad[p]
  <2>4. /\ x \in PadType /\ x.exists = d.pad[p].exists /\ x.codec = d.pad[p].codec
        /\ x.codec_data = d.pad[p].codec_data /\ x.out = d.pad[p].out /\ x.need_discont
    BY <2>1, <2>3 DEF PadType
  <2>. HIDE DEF x
  <2>5. pads[p] = [x EXCEPT !.done = FALSE, !.first_ts = TIME_NONE]
    BY <2>2 DEF x
  <2>. HIDE DEF pads
  <2>. QED BY <2>1, <2>4, <2>5 DEF PadType
<1>4. pads \in [Streams -> PadType]
  BY <1>3
<1>5. state \in States
  BY DEF States
<1>6. /\ a.index = d.index /\ a.got_par = d.got_par /\ a.ret = d.ret
      /\ a.segment = d.segment
  BY <1>2 DEF DemuxType
<1> HIDE DEF pads, state
<1>7. e \in DemuxType
  BY <1>2, <1>4, <1>5 DEF DemuxType
<1>8. /\ e.offset = offset /\ e.state = state /\ e.pad = pads /\ e.index = a.index
      /\ e.got_par = a.got_par /\ e.ret = a.ret /\ e.segment = a.segment
  BY <1>2 DEF DemuxType
<1>. QED BY <1>1, <1>3, <1>6, <1>7, <1>8 DEF state

LEMMA SeekToPrevKeyframeType ==
  ASSUME NEW d \in DemuxType, NEW sec \in Sections
  PROVE  LET e == SeekToPrevKeyframe(d, sec) IN
         /\ e \in DemuxType /\ PrevSection(d, sec) \in Sections
         /\ e.index = d.index /\ e.got_par = d.got_par
         /\ \A p \in Streams : /\ e.pad[p].exists = d.pad[p].exists
                               /\ e.pad[p].codec = d.pad[p].codec
                               /\ e.pad[p].codec_data = d.pad[p].codec_data
                               /\ e.pad[p].out = d.pad[p].out
         /\ \/ e.ret = "EOS" /\ SamePlace(d, e) /\ e.pad = d.pad
            \/ e.ret = "OK" /\ MovedIn(d, e)
<1> DEFINE entry == PrevKeyframe(d, sec)
           e == SeekToPrevKeyframe(d, sec)
<1>1. entry \in {NULL} \cup DOMAIN d.index
  <2>1. sec.from - 1 \in Int
    BY DEF Sections, NotSet
  <2>2. d.index \in Seq(Entries) /\ "pos" \in Formats
    BY DEF DemuxType, Formats
  <2>. QED BY <2>1, <2>2, LookupIn DEF PrevKeyframe
<1>2. PrevSection(d, sec) \in Sections
  <2>1. CASE AllPlayed(d, sec) \/ entry = NULL
    BY <2>1 DEF PrevSection
  <2>2. CASE ~(AllPlayed(d, sec) \/ entry = NULL)
    <3>1. sec.from \in Nat
      BY <2>2 DEF AllPlayed, Sections, NotSet
    <3>. QED BY <2>2, <3>1 DEF PrevSection, Sections
  <2>. QED BY <2>1, <2>2
<1> HIDE DEF entry
<1>3. CASE AllPlayed(d, sec) \/ entry = NULL
  <2>1. e = [d EXCEPT !.ret = "EOS"]
    BY <1>3 DEF SeekToPrevKeyframe, entry
  <2>. HIDE DEF e
  <2>. QED BY <1>2, <2>1 DEF e, DemuxType, SamePlace, FlowReturns
<1>4. CASE ~(AllPlayed(d, sec) \/ entry = NULL)
  <2> DEFINE pos == d.index[entry].pos
             m == MoveToOffset(d, pos)
  <2>1. e = [m EXCEPT !.ret = "OK"]
    BY <1>4 DEF SeekToPrevKeyframe, entry
  <2>2. entry \in DOMAIN d.index
    BY <1>1, <1>4
  <2>3. pos \in Nat
    BY <2>2, EntriesHold DEF DemuxType, Formats
  <2>. HIDE DEF pos
  <2>4. /\ m \in DemuxType /\ m.offset = pos
        /\ m.state = IF pos = 0 THEN "HEADER" ELSE "TAG_TYPE"
        /\ m.index = d.index /\ m.got_par = d.got_par
        /\ \A p \in Streams : /\ m.pad[p].exists = d.pad[p].exists
                              /\ m.pad[p].codec = d.pad[p].codec
                              /\ m.pad[p].codec_data = d.pad[p].codec_data
                              /\ m.pad[p].out = d.pad[p].out
                              /\ m.pad[p].need_discont
    BY <2>3, MoveToOffsetType
  <2>. HIDE DEF m, e
  <2>5. /\ e \in DemuxType /\ e.pad = m.pad /\ e.offset = m.offset
        /\ e.state = m.state /\ e.index = m.index /\ e.got_par = m.got_par
        /\ e.ret = "OK"
    BY <2>1, <2>4 DEF DemuxType, FlowReturns
  <2>6. MovedIn(d, e)
    BY <2>2, <2>4, <2>5 DEF MovedIn, pos
  <2>. QED BY <1>2, <2>4, <2>5, <2>6 DEF e
<1>. QED BY <1>3, <1>4

\* At most the end of the stream has gone out of the pads.
EosOnly(d, e) ==
  /\ e \in DemuxType /\ SamePlace(d, e)
  /\ e.index = d.index /\ e.got_par = d.got_par /\ e.ret = d.ret
  /\ \A p \in Streams : /\ e.pad[p].exists = d.pad[p].exists
                        /\ e.pad[p].codec = d.pad[p].codec
                        /\ e.pad[p].codec_data = d.pad[p].codec_data
                        /\ e.pad[p].need_discont = d.pad[p].need_discont
                        /\ e.pad[p].out.tag = d.pad[p].out.tag
                        /\ e.pad[p].out.discont = d.pad[p].out.discont
                        /\ d.pad[p].out.eos => e.pad[p].out.eos
                        /\ ~d.pad[p].exists => e.pad[p].out.eos = d.pad[p].out.eos

\* And it has gone out of all of them.
AllEnded(d) == \A p \in Streams : d.pad[p].exists => d.pad[p].out.eos

LEMMA EosOnlySelf ==
  ASSUME NEW d \in DemuxType
  PROVE  EosOnly(d, d)
BY DEF EosOnly, SamePlace

LEMMA PushEosType ==
  ASSUME NEW d \in DemuxType
  PROVE  EosOnly(d, PushEos(d)) /\ (~flushing => AllEnded(PushEos(d)))
<1> DEFINE e == gst_flv_demux_push_src_event(d, "EOS")
<1>1. CASE flushing
  <2>1. PushEos(d) = d
    BY <1>1 DEF PushEos
  <2>. QED BY <1>1, <2>1, EosOnlySelf
<1>2. CASE ~flushing
  <2>1. PushEos(d) = e
    BY <1>2 DEF PushEos
  <2>2. /\ e \in DemuxType
        /\ e = [d EXCEPT !.pad = e.pad]
        /\ \A p \in Streams :
             e.pad[p] = IF d.pad[p].exists
                        THEN [d.pad[p] EXCEPT !.out = EventOut(@, "EOS")]
                        ELSE d.pad[p]
    BY PushEventType
  <2>. HIDE DEF e
  <2>3. SamePlace(d, e) /\ e.index = d.index /\ e.got_par = d.got_par /\ e.ret = d.ret
    BY <2>2 DEF DemuxType, SamePlace
  <2>4. ASSUME NEW p \in Streams
        PROVE  /\ e.pad[p].exists = d.pad[p].exists
               /\ e.pad[p].codec = d.pad[p].codec
               /\ e.pad[p].codec_data = d.pad[p].codec_data
               /\ e.pad[p].need_discont = d.pad[p].need_discont
               /\ e.pad[p].out.tag = d.pad[p].out.tag
               /\ e.pad[p].out.discont = d.pad[p].out.discont
               /\ d.pad[p].out.eos => e.pad[p].out.eos
               /\ ~d.pad[p].exists => e.pad[p].out.eos = d.pad[p].out.eos
               /\ d.pad[p].exists => e.pad[p].out.eos
    <3>1. d.pad[p] \in PadType
      BY PadOf
    <3>2. d.pad[p].out \in OutType
      BY <3>1 DEF PadType
    <3> DEFINE out == [d.pad[p].out EXCEPT !.eos = TRUE]
    <3>3. /\ out.tag = d.pad[p].out.tag /\ out.discont = d.pad[p].out.discont /\ out.eos
      BY <3>2 DEF OutType
    <3>4. EventOut(d.pad[p].out, "EOS") = out
      BY DEF EventOut
    <3>. HIDE DEF out
    <3>6. CASE d.pad[p].exists
      <4>1. e.pad[p] = [d.pad[p] EXCEPT !.out = out]
        BY <2>2, <3>4, <3>6
      <4>. QED BY <3>1, <3>3, <3>6, <4>1 DEF PadType
    <3>7. CASE ~d.pad[p].exists
      <4>1. e.pad[p] = d.pad[p]
        BY <2>2, <3>7
      <4>. QED BY <3>7, <4>1
    <3>. QED BY <3>6, <3>7
  <2>. QED BY <2>1, <2>2, <2>3, <2>4 DEF EosOnly, AllEnded
<1>. QED BY <1>1, <1>2

LEMMA EosOnlyTrans ==
  ASSUME NEW d, NEW e, NEW g, EosOnly(d, e), EosOnly(e, g)
  PROVE  EosOnly(d, g)
<1>1. SamePlace(d, g)
  BY DEF EosOnly, SamePlace
<1>. QED BY <1>1 DEF EosOnly

LEMMA PauseType ==
  ASSUME NEW d \in DemuxType
  PROVE  /\ EosOnly(d, Pause(d))
         /\ d.ret \in Ends /\ ~flushing => AllEnded(Pause(d))
<1>1. CASE d.ret = "EOS"
  <2> DEFINE position == IF d.segment.rate < 0 THEN d.segment.start
                         ELSE IF d.segment.stop # TIME_NONE THEN d.segment.stop
                         ELSE d.segment.position
             segment == [d.segment EXCEPT !.position = position]
             e == [d EXCEPT !.no_more_pads = TRUE, !.segment = segment]
  <2>1. Pause(d) = PushEos(e)
    <3>1. Pause(d) = Ended(d)
      BY <1>1 DEF Pause
    <3>2. [d EXCEPT !.no_more_pads = TRUE,
              !.segment.position = IF d.segment.rate < 0 THEN d.segment.start
                                   ELSE IF d.segment.stop # TIME_NONE
                                        THEN d.segment.stop ELSE @] = e
      BY DEF DemuxType, Segments
    <3>. QED BY <3>1, <3>2 DEF Ended
  <2>2. d.segment \in Segments
    BY DEF DemuxType
  <2>3. position \in Int
    BY <2>2 DEF Segments
  <2>. HIDE DEF position
  <2>4. segment \in Segments
    BY <2>2, <2>3 DEF Segments
  <2>. HIDE DEF segment
  <2>5. /\ e \in DemuxType /\ SamePlace(d, e) /\ e.index = d.index
        /\ e.got_par = d.got_par /\ e.ret = d.ret /\ e.pad = d.pad
    BY <2>4 DEF DemuxType, SamePlace
  <2>. HIDE DEF e
  <2>6. EosOnly(e, PushEos(e)) /\ (~flushing => AllEnded(PushEos(e)))
    BY <2>5, PushEosType
  <2>7. EosOnly(d, e)
    <3>1. EosOnly(d, d)
      BY EosOnlySelf
    <3>. QED BY <2>5, <3>1 DEF EosOnly
  <2>8. EosOnly(d, PushEos(e))
    BY <2>6, <2>7, EosOnlyTrans
  <2>. QED BY <2>1, <2>6, <2>8
<1>2. CASE d.ret \in {"NOT_LINKED", "ERROR"}
  <2>1. Pause(d) = PushEos(d)
    BY <1>2 DEF Pause
  <2>. QED BY <2>1, PushEosType
<1>3. CASE d.ret \notin Ends
  <2>1. Pause(d) = d
    BY <1>3 DEF Pause, Ends
  <2>. QED BY <1>3, <2>1, EosOnlySelf
<1>. QED BY <1>1, <1>2, <1>3 DEF Ends

\* What the end of a turn does.
TurnDoes(d, e, started, starts) ==
  /\ e \in DemuxType /\ e.index = d.index /\ e.got_par = d.got_par
  /\ \A p \in Streams : /\ e.pad[p].exists = d.pad[p].exists
                        /\ e.pad[p].codec = d.pad[p].codec
                        /\ e.pad[p].codec_data = d.pad[p].codec_data
                        /\ e.pad[p].out.tag = d.pad[p].out.tag
                        /\ e.pad[p].out.discont = d.pad[p].out.discont
                        /\ d.pad[p].out.eos => e.pad[p].out.eos
                        /\ ~d.pad[p].exists => e.pad[p].out.eos = d.pad[p].out.eos
  /\ \/ MovedIn(d, e)
     \/ /\ SamePlace(d, e)
        /\ \A p \in Streams : e.pad[p].need_discont = d.pad[p].need_discont
        /\ d.ret = "ERROR" /\ ~flushing => AllEnded(e)
        /\ d.ret = "FLUSHING" => ~starts
  /\ e.ret = "FLUSHING" => d.ret = "FLUSHING"
  /\ starts \in BOOLEAN
  /\ starts => started
  /\ started /\ ~starts => e.ret \in Ends \cup {"FLUSHING"}

LEMMA EndOfTurnDoes ==
  ASSUME NEW d \in DemuxType, NEW sec \in Sections, NEW started \in BOOLEAN,
         EndOfTurn(d, sec, started)
  PROVE  /\ TurnDoes(d, demux', started, task'.started)
         /\ section' \in Sections
         /\ task' = [pc |-> "loop", started |-> task'.started]
<1> DEFINE over == EndOfSection(d, sec)
           past_stop == d.segment.rate > 0 /\ d.segment.stop # TIME_NONE
                        /\ d.segment.position >= d.segment.stop
           e == IF over THEN SeekToPrevKeyframe(d, sec)
                ELSE IF past_stop THEN [d EXCEPT !.ret = "EOS"] ELSE d
           stops == Stops(e.ret, e.no_more_pads)
<1>1. /\ demux' = IF stops THEN Pause(e) ELSE e
      /\ section' = IF over THEN PrevSection(d, sec) ELSE sec
      /\ task' = [pc |-> "loop", started |-> started /\ ~stops]
  BY DEF EndOfTurn
<1>2. /\ e \in DemuxType /\ section' \in Sections
      /\ e.index = d.index /\ e.got_par = d.got_par
      /\ \A p \in Streams : /\ e.pad[p].exists = d.pad[p].exists
                            /\ e.pad[p].codec = d.pad[p].codec
                            /\ e.pad[p].codec_data = d.pad[p].codec_data
                            /\ e.pad[p].out = d.pad[p].out
      /\ \/ e.ret \in {"EOS", d.ret} /\ SamePlace(d, e) /\ e.pad = d.pad
         \/ e.ret = "OK" /\ MovedIn(d, e)
  <2>1. CASE over
    <3>1. e = SeekToPrevKeyframe(d, sec)
      BY <2>1
    <3>2. section' = PrevSection(d, sec)
      BY <1>1, <2>1
    <3>. HIDE DEF e
    <3>. QED BY <3>1, <3>2, SeekToPrevKeyframeType
  <2>2. CASE ~over /\ past_stop
    <3>1. e = [d EXCEPT !.ret = "EOS"] /\ section' = sec
      BY <1>1, <2>2
    <3>. HIDE DEF e
    <3>. QED BY <3>1 DEF DemuxType, SamePlace, FlowReturns
  <2>3. CASE ~over /\ ~past_stop
    <3>1. e = d /\ section' = sec
      BY <1>1, <2>3
    <3>. HIDE DEF e
    <3>. QED BY <3>1 DEF SamePlace
  <2>. QED BY <2>1, <2>2, <2>3
<1> HIDE DEF e
<1>3. e.ret \in FlowReturns /\ d.ret \in FlowReturns
  BY <1>2 DEF DemuxType
<1>4. /\ stops \in BOOLEAN /\ (stops => e.ret \in Ends \cup {"FLUSHING"})
      /\ e.ret \in {"EOS", "ERROR", "FLUSHING"} => stops
  <2>1. e.no_more_pads \in BOOLEAN
    BY <1>2 DEF DemuxType
  <2>. QED BY <1>3, <2>1 DEF Stops, Ends, FlowReturns
<1> HIDE DEF stops, over
<1>5. EosOnly(e, demux') /\ (stops /\ e.ret \in Ends /\ ~flushing => AllEnded(demux'))
  <2>1. CASE stops
    <3>1. demux' = Pause(e)
      BY <1>1, <2>1
    <3>. QED BY <1>2, <3>1, PauseType
  <2>2. CASE ~stops
    <3>1. demux' = e
      BY <1>1, <2>2
    <3>. QED BY <1>2, <2>2, <3>1, EosOnlySelf
  <2>. QED BY <1>4, <2>1, <2>2
<1>6. demux'.ret = e.ret
  BY <1>5 DEF EosOnly
<1>7. task'.started = (started /\ ~stops) /\ task'.started \in BOOLEAN
  BY <1>1, <1>4
<1>8. \A p \in Streams : /\ demux'.pad[p].exists = d.pad[p].exists
                         /\ demux'.pad[p].codec = d.pad[p].codec
                         /\ demux'.pad[p].codec_data = d.pad[p].codec_data
                         /\ demux'.pad[p].out.tag = d.pad[p].out.tag
                         /\ demux'.pad[p].out.discont = d.pad[p].out.discont
                         /\ d.pad[p].out.eos => demux'.pad[p].out.eos
                         /\ ~d.pad[p].exists => demux'.pad[p].out.eos = d.pad[p].out.eos
  BY <1>2, <1>5 DEF EosOnly
<1>9. \/ MovedIn(d, demux') /\ e.ret = "OK"
      \/ /\ SamePlace(d, demux') /\ e.ret \in {"EOS", d.ret}
         /\ \A p \in Streams : demux'.pad[p].need_discont = d.pad[p].need_discont
         /\ d.ret = "ERROR" /\ ~flushing => AllEnded(demux')
         /\ d.ret = "FLUSHING" => ~task'.started
  <2>1. CASE e.ret = "OK" /\ MovedIn(d, e)
    BY <1>2, <1>5, <2>1 DEF EosOnly, MovedIn, SamePlace
  <2>2. CASE e.ret \in {"EOS", d.ret} /\ SamePlace(d, e) /\ e.pad = d.pad
    <3>1. SamePlace(d, demux')
      BY <1>5, <2>2 DEF EosOnly, SamePlace
    <3>2. \A p \in Streams : demux'.pad[p].need_discont = d.pad[p].need_discont
      BY <1>5, <2>2 DEF EosOnly
    <3>3. d.ret = "ERROR" /\ ~flushing => AllEnded(demux')
      BY <1>4, <1>5, <2>2 DEF Ends
    <3>4. d.ret = "FLUSHING" => ~task'.started
      BY <1>4, <1>7, <2>2
    <3>. QED BY <2>2, <3>1, <3>2, <3>3, <3>4
  <2>. QED BY <1>2, <2>1, <2>2
<1>10. TurnDoes(d, demux', started, task'.started)
  BY <1>2, <1>4, <1>5, <1>6, <1>7, <1>8, <1>9 DEF TurnDoes, EosOnly
<1>11. task' = [pc |-> "loop", started |-> task'.started]
  BY <1>1
<1>. QED BY <1>2, <1>10, <1>11

---------------------------------------------------------------------------
(* Looking ahead. *)

\* What looking ahead leaves alone, and where its entries are.
LooksAhead(d, e) ==
  /\ e \in DemuxType /\ SamePlace(d, e) /\ e.pad = d.pad
  /\ AddsAt(d, e, DOMAIN file)
  /\ e.got_par => d.got_par \/ \E i \in DOMAIN file : file[i].type = "script"
                                                      /\ "par" \in file[i].items

LEMMA FileTags ==
  ASSUME TypeOK
  PROVE  /\ file \in Seq(Tags) /\ DOMAIN file = 1..Len(file) /\ Len(file) \in Nat
         /\ \A i \in DOMAIN file : file[i] \in Tags /\ file[i].time \in Nat
                                   /\ file[i].time < U32 /\ i \in Nat
<1>1. file \in Seq(Tags)
  BY TagsAssumption DEF TypeOK
<1>2. \A i \in DOMAIN file : file[i] \in Tags
  BY <1>1
<1>3. \A tag \in Tags : tag.time \in Nat /\ tag.time < U32
  BY TagsAssumption DEF Tags
<1>. QED BY <1>1, <1>2, <1>3

LEMMA ParseTagTimestampsType ==
  ASSUME TypeOK, NEW d \in DemuxType, NEW tags \in SUBSET DOMAIN file
  PROVE  LET e == ParseTagTimestamps(d, tags) IN
         /\ e \in DemuxType /\ SamePlace(d, e) /\ e.pad = d.pad /\ e.ret = d.ret
         /\ e.index = d.index /\ e.got_par = d.got_par
<1> DEFINE known == {i \in tags : file[i].type # "other"}
           times == {file[i].time : i \in known}
           S == {d.duration} \cup times
           has == d.has \cup ({file[i].type : i \in known} \cap Streams)
<1>1. d.duration \in Int /\ d.has \in SUBSET Streams
  BY DEF DemuxType
<1>2. times \subseteq Int /\ \A x \in times : x < U32
  BY FileTags
<1>3. U32 \in Int
  BY TagsAssumption
<1>4. PICK b \in Int : d.duration <= b /\ U32 <= b
  <2>1. CASE d.duration <= U32
    BY <1>1, <1>3, <2>1
  <2>2. CASE U32 <= d.duration
    BY <1>1, <1>3, <2>2
  <2>. QED BY <1>1, <1>3, <2>1, <2>2
<1> HIDE DEF times
<1>5. S \subseteq Int /\ \A x \in S : x <= b
  <2>1. ASSUME NEW x \in times PROVE x \in Int /\ x <= b
    BY <1>2, <1>3, <1>4
  <2>. QED BY <1>1, <1>4, <2>1
<1>6. S # {}
  OBVIOUS
<1> HIDE DEF S
<1>7. Max(S) \in Int
  BY <1>5, <1>6, MaxOf
<1>8. has \in SUBSET Streams
  BY <1>1
<1>9. ParseTagTimestamps(d, tags) = [d EXCEPT !.has = has, !.duration = Max(S)]
  BY DEF ParseTagTimestamps, S, times
<1> HIDE DEF has
<1>. QED BY <1>7, <1>8, <1>9 DEF DemuxType, SamePlace

LEMMA ScannedType ==
  ASSUME TypeOK, NEW d \in DemuxType, NEW first \in Nat \ {0}, NEW last \in Int,
         last <= Len(file)
  PROVE  LooksAhead(d, Scanned(d, first, last))
<1> DEFINE tags == first..last
           a == ParseTagTimestamps(d, tags)
           e == Scanned(d, first, last)
<1>1. tags \in SUBSET DOMAIN file
  BY FileTags
<1> HIDE DEF tags
<1>2. /\ a \in DemuxType /\ SamePlace(d, a) /\ a.pad = d.pad /\ a.ret = d.ret
      /\ a.index = d.index /\ a.got_par = d.got_par
  BY <1>1, ParseTagTimestampsType
<1>3. e = IF d.indexed THEN a ELSE AddTags(a, file, Listed(d, tags))
  BY DEF Scanned, tags
<1> HIDE DEF a, e
<1>4. CASE d.indexed
  <2>1. e = a
    BY <1>3, <1>4
  <2>2. AddsAt(d, d, DOMAIN file)
    BY SelfAdds
  <2>. QED BY <1>2, <2>1, <2>2 DEF LooksAhead, AddsAt, e
<1>5. CASE ~d.indexed
  <2>1. e = AddTags(a, file, Listed(d, tags))
    BY <1>3, <1>5
  <2>2. Listed(d, tags) \in SUBSET DOMAIN file /\ file \in Seq(Tags)
    BY <1>1, FileTags DEF Listed
  <2>3. e \in DemuxType /\ IndexOnly(a, e) /\ AddsAt(a, e, Listed(d, tags))
    BY <1>2, <2>1, <2>2, AddTagsType
  <2>4. SamePlace(a, e) /\ e.pad = a.pad /\ e.got_par = a.got_par
    BY <1>2, <2>3, IndexOnlyKeeps
  <2>5. SamePlace(d, e)
    BY <1>2, <2>4 DEF SamePlace
  <2>6. AddsAt(d, e, DOMAIN file)
    BY <1>2, <2>2, <2>3 DEF AddsAt
  <2>. QED BY <1>2, <2>3, <2>4, <2>5, <2>6 DEF LooksAhead, e
<1>. QED BY <1>4, <1>5

\* The metadata leave the result of the turn alone.
LEMMA GetMetadataType ==
  ASSUME TypeOK, NEW d \in DemuxType, NEW g \in GetMetadata(d)
  PROVE  LooksAhead(d, g) /\ g.ret = d.ret
<1> DEFINE e == [d EXCEPT !.file_size = FileSize]
           n == Len(file)
           t == ParseTagTimestamps(e, {n})
           s == gst_flv_demux_parse_tag_script(t, file, file[n])
<1>0. \A x : x \in DemuxType /\ SamePlace(d, x) /\ x.pad = d.pad /\ x.index = d.index
              /\ x.got_par = d.got_par => LooksAhead(d, x)
  <2>1. AddsAt(d, d, DOMAIN file)
    BY SelfAdds
  <2>. QED BY <2>1 DEF LooksAhead, AddsAt
<1>1. FileSize \in Nat
  <2>1. n \in Nat
    BY FileTags
  <2>. QED BY <2>1 DEF FileSize, Size, Position, FLV_HEADER_SIZE
<1>2. /\ e \in DemuxType /\ SamePlace(d, e) /\ e.pad = d.pad /\ e.index = d.index
      /\ e.got_par = d.got_par /\ e.ret = d.ret
  BY <1>1 DEF DemuxType, SamePlace
<1>3. g \in {d, e, LastTag(e)}
  BY DEF GetMetadata
<1> HIDE DEF e
<1>4. CASE g = d
  BY <1>0, <1>4 DEF SamePlace
<1>5. CASE g = e
  BY <1>0, <1>2, <1>5
<1>6. CASE g = LastTag(e)
  <2>1. CASE n = 0
    <3>1. LastTag(e) = e
      BY <2>1 DEF LastTag
    <3>. QED BY <1>0, <1>2, <1>6, <3>1
  <2>2. CASE n # 0
    <3>1. n \in DOMAIN file /\ file[n] \in Tags /\ file \in Seq(Tags)
      BY <2>2, FileTags
    <3>2. /\ t \in DemuxType /\ SamePlace(e, t) /\ t.pad = e.pad /\ t.ret = e.ret
          /\ t.index = e.index /\ t.got_par = e.got_par
      <4>1. {n} \in SUBSET DOMAIN file
        BY <3>1
      <4>. HIDE DEF n
      <4>. QED BY <1>2, <4>1, ParseTagTimestampsType
    <3>. HIDE DEF t
    <3>3. CASE file[n].type # "script"
      <4>1. LastTag(e) = t
        BY <2>2, <3>3 DEF LastTag, t
      <4>2. SamePlace(d, t) /\ t.pad = d.pad /\ t.index = d.index /\ t.got_par = d.got_par
            /\ t.ret = d.ret
        BY <1>2, <3>2 DEF SamePlace
      <4>. QED BY <1>0, <1>6, <3>2, <4>1, <4>2
    <3>4. CASE file[n].type = "script"
      <4>1. LastTag(e) = [s EXCEPT !.ret = e.ret]
        BY <2>2, <3>4 DEF LastTag, t
      <4>2. /\ s \in DemuxType /\ SamePlace(t, s) /\ AddsAt(t, s, DOMAIN file)
            /\ s.pad = t.pad /\ s.got_par = (t.got_par \/ "par" \in file[n].items)
        BY <3>1, <3>2, ScriptType
      <4>. HIDE DEF s
      <4> DEFINE r == [s EXCEPT !.ret = e.ret]
      <4>3. /\ r \in DemuxType /\ SamePlace(s, r) /\ r.pad = s.pad /\ r.index = s.index
            /\ r.got_par = s.got_par /\ r.ret = e.ret
        BY <1>2, <4>2 DEF DemuxType, SamePlace
      <4>. HIDE DEF r
      <4>4. SamePlace(d, r)
        BY <1>2, <3>2, <4>2, <4>3 DEF SamePlace
      <4>5. AddsAt(d, r, DOMAIN file)
        BY <1>2, <3>2, <4>2, <4>3 DEF AddsAt
      <4>6. r.got_par => d.got_par \/ "par" \in file[n].items
        BY <1>2, <3>2, <4>2, <4>3
      <4>7. r.got_par => d.got_par \/ \E i \in DOMAIN file : file[i].type = "script"
                                                      /\ "par" \in file[i].items
        BY <3>1, <3>4, <4>6
      <4>8. r.pad = d.pad /\ r.ret = d.ret
        BY <1>2, <3>2, <4>2, <4>3
      <4>9. LooksAhead(d, r)
        BY <4>3, <4>4, <4>5, <4>7, <4>8 DEF LooksAhead
      <4>. QED BY <1>6, <4>1, <4>8, <4>9 DEF r
    <3>. QED BY <3>3, <3>4
  <2>. QED BY <2>1, <2>2
<1>. QED BY <1>3, <1>4, <1>5, <1>6

LEMMA TagAtNat ==
  ASSUME NEW pos \in Nat \ {0}
  PROVE  TagAt(file, pos) \in Nat \ {0}
BY DEF TagAt, FLV_HEADER_SIZE

LEMMA CreateIndexType ==
  ASSUME TypeOK, NEW d \in DemuxType, NEW ts, NEW g \in CreateIndex(d, ts)
  PROVE  /\ LooksAhead(d, g)
         /\ g.ret = "OK" \/ (g.ret = "FLUSHING" /\ flushing)
<1> DEFINE first == TagAt(file, d.index_max_pos)
           ends == {i \in first..Len(file) : file[i].type = "other" \/ file[i].time > ts}
           last == IF ends = {} THEN Len(file) ELSE Min(ends)
           whole == [Scanned(d, first, last) EXCEPT !.indexed = @ \/ ends = {}, !.ret = "OK"]
<1>1. CASE ~sized \/ d.index_max_pos = 0
  <2>1. g = [d EXCEPT !.ret = "OK"]
    BY <1>1 DEF CreateIndex
  <2>2. AddsAt(d, d, DOMAIN file)
    BY SelfAdds
  <2>3. /\ g \in DemuxType /\ SamePlace(d, g) /\ g.pad = d.pad /\ g.index = d.index
        /\ g.got_par = d.got_par /\ g.ret = "OK"
    BY <2>1 DEF DemuxType, SamePlace, FlowReturns
  <2>. QED BY <2>2, <2>3 DEF LooksAhead, AddsAt
<1>2. CASE ~(~sized \/ d.index_max_pos = 0)
  <2>1. \/ g = whole
        \/ /\ flushing
           /\ \E i \in (first - 1)..last : g = [Scanned(d, first, i) EXCEPT !.ret = "FLUSHING"]
    BY <1>2 DEF CreateIndex
  <2>2. first \in Nat \ {0}
    <3>1. d.index_max_pos \in Nat \ {0}
      BY <1>2 DEF DemuxType
    <3>. QED BY <3>1, TagAtNat
  <2>. HIDE DEF first
  <2>3. last \in Int /\ last <= Len(file)
    <3>1. Len(file) \in Nat
      BY FileTags
    <3>2. ends # {} => Min(ends) \in ends
      <4>1. ends \subseteq Int /\ \A x \in ends : first <= x
        BY <2>2, <3>1
      <4>. HIDE DEF ends
      <4>2. first \in Int
        BY <2>2
      <4>. QED BY <4>1, <4>2, MinOf
    <3>. QED BY <2>2, <3>1, <3>2
  <2>. HIDE DEF last
  <2>4. ASSUME NEW s, NEW h, LooksAhead(d, s), h \in DemuxType, SamePlace(s, h),
               h.pad = s.pad, h.index = s.index, h.got_par = s.got_par
        PROVE  LooksAhead(d, h)
    BY <2>4 DEF LooksAhead, SamePlace, AddsAt
  <2>5. CASE g = whole
    <3> DEFINE s == Scanned(d, first, last)
               x == s.indexed \/ ends = {}
    <3>1. LooksAhead(d, s)
      BY <2>2, <2>3, ScannedType
    <3>2. g = [s EXCEPT !.indexed = x, !.ret = "OK"]
      BY <2>5
    <3>. HIDE DEF s
    <3>3. s \in DemuxType
      BY <3>1 DEF LooksAhead
    <3>4. x \in BOOLEAN
      BY <3>3 DEF DemuxType
    <3>. HIDE DEF x
    <3>5. /\ g \in DemuxType /\ SamePlace(s, g) /\ g.pad = s.pad /\ g.index = s.index
          /\ g.got_par = s.got_par /\ g.ret = "OK"
      BY <3>2, <3>3, <3>4 DEF DemuxType, SamePlace, FlowReturns
    <3>. QED BY <2>4, <3>1, <3>5
  <2>6. CASE /\ flushing
             /\ \E i \in (first - 1)..last : g = [Scanned(d, first, i) EXCEPT !.ret = "FLUSHING"]
    <3>1. PICK i \in (first - 1)..last : g = [Scanned(d, first, i) EXCEPT !.ret = "FLUSHING"]
      BY <2>6
    <3>2. i \in Int /\ i <= Len(file)
      <4>1. Len(file) \in Nat
        BY FileTags
      <4>. QED BY <2>2, <2>3, <4>1
    <3> DEFINE s == Scanned(d, first, i)
    <3>3. LooksAhead(d, s)
      BY <2>2, <3>2, ScannedType
    <3>4. g = [s EXCEPT !.ret = "FLUSHING"]
      BY <3>1
    <3>. HIDE DEF s
    <3>5. s \in DemuxType
      BY <3>3 DEF LooksAhead
    <3>6. /\ g \in DemuxType /\ SamePlace(s, g) /\ g.pad = s.pad /\ g.index = s.index
          /\ g.got_par = s.got_par /\ g.ret = "FLUSHING"
      BY <3>4, <3>5 DEF DemuxType, SamePlace, FlowReturns
    <3>. QED BY <2>4, <2>6, <3>3, <3>6
  <2>. QED BY <2>1, <2>5, <2>6
<1>. QED BY <1>1, <1>2

---------------------------------------------------------------------------
(* Seeking. *)

AllEvents == Events \cup {NoEvent}

\* What a flush that ends leaves of what has gone out.
FlushOnly(d, e, flush) ==
  /\ e \in DemuxType /\ SamePlace(d, e)
  /\ e.index = d.index /\ e.got_par = d.got_par /\ e.ret = d.ret
  /\ \A p \in Streams : /\ e.pad[p].exists = d.pad[p].exists
                        /\ e.pad[p].codec = d.pad[p].codec
                        /\ e.pad[p].codec_data = d.pad[p].codec_data
                        /\ e.pad[p].need_discont = d.pad[p].need_discont
                        /\ ~flush \/ ~d.pad[p].exists => e.pad[p].out = d.pad[p].out
                        /\ e.pad[p].out \in {d.pad[p].out, NothingOut}

LEMMA EventOf ==
  ASSUME NEW ev \in AllEvents
  PROVE  /\ ev.target \in Int /\ ev.rate \in {-1, 1} /\ ev.flush \in BOOLEAN
         /\ ev.key_unit \in BOOLEAN /\ ev.after \in BOOLEAN
<1>1. CASE ev \in Events
  BY <1>1, PullAssumption
<1>2. CASE ev = NoEvent
  BY <1>2 DEF NoEvent, TIME_NONE
<1>. QED BY <1>1, <1>2 DEF AllEvents

LEMMA FlushedDownType ==
  ASSUME NEW d \in DemuxType, NEW ev \in AllEvents
  PROVE  FlushOnly(d, FlushedDown(d, ev), ev.flush)
<1> DEFINE e == gst_flv_demux_push_src_event(d, "FLUSH_STOP")
<1>1. CASE ~ev.flush
  <2>1. FlushedDown(d, ev) = d
    BY <1>1 DEF FlushedDown
  <2>. QED BY <1>1, <2>1 DEF FlushOnly, SamePlace
<1>2. CASE ev.flush
  <2>1. FlushedDown(d, ev) = e
    BY <1>2 DEF FlushedDown
  <2>2. /\ e \in DemuxType
        /\ e = [d EXCEPT !.pad = e.pad]
        /\ \A p \in Streams :
             e.pad[p] = IF d.pad[p].exists
                        THEN [d.pad[p] EXCEPT !.out = EventOut(@, "FLUSH_STOP")]
                        ELSE d.pad[p]
    BY PushEventType
  <2>. HIDE DEF e
  <2>3. SamePlace(d, e) /\ e.index = d.index /\ e.got_par = d.got_par /\ e.ret = d.ret
    BY <2>2 DEF DemuxType, SamePlace
  <2>4. ASSUME NEW p \in Streams
        PROVE  /\ e.pad[p].exists = d.pad[p].exists
               /\ e.pad[p].codec = d.pad[p].codec
               /\ e.pad[p].codec_data = d.pad[p].codec_data
               /\ e.pad[p].need_discont = d.pad[p].need_discont
               /\ ~d.pad[p].exists => e.pad[p].out = d.pad[p].out
               /\ e.pad[p].out \in {d.pad[p].out, NothingOut}
    <3>1. d.pad[p] \in PadType
      BY PadOf
    <3>2. EventOut(d.pad[p].out, "FLUSH_STOP") = NothingOut
      BY DEF EventOut
    <3>3. CASE d.pad[p].exists
      <4>1. e.pad[p] = [d.pad[p] EXCEPT !.out = NothingOut]
        BY <2>2, <3>2, <3>3
      <4>. QED BY <3>1, <3>3, <4>1 DEF PadType
    <3>4. CASE ~d.pad[p].exists
      BY <2>2, <3>4
    <3>. QED BY <3>3, <3>4
  <2>. QED BY <1>2, <2>1, <2>2, <2>3, <2>4 DEF FlushOnly
<1>. QED BY <1>1, <1>2

\* What a seek that is made does: it moves, or stays where playback is.
SeekDoes(d, e, flush, moves) ==
  /\ e \in DemuxType /\ e.index = d.index /\ e.got_par = d.got_par /\ e.ret = d.ret
  /\ \A p \in Streams : /\ e.pad[p].exists = d.pad[p].exists
                        /\ e.pad[p].codec = d.pad[p].codec
                        /\ e.pad[p].codec_data = d.pad[p].codec_data
                        /\ ~flush \/ ~d.pad[p].exists => e.pad[p].out = d.pad[p].out
                        /\ e.pad[p].out \in {d.pad[p].out, NothingOut}
  /\ \/ moves /\ MovedIn(d, e)
     \/ /\ ~moves /\ SamePlace(d, e)
        /\ \A p \in Streams : e.pad[p].need_discont = d.pad[p].need_discont

\* The last steps of a seek: the segment is set, and asked for on every pad.
LEMMA FinishedType ==
  ASSUME NEW d \in DemuxType, NEW segment \in Segments
  PROVE  LET e == NeedSegment(gst_flow_combiner_reset([d EXCEPT !.segment = segment]), segment)
         IN FlushOnly(d, e, FALSE)
<1> DEFINE a == [d EXCEPT !.segment = segment]
           b == gst_flow_combiner_reset(a)
           e == NeedSegment(b, segment)
<1>1. a \in DemuxType /\ SamePlace(d, a) /\ a.pad = d.pad /\ a.index = d.index
      /\ a.got_par = d.got_par /\ a.ret = d.ret
  BY DEF DemuxType, SamePlace
<1> HIDE DEF a
<1>2. /\ b \in DemuxType
      /\ b = [a EXCEPT !.pad = b.pad]
      /\ \A p \in Streams : b.pad[p] = [a.pad[p] EXCEPT !.flow = "OK"]
  BY <1>1, CombinerResetType
<1> HIDE DEF b
<1>3. /\ e \in DemuxType
      /\ e = [b EXCEPT !.new_seg_event = segment, !.pad = e.pad]
      /\ \A p \in Streams : e.pad[p] = [b.pad[p] EXCEPT !.need_segment = TRUE]
  BY <1>2, NeedSegmentType
<1> HIDE DEF e
<1>4. SamePlace(a, b) /\ b.index = a.index /\ b.got_par = a.got_par /\ b.ret = a.ret
  BY <1>1, <1>2 DEF DemuxType, SamePlace
<1>5. SamePlace(b, e) /\ e.index = b.index /\ e.got_par = b.got_par /\ e.ret = b.ret
  BY <1>2, <1>3 DEF DemuxType, SamePlace
<1>6. ASSUME NEW p \in Streams
      PROVE  /\ e.pad[p].exists = d.pad[p].exists
             /\ e.pad[p].codec = d.pad[p].codec
             /\ e.pad[p].codec_data = d.pad[p].codec_data
             /\ e.pad[p].need_discont = d.pad[p].need_discont
             /\ e.pad[p].out = d.pad[p].out
  <2> DEFINE x == d.pad[p]
             y == b.pad[p]
  <2>1. x \in PadType
    BY PadOf
  <2>2. y = [x EXCEPT !.flow = "OK"]
    BY <1>1, <1>2
  <2>3. e.pad[p] = [y EXCEPT !.need_segment = TRUE]
    BY <1>3
  <2>. HIDE DEF x, y
  <2>4. /\ y \in PadType /\ y.exists = x.exists /\ y.codec = x.codec
        /\ y.codec_data = x.codec_data /\ y.need_discont = x.need_discont /\ y.out = x.out
    BY <2>1, <2>2 DEF PadType, FlowReturns
  <2>5. /\ e.pad[p].exists = y.exists /\ e.pad[p].codec = y.codec
        /\ e.pad[p].codec_data = y.codec_data
        /\ e.pad[p].need_discont = y.need_discont /\ e.pad[p].out = y.out
    BY <2>3, <2>4 DEF PadType
  <2>. QED BY <2>4, <2>5 DEF x
<1>7. SamePlace(d, e)
  BY <1>1, <1>4, <1>5 DEF SamePlace
<1>. QED BY <1>1, <1>3, <1>4, <1>5, <1>6, <1>7 DEF FlushOnly, e, b, a

LEMMA ConfigureDoes ==
  ASSUME TypeOK, NEW ev \in AllEvents, Configure(ev)
  PROVE  SeekDoes(demux, demux', ev.flush, Moves(ev)) /\ section' \in Sections
<1> DEFINE sought == SeekSegment(ev)
           segment == IF Moves(ev) THEN KeyUnitSegment(demux, sought, ev.key_unit, ev.after)
                      ELSE sought
           offset == gst_flv_demux_find_offset(demux, sought, ev.after)
           d == IF Moves(ev) THEN MoveToOffset(demux, offset) ELSE demux
           f == FlushedDown(d, ev)
<1>0. /\ ev.target \in Int /\ ev.rate \in {-1, 1} /\ ev.flush \in BOOLEAN
      /\ ev.key_unit \in BOOLEAN /\ ev.after \in BOOLEAN
  BY EventOf
<1>1. demux \in DemuxType /\ demux.segment \in Segments
  BY DEF TypeOK, DemuxType
<1>2. /\ demux' = NeedSegment(gst_flow_combiner_reset([f EXCEPT !.segment = segment]), segment)
      /\ section' = IF Moves(ev) THEN [from |-> NotSet, to |-> G_MAXINT64] ELSE section
  BY DEF Configure
<1>3. section' \in Sections
  <2>1. G_MAXINT64 \in Nat
    <3>1. Len(file) \in Nat
      BY FileTags
    <3>. QED BY <3>1 DEF G_MAXINT64, FileSize, Size, Position, FLV_HEADER_SIZE
  <2>2. section \in Sections
    BY DEF TypeOK, Sections
  <2>. QED BY <1>2, <2>1, <2>2 DEF Sections
<1>4. sought \in Segments
  BY <1>0, <1>1, DoSeekType DEF SeekSegment
<1> HIDE DEF sought
<1>5. segment \in Segments
  BY <1>0, <1>1, <1>4, KeyUnitSegmentType
<1> HIDE DEF segment
<1>6. /\ offset \in Nat
      /\ offset = 0 \/ \E k \in DOMAIN demux.index : offset = demux.index[k].pos
  BY <1>0, <1>1, <1>4, FindOffsetType
<1> HIDE DEF offset
<1>7. /\ d \in DemuxType /\ d.index = demux.index /\ d.got_par = demux.got_par
      /\ d.ret = demux.ret
      /\ \A p \in Streams : /\ d.pad[p].exists = demux.pad[p].exists
                            /\ d.pad[p].codec = demux.pad[p].codec
                            /\ d.pad[p].codec_data = demux.pad[p].codec_data
                            /\ d.pad[p].out = demux.pad[p].out
      /\ \/ Moves(ev) /\ MovedIn(demux, d)
         \/ ~Moves(ev) /\ d = demux
  <2>1. CASE Moves(ev)
    <3> DEFINE m == MoveToOffset(demux, offset)
    <3>1. /\ m \in DemuxType /\ m.offset = offset
          /\ m.state = IF offset = 0 THEN "HEADER" ELSE "TAG_TYPE"
          /\ m.index = demux.index /\ m.got_par = demux.got_par /\ m.ret = demux.ret
          /\ \A p \in Streams : /\ m.pad[p].exists = demux.pad[p].exists
                                /\ m.pad[p].codec = demux.pad[p].codec
                                /\ m.pad[p].codec_data = demux.pad[p].codec_data
                                /\ m.pad[p].out = demux.pad[p].out
                                /\ m.pad[p].need_discont
      BY <1>1, <1>6, MoveToOffsetType
    <3>2. d = m
      BY <2>1
    <3>. HIDE DEF m, d
    <3>3. MovedIn(demux, d)
      BY <1>6, <3>1, <3>2 DEF MovedIn
    <3>. QED BY <2>1, <3>1, <3>2, <3>3
  <2>2. CASE ~Moves(ev)
    BY <1>1, <2>2
  <2>. QED BY <2>1, <2>2
<1> HIDE DEF d
<1>8. FlushOnly(d, f, ev.flush)
  BY <1>7, FlushedDownType
<1> HIDE DEF f
<1>9. FlushOnly(f, demux', FALSE)
  <2>1. f \in DemuxType
    BY <1>8 DEF FlushOnly
  <2>. QED BY <1>2, <1>5, <2>1, FinishedType
<1>10. \A p \in Streams :
         /\ demux'.pad[p].exists = demux.pad[p].exists
         /\ demux'.pad[p].codec = demux.pad[p].codec
         /\ demux'.pad[p].codec_data = demux.pad[p].codec_data
         /\ ~ev.flush \/ ~demux.pad[p].exists => demux'.pad[p].out = demux.pad[p].out
         /\ demux'.pad[p].out \in {demux.pad[p].out, NothingOut}
         /\ demux'.pad[p].need_discont = d.pad[p].need_discont
  BY <1>7, <1>8, <1>9 DEF FlushOnly
<1>11. SamePlace(d, demux')
  BY <1>8, <1>9 DEF FlushOnly, SamePlace
<1>12. \/ Moves(ev) /\ MovedIn(demux, demux')
       \/ /\ ~Moves(ev) /\ SamePlace(demux, demux')
          /\ \A p \in Streams : demux'.pad[p].need_discont = demux.pad[p].need_discont
  BY <1>7, <1>10, <1>11 DEF MovedIn, SamePlace
<1>13. /\ demux' \in DemuxType /\ demux'.index = demux.index
       /\ demux'.got_par = demux.got_par /\ demux'.ret = demux.ret
  BY <1>7, <1>8, <1>9 DEF FlushOnly
<1>. QED BY <1>3, <1>10, <1>12, <1>13 DEF SeekDoes

---------------------------------------------------------------------------
(* A turn of the task, after the tag or the header was dealt with. *)

Typed == {"loop", "typed", "serve", "served", "halt", "go"}

\* The end of a turn, with what it may have looked ahead for.
TurnedFrom(d, x, started, starts) ==
  /\ x \in DemuxType /\ IndexStarts(x)
  /\ x.got_par => d.got_par \/ \E i \in DOMAIN file : file[i].type = "script"
                                                      /\ "par" \in file[i].items
  /\ \A p \in Streams : /\ x.pad[p].exists = d.pad[p].exists
                        /\ x.pad[p].codec = d.pad[p].codec
                        /\ x.pad[p].codec_data = d.pad[p].codec_data
                        /\ x.pad[p].out.tag = d.pad[p].out.tag
                        /\ x.pad[p].out.discont = d.pad[p].out.discont
                        /\ d.pad[p].out.eos => x.pad[p].out.eos
                        /\ ~d.pad[p].exists => x.pad[p].out.eos = d.pad[p].out.eos
  /\ \/ Between(x) /\ \A p \in Streams : x.pad[p].need_discont
     \/ /\ SamePlace(d, x)
        /\ \A p \in Streams : x.pad[p].need_discont = d.pad[p].need_discont
        /\ d.ret = "ERROR" /\ ~flushing => AllEnded(x)
        /\ d.ret = "FLUSHING" => ~starts
  /\ x.ret = "FLUSHING" => d.ret = "FLUSHING"
  /\ starts \in BOOLEAN
  /\ starts => started
  /\ started /\ ~starts => x.ret \in Ends \cup {"FLUSHING"}

LEMMA StartsOfAdded ==
  ASSUME NEW d \in DemuxType, NEW e \in DemuxType, IndexStarts(d), AddsAt(d, e, DOMAIN file)
  PROVE  IndexStarts(e)
<1>1. PICK entries \in Seq(Entries) :
        /\ e.index = d.index \o entries
        /\ \A k \in DOMAIN entries : \E i \in DOMAIN file : entries[k].pos = Position(i)
  BY DEF AddsAt
<1>2. d.index \in Seq(Entries)
  BY DEF DemuxType
<1> SUFFICES ASSUME NEW k \in DOMAIN e.index
             PROVE  \E i \in DOMAIN file : e.index[k].pos = Position(i)
  BY DEF IndexStarts
<1>3. CASE k \in DOMAIN d.index
  <2>1. e.index[k] = d.index[k]
    BY <1>1, <1>2, <1>3
  <2>. QED BY <1>3, <2>1 DEF IndexStarts
<1>4. CASE k \notin DOMAIN d.index
  <2>1. k - Len(d.index) \in DOMAIN entries /\ e.index[k] = entries[k - Len(d.index)]
    BY <1>1, <1>2, <1>4
  <2>. QED BY <1>1, <2>1
<1>. QED BY <1>3, <1>4

LEMMA MovedIsBetween ==
  ASSUME TypeOK, NEW d, NEW e, IndexStarts(d), MovedIn(d, e)
  PROVE  Between(e)
<1>1. CASE e.offset = 0
  BY <1>1 DEF MovedIn, Between
<1>2. CASE e.offset # 0
  <2>1. PICK k \in DOMAIN d.index : e.offset = d.index[k].pos
    BY <1>2 DEF MovedIn
  <2>2. PICK i \in DOMAIN file : d.index[k].pos = Position(i)
    BY DEF IndexStarts
  <2>3. i \in 1..(Len(file) + 1)
    BY FileTags
  <2>. QED BY <1>2, <2>1, <2>2, <2>3 DEF MovedIn, Between
<1>. QED BY <1>1, <1>2

LEMMA TurnedFromDoes ==
  ASSUME TypeOK, NEW d \in DemuxType, NEW e, LooksAhead(d, e), e.ret = d.ret,
         IndexStarts(d), NEW sec \in Sections, NEW started \in BOOLEAN,
         EndOfTurn(e, sec, started)
  PROVE  /\ TurnedFrom(d, demux', started, task'.started)
         /\ section' \in Sections
         /\ task' = [pc |-> "loop", started |-> task'.started]
<1>1. /\ e \in DemuxType /\ SamePlace(d, e) /\ e.pad = d.pad
      /\ AddsAt(d, e, DOMAIN file)
      /\ e.got_par => d.got_par \/ \E i \in DOMAIN file : file[i].type = "script"
                                                          /\ "par" \in file[i].items
  BY DEF LooksAhead
<1>2. /\ TurnDoes(e, demux', started, task'.started)
      /\ section' \in Sections
      /\ task' = [pc |-> "loop", started |-> task'.started]
  BY <1>1, EndOfTurnDoes
<1>3. IndexStarts(e)
  BY <1>1, StartsOfAdded
<1>4. demux' \in DemuxType /\ demux'.index = e.index /\ demux'.got_par = e.got_par
  BY <1>2 DEF TurnDoes
<1>5. IndexStarts(demux')
  BY <1>3, <1>4 DEF IndexStarts
<1>6. \A p \in Streams : /\ demux'.pad[p].exists = d.pad[p].exists
                         /\ demux'.pad[p].codec = d.pad[p].codec
                         /\ demux'.pad[p].codec_data = d.pad[p].codec_data
                         /\ demux'.pad[p].out.tag = d.pad[p].out.tag
                         /\ demux'.pad[p].out.discont = d.pad[p].out.discont
                         /\ d.pad[p].out.eos => demux'.pad[p].out.eos
                         /\ ~d.pad[p].exists => demux'.pad[p].out.eos = d.pad[p].out.eos
  BY <1>1, <1>2 DEF TurnDoes
<1>7. \/ Between(demux') /\ \A p \in Streams : demux'.pad[p].need_discont
      \/ /\ SamePlace(d, demux')
         /\ \A p \in Streams : demux'.pad[p].need_discont = d.pad[p].need_discont
         /\ d.ret = "ERROR" /\ ~flushing => AllEnded(demux')
         /\ d.ret = "FLUSHING" => ~task'.started
  <2>1. CASE MovedIn(e, demux')
    BY <1>3, <2>1, MovedIsBetween DEF MovedIn
  <2>2. CASE /\ SamePlace(e, demux')
             /\ \A p \in Streams : demux'.pad[p].need_discont = e.pad[p].need_discont
             /\ e.ret = "ERROR" /\ ~flushing => AllEnded(demux')
             /\ e.ret = "FLUSHING" => ~task'.started
    <3>1. SamePlace(d, demux')
      BY <1>1, <2>2 DEF SamePlace
    <3>. QED BY <1>1, <2>2, <3>1
  <2>. QED BY <1>2, <2>1, <2>2 DEF TurnDoes
<1>8. /\ demux'.ret = "FLUSHING" => d.ret = "FLUSHING"
      /\ task'.started \in BOOLEAN
      /\ task'.started => started
      /\ started /\ ~task'.started => demux'.ret \in Ends \cup {"FLUSHING"}
  BY <1>2 DEF TurnDoes
<1>9. TurnedFrom(d, demux', started, task'.started)
  BY <1>1, <1>4, <1>5, <1>6, <1>7, <1>8 DEF TurnedFrom
<1>. QED BY <1>2, <1>9

LEMMA LooksAheadSelf ==
  ASSUME NEW d \in DemuxType
  PROVE  LooksAhead(d, d)
<1>1. AddsAt(d, d, DOMAIN file)
  BY SelfAdds
<1>. QED BY <1>1 DEF LooksAhead, SamePlace

---------------------------------------------------------------------------
(* What each turn of the task does. *)

TurnOf(d, started) ==
  /\ TurnedFrom(d, demux', started, task'.started)
  /\ section' \in Sections
  /\ task' = [pc |-> "loop", started |-> task'.started]

\* A pull failed, and nothing else was done.
Failed(d) ==
  /\ d \in DemuxType /\ d.pad = demux.pad /\ d.index = demux.index
  /\ d.got_par = demux.got_par /\ d.state = demux.state /\ d.offset = demux.offset
  /\ d.ret = "EOS" \/ (d.ret = "FLUSHING" /\ flushing)

LEMMA PullsAre ==
  ASSUME NEW n, NEW ret \in Pulls(n)
  PROVE  /\ ret \in {"OK", "EOS", "FLUSHING"}
         /\ ret = "FLUSHING" => flushing
         /\ ret = "OK" => demux.offset + n =< FileSize
         /\ ret = "EOS" => ~(demux.offset + n =< FileSize)
BY DEF Pulls

LEMMA SizeIs ==
  ASSUME TypeOK
  PROVE  Len(file) \in Nat /\ FileSize = 3 * Len(file) + 1
<1>1. Len(file) \in Nat
  BY FileTags
<1>2. Position(Len(file) + 1) = 3 * (Len(file) + 1) - 2
  BY <1>1, PositionIs
<1>. QED BY <1>1, <1>2 DEF FileSize, Size

\* The header was read.
HeaderRead(d) ==
  /\ d \in DemuxType /\ d.pad = demux.pad /\ d.index = demux.index
  /\ d.got_par = demux.got_par /\ d.state = "TAG_TYPE" /\ d.offset = Position(1)
  /\ d.ret = "OK"

LEMMA PullHeaderDoes ==
  ASSUME TypeOK, PlaceInv, PullHeader
  PROVE  /\ demux.state = "HEADER" /\ demux.offset = 0
         /\ \E d : TurnOf(d, TRUE) /\ (HeaderRead(d) \/ Failed(d))
<1>1. demux \in DemuxType /\ task.pc = "loop" /\ task.started
  BY DEF TypeOK, PullHeader, At
<1>2. demux.state = "HEADER" /\ demux.offset = 0
  BY <1>1 DEF PlaceInv, PullHeader, Between
<1>3. PICK ret \in Pulls(FLV_HEADER_SIZE) :
        LET d == IF ret # "OK" THEN [demux EXCEPT !.ret = ret]
                 ELSE [gst_flv_demux_parse_header(demux, flags, sized)
                       EXCEPT !.offset = @ + FLV_HEADER_SIZE, !.state = "TAG_TYPE"]
        IN EndOfTurn([d EXCEPT !.index_max_pos = d.offset], section, TRUE)
  BY DEF PullHeader
<1> DEFINE h == gst_flv_demux_parse_header(demux, flags, sized)
           d == IF ret # "OK" THEN [demux EXCEPT !.ret = ret]
                ELSE [h EXCEPT !.offset = @ + FLV_HEADER_SIZE, !.state = "TAG_TYPE"]
           e == [d EXCEPT !.index_max_pos = d.offset]
<1>4. EndOfTurn(e, section, TRUE)
  BY <1>3
<1>5. ret \in {"OK", "EOS", "FLUSHING"} /\ (ret = "FLUSHING" => flushing)
  BY PullsAre
<1>6. /\ d \in DemuxType /\ d.pad = demux.pad /\ d.index = demux.index
      /\ d.got_par = demux.got_par
      /\ ret = "OK" => d.state = "TAG_TYPE" /\ d.offset = 1 /\ d.ret = "OK"
      /\ ret # "OK" => d.state = demux.state /\ d.offset = demux.offset /\ d.ret = ret
  <2>1. CASE ret # "OK"
    <3>1. d = [demux EXCEPT !.ret = ret]
      BY <2>1
    <3>. HIDE DEF d
    <3>. QED BY <1>1, <1>5, <2>1, <3>1 DEF DemuxType, FlowReturns
  <2>2. CASE ret = "OK"
    <3>1. d = [h EXCEPT !.offset = @ + FLV_HEADER_SIZE, !.state = "TAG_TYPE"]
      BY <2>2
    <3>2. flags \in SUBSET Streams /\ sized \in BOOLEAN
      BY PullAssumption DEF TypeOK
    <3>3. /\ h \in DemuxType
          /\ h = [demux EXCEPT !.has = flags, !.upstream_seekable = sized, !.ret = "OK"]
      <4>1. h \in DemuxType
        BY <1>1, <3>2, HeaderType
      <4>. QED BY <4>1 DEF gst_flv_demux_parse_header
    <3>. HIDE DEF h, d
    <3>4. h.offset = 0 /\ h.pad = demux.pad /\ h.index = demux.index
          /\ h.got_par = demux.got_par /\ h.ret = "OK"
      BY <1>1, <1>2, <3>3 DEF DemuxType
    <3>5. d = [h EXCEPT !.offset = 1, !.state = "TAG_TYPE"]
      BY <3>1, <3>4 DEF FLV_HEADER_SIZE
    <3>6. h \in DemuxType
      BY <3>3
    <3>. QED BY <2>2, <3>4, <3>5, <3>6 DEF DemuxType, States
  <2>. QED BY <2>1, <2>2
<1> HIDE DEF d
<1>7. /\ e \in DemuxType /\ e.pad = d.pad /\ e.index = d.index /\ e.ret = d.ret
      /\ e.got_par = d.got_par /\ e.state = d.state /\ e.offset = d.offset
  BY <1>6 DEF DemuxType
<1> HIDE DEF e
<1>8. IndexStarts(e)
  BY <1>6, <1>7 DEF PlaceInv, IndexStarts
<1>9. LooksAhead(e, e)
  BY <1>7, LooksAheadSelf
<1>10. section \in Sections
  BY DEF TypeOK, Sections
<1>11. TurnOf(e, TRUE)
  BY <1>4, <1>7, <1>8, <1>9, <1>10, TurnedFromDoes DEF TurnOf
<1>12. PICK one \in Int : one = 1
  OBVIOUS
<1>13. Position(1) = 1
  BY <1>12, PositionIs
<1>14. HeaderRead(e) \/ Failed(e)
  BY <1>5, <1>6, <1>7, <1>13 DEF HeaderRead, Failed
<1>. QED BY <1>2, <1>11, <1>14

\* The type of tag i was read.
TypeRead(i) ==
  /\ i \in DOMAIN file /\ demux.offset = Position(i) /\ demux.state = "TAG_TYPE"
  /\ demux' \in DemuxType /\ demux'.pad = demux.pad /\ demux'.index = demux.index
  /\ demux'.got_par = demux.got_par /\ demux'.tag = i
  /\ demux'.state = StateOf(file[i].type) /\ demux'.offset = Position(i) + 1
  /\ demux'.cur_tag_offset = Position(i) /\ demux'.ret = "OK"
  /\ section' \in Sections /\ task' = [pc |-> "typed", started |-> TRUE]

LEMMA BegunType ==
  ASSUME TypeOK
  PROVE  Begun \in Sections
<1>1. demux.offset \in Nat /\ section \in Sections
  BY DEF TypeOK, DemuxType, Sections
<1>. QED BY <1>1 DEF Begun, Sections

LEMMA PullTagTypeDoes ==
  ASSUME TypeOK, PlaceInv, PullTagType
  PROVE  /\ demux.state = "TAG_TYPE" /\ Between(demux)
         /\ \/ \E i : TypeRead(i)
            \/ \E d : TurnOf(d, TRUE) /\ Failed(d)
<1>1. /\ demux \in DemuxType /\ task.pc = "loop" /\ task.started
      /\ demux.state = "TAG_TYPE"
      /\ task \in [pc : {"loop", "typed", "serve", "served", "halt", "go"}, started : BOOLEAN]
  BY DEF TypeOK, PullTagType, At
<1>2. Between(demux)
  BY <1>1 DEF PlaceInv
<1>3. PICK n \in 1..(Len(file) + 1) : demux.offset = Position(n)
  BY <1>1, <1>2 DEF Between
<1>4. PICK ret \in Pulls(FLV_TAG_TYPE_SIZE) :
        LET d == [demux EXCEPT !.cur_tag_offset = demux.offset, !.ret = ret]
            i == TagAt(file, demux.offset)
        IN IF ret = "OK"
           THEN /\ demux' = [gst_flv_demux_parse_tag_type(d, file[i])
                             EXCEPT !.tag = i, !.offset = @ + FLV_TAG_TYPE_SIZE]
                /\ section' = Begun /\ task' = [task EXCEPT !.pc = "typed"]
           ELSE \E e \in GetMetadata(d) : EndOfTurn(e, Begun, TRUE)
  BY DEF PullTagType
<1> DEFINE d == [demux EXCEPT !.cur_tag_offset = demux.offset, !.ret = ret]
           i == TagAt(file, demux.offset)
<1>5. IF ret = "OK"
      THEN /\ demux' = [gst_flv_demux_parse_tag_type(d, file[i])
                        EXCEPT !.tag = i, !.offset = @ + FLV_TAG_TYPE_SIZE]
           /\ section' = Begun /\ task' = [task EXCEPT !.pc = "typed"]
      ELSE \E e \in GetMetadata(d) : EndOfTurn(e, Begun, TRUE)
  BY <1>4
<1>6. /\ ret \in {"OK", "EOS", "FLUSHING"} /\ (ret = "FLUSHING" => flushing)
      /\ ret = "OK" => demux.offset + FLV_TAG_TYPE_SIZE =< FileSize
  BY PullsAre
<1>7. /\ d \in DemuxType /\ d.pad = demux.pad /\ d.index = demux.index
      /\ d.got_par = demux.got_par /\ d.state = demux.state /\ d.offset = demux.offset
      /\ d.cur_tag_offset = demux.offset /\ d.ret = ret
  BY <1>1, <1>6 DEF DemuxType, FlowReturns
<1>8. Len(file) \in Nat /\ FileSize = 3 * Len(file) + 1 /\ n \in Int
  BY SizeIs
<1>9. i = n /\ Position(n) = 3 * n - 2
  BY <1>3, <1>8, TagAtPosition, PositionIs
<1> HIDE DEF d, i
<1>10. Begun \in Sections
  BY BegunType
<1>11. CASE ret = "OK"
  <2>1. i \in DOMAIN file /\ file[i] \in Tags /\ i \in Nat
    <3>1. n <= Len(file)
      BY <1>3, <1>6, <1>8, <1>9, <1>11 DEF FLV_TAG_TYPE_SIZE
    <3>2. DOMAIN file = 1..Len(file)
      BY FileTags
    <3>3. i \in DOMAIN file
      BY <1>8, <1>9, <3>1, <3>2
    <3>. QED BY <3>3, FileTags
  <2> DEFINE t == gst_flv_demux_parse_tag_type(d, file[i])
  <2>2. /\ t \in DemuxType
        /\ t.state = (CASE file[i].type = "video" -> "TAG_VIDEO"
                        [] file[i].type = "audio" -> "TAG_AUDIO"
                        [] file[i].type = "script" -> "TAG_SCRIPT"
                        [] OTHER -> "SKIP")
        /\ t.ret = "OK" /\ t.pad = d.pad /\ t.index = d.index
        /\ t.offset = d.offset /\ t.cur_tag_offset = d.cur_tag_offset
        /\ t.got_par = d.got_par
    BY <1>7, <2>1, TagTypeType
  <2>3. t.state = StateOf(file[i].type)
    BY <2>2 DEF StateOf
  <2>4. demux' = [t EXCEPT !.tag = i, !.offset = @ + FLV_TAG_TYPE_SIZE]
    BY <1>5, <1>11
  <2>. HIDE DEF t
  <2>5. /\ demux' \in DemuxType /\ demux'.pad = t.pad /\ demux'.index = t.index
        /\ demux'.got_par = t.got_par /\ demux'.tag = i /\ demux'.state = t.state
        /\ demux'.offset = t.offset + 1 /\ demux'.cur_tag_offset = t.cur_tag_offset
        /\ demux'.ret = "OK"
    <3> DEFINE offset == t.offset + 1
    <3>1. offset \in Nat
      BY <2>2 DEF DemuxType
    <3>2. demux' = [t EXCEPT !.tag = i, !.offset = offset]
      BY <2>4 DEF FLV_TAG_TYPE_SIZE
    <3>. HIDE DEF offset
    <3>3. /\ demux' \in DemuxType /\ demux'.pad = t.pad /\ demux'.index = t.index
          /\ demux'.got_par = t.got_par /\ demux'.tag = i /\ demux'.state = t.state
          /\ demux'.offset = offset /\ demux'.cur_tag_offset = t.cur_tag_offset
          /\ demux'.ret = t.ret
      BY <2>1, <2>2, <3>1, <3>2 DEF DemuxType
    <3>. QED BY <2>2, <3>3 DEF offset
  <2>6. task' = [pc |-> "typed", started |-> TRUE] /\ section' \in Sections
    BY <1>1, <1>5, <1>10, <1>11
  <2>7. TypeRead(i)
    BY <1>1, <1>3, <1>7, <1>9, <2>1, <2>2, <2>3, <2>5, <2>6 DEF TypeRead
  <2>. QED BY <1>1, <1>2, <2>7
<1>12. CASE ret # "OK"
  <2>1. PICK e \in GetMetadata(d) : EndOfTurn(e, Begun, TRUE)
    BY <1>5, <1>12
  <2>2. LooksAhead(d, e) /\ e.ret = d.ret
    BY <1>7, GetMetadataType
  <2>3. IndexStarts(d)
    BY <1>7 DEF PlaceInv, IndexStarts
  <2>4. TurnOf(d, TRUE)
    BY <1>7, <1>10, <2>1, <2>2, <2>3, TurnedFromDoes DEF TurnOf
  <2>5. Failed(d)
    BY <1>6, <1>7, <1>12 DEF Failed
  <2>. QED BY <1>1, <1>2, <2>4, <2>5
<1>. QED BY <1>11, <1>12

HasPar == \E i \in DOMAIN file : file[i].type = "script" /\ "par" \in file[i].items

\* What parsing the tag at hand leaves.
TagDoes(m, flow) ==
  LET tag == file[demux.tag] IN
  /\ m \in DemuxType /\ SamePlace(demux, m) /\ IndexStarts(m)
  /\ m.got_par => demux.got_par \/ HasPar
  /\ m.ret = "FLUSHING" => flow = "FLUSHING"
  /\ tag.type \in Streams => MediaDoes(demux, m, demux.tag, tag, flow)
  /\ tag.type \notin Streams => m.pad = demux.pad

LEMMA ParseTagDoes ==
  ASSUME TypeOK, IndexStarts(demux), Inside(demux), NEW flow \in Returns
  PROVE  TagDoes(ParseTag(demux, file, demux.tag, flow), flow)
<1> DEFINE i == demux.tag
           tag == file[i]
           m == ParseTag(demux, file, i, flow)
<1>1. /\ demux \in DemuxType /\ i \in DOMAIN file /\ tag \in Tags /\ i \in Nat
      /\ file \in Seq(Tags) /\ demux.state = StateOf(tag.type)
      /\ demux.cur_tag_offset = Position(i)
  BY FileTags DEF TypeOK, Inside
<1>2. /\ tag.type = "script" <=> demux.state = "TAG_SCRIPT"
      /\ tag.type \in Streams <=> demux.state \in {"TAG_AUDIO", "TAG_VIDEO"}
  BY <1>1 DEF StateOf, Streams
<1>3. CASE tag.type = "script"
  <2> DEFINE s == gst_flv_demux_parse_tag_script(demux, file, tag)
  <2>1. m = s
    BY <1>2, <1>3 DEF ParseTag
  <2>2. /\ s \in DemuxType /\ SamePlace(demux, s) /\ AddsAt(demux, s, DOMAIN file)
        /\ s.pad = demux.pad /\ s.ret = "OK"
        /\ s.got_par = (demux.got_par \/ "par" \in tag.items)
    BY <1>1, ScriptType
  <2>. HIDE DEF s, m
  <2>3. IndexStarts(m)
    BY <1>1, <2>1, <2>2, StartsOfAdded
  <2>4. m.got_par => demux.got_par \/ HasPar
    BY <1>1, <1>3, <2>1, <2>2 DEF HasPar
  <2>5. tag.type \notin Streams
    BY <1>3 DEF Streams
  <2>. QED BY <2>1, <2>2, <2>3, <2>4, <2>5 DEF TagDoes, m
<1>4. CASE tag.type \in Streams
  <2>1. m = ParseMedia(demux, i, tag, flow)
    BY <1>2, <1>4 DEF ParseTag
  <2>2. MediaDoes(demux, m, i, tag, flow)
    BY <1>1, <1>4, <2>1, ParseMediaDoes
  <2>. HIDE DEF m
  <2>3. /\ m \in DemuxType /\ SamePlace(demux, m)
        /\ m.got_par => demux.got_par
        /\ m.ret = "FLUSHING" => flow = "FLUSHING"
        /\ \/ m.index = demux.index
           \/ \E entry \in Entries :
                m.index = Append(demux.index, entry) /\ entry.pos = Position(i)
    BY <1>1, <2>2 DEF MediaDoes, Indexes
  <2>4. IndexStarts(m)
    <3>1. CASE m.index = demux.index
      BY <3>1 DEF IndexStarts
    <3>2. CASE \E entry \in Entries :
                 m.index = Append(demux.index, entry) /\ entry.pos = Position(i)
      <4>1. PICK entry \in Entries :
              m.index = Append(demux.index, entry) /\ entry.pos = Position(i)
        BY <3>2
      <4>2. demux.index \in Seq(Entries)
        BY <1>1 DEF DemuxType
      <4> SUFFICES ASSUME NEW k \in DOMAIN m.index
                   PROVE  \E j \in DOMAIN file : m.index[k].pos = Position(j)
        BY DEF IndexStarts
      <4>3. CASE k \in DOMAIN demux.index
        <5>1. m.index[k] = demux.index[k]
          BY <4>1, <4>2, <4>3
        <5>. QED BY <4>3, <5>1 DEF IndexStarts
      <4>4. CASE k \notin DOMAIN demux.index
        <5>1. m.index[k] = entry
          BY <4>1, <4>2, <4>4
        <5>. QED BY <1>1, <4>1, <5>1
      <4>. QED BY <4>3, <4>4
    <3>. QED BY <2>3, <3>1, <3>2
  <2>. QED BY <1>4, <2>2, <2>3, <2>4 DEF TagDoes, m
<1>5. CASE tag.type \notin Streams \cup {"script"}
  <2>1. m = [demux EXCEPT !.ret = "OK"]
    BY <1>2, <1>5 DEF ParseTag
  <2>. HIDE DEF m
  <2>2. /\ m \in DemuxType /\ SamePlace(demux, m) /\ m.pad = demux.pad
        /\ m.index = demux.index /\ m.got_par = demux.got_par /\ m.ret = "OK"
    BY <1>1, <2>1 DEF DemuxType, SamePlace, FlowReturns
  <2>. QED BY <1>5, <2>2 DEF TagDoes, IndexStarts, m
<1>. QED BY <1>3, <1>4, <1>5

LEMMA ReturnedIs ==
  ASSUME TypeOK, NEW flow \in Returned
  PROVE  /\ flow \in Returns /\ (flow = "FLUSHING" => flushing)
         /\ flow = "AFTER_EOS" => /\ file[demux.tag].type \in Existing(demux)
                                  /\ demux.pad[file[demux.tag].type].out.eos
BY PullAssumption DEF Returned, Returns, FlowReturns

\* The tag was parsed, and the next one is at hand.
TagRead(d, m) ==
  /\ d \in DemuxType /\ d.pad = m.pad /\ d.index = m.index /\ d.got_par = m.got_par
  /\ d.ret = m.ret /\ d.state = "TAG_TYPE" /\ d.offset = Position(demux.tag + 1)

Played(d) == {d.pad[p].out.tag : p \in Streams} \cap {demux.tag}

LEMMA PullTagDoes ==
  ASSUME TypeOK, PlaceInv, NEW flow \in Returned, PullTag(flow)
  PROVE  /\ task.pc = "typed" /\ Inside(demux) /\ flow \in Returns
         /\ \E d : /\ TurnOf(d, task.started)
                   /\ past' = [past EXCEPT !.played = @ \cup Played(d)]
                   /\ \/ \E m : TagRead(d, m) /\ TagDoes(m, flow)
                      \/ Failed(d) /\ SamePlace(demux, d) /\ d.ret = "FLUSHING"
<1>1. /\ demux \in DemuxType /\ task.pc = "typed" /\ task.started \in BOOLEAN
      /\ section \in Sections
  BY DEF TypeOK, PullTag, At, Sections
<1>2. Inside(demux) /\ IndexStarts(demux) /\ flow \in Returns
  BY <1>1, ReturnedIs DEF PlaceInv
<1>3. PICK ret \in Pulls(tag_size) :
        LET parsed == [ParseTag(demux, file, demux.tag, flow)
                       EXCEPT !.offset = @ + tag_size,
                              !.state = "TAG_TYPE"]
            d == IF ret = "OK" THEN parsed ELSE [demux EXCEPT !.ret = ret]
            out == {d.pad[p].out.tag : p \in Streams} \cap {demux.tag}
        IN /\ \E e \in GetMetadata(d) : EndOfTurn(e, section, task.started)
           /\ past' = [past EXCEPT !.played = @ \cup out]
  BY DEF PullTag
<1> DEFINE m == ParseTag(demux, file, demux.tag, flow)
           d == IF ret = "OK" THEN [m EXCEPT !.offset = @ + tag_size, !.state = "TAG_TYPE"]
                ELSE [demux EXCEPT !.ret = ret]
<1>4. /\ \E e \in GetMetadata(d) : EndOfTurn(e, section, task.started)
      /\ past' = [past EXCEPT !.played = @ \cup Played(d)]
  BY <1>3 DEF Played
<1>5. TagDoes(m, flow)
  BY <1>2, ParseTagDoes
<1> HIDE DEF m
<1>6. /\ ret \in {"OK", "EOS", "FLUSHING"} /\ (ret = "FLUSHING" => flushing)
      /\ ret = "EOS" => ~(demux.offset + tag_size =< FileSize)
  BY PullsAre
<1>7. /\ demux.tag \in Int /\ demux.tag <= Len(file) /\ Len(file) \in Nat
      /\ FileSize = 3 * Len(file) + 1 /\ demux.offset = 3 * demux.tag - 1
      /\ Position(demux.tag + 1) = 3 * demux.tag + 1
  <2>1. demux.tag \in Int /\ demux.tag <= Len(file) /\ Len(file) \in Nat
    BY <1>2, FileTags DEF Inside
  <2>2. Position(demux.tag) = 3 * demux.tag - 2
    BY <2>1, PositionIs
  <2>3. demux.offset = 3 * demux.tag - 1
    BY <1>2, <2>1, <2>2 DEF Inside
  <2>4. Position(demux.tag + 1) = 3 * (demux.tag + 1) - 2
    <3> DEFINE next == demux.tag + 1
    <3>1. next \in Int
      BY <2>1
    <3>. HIDE DEF next
    <3>2. Position(next) = 3 * next - 2
      BY <3>1, PositionIs
    <3>. QED BY <3>2 DEF next
  <2>. QED BY <2>1, <2>3, <2>4, SizeIs
<1>8. ret # "EOS"
  BY <1>6, <1>7 DEF tag_size
<1>9. /\ d \in DemuxType /\ IndexStarts(d)
      /\ TagRead(d, m) \/ (Failed(d) /\ SamePlace(demux, d) /\ d.ret = "FLUSHING")
  <2>1. CASE ret = "OK"
    <3>1. d = [m EXCEPT !.offset = @ + tag_size, !.state = "TAG_TYPE"]
      BY <2>1
    <3>2. m \in DemuxType /\ m.offset = demux.offset /\ IndexStarts(m)
      BY <1>5 DEF TagDoes, SamePlace
    <3> DEFINE offset == m.offset + tag_size
    <3>3. offset \in Nat /\ offset = Position(demux.tag + 1)
      <4>1. m.offset \in Nat
        BY <3>2 DEF DemuxType
      <4>. QED BY <1>7, <3>2, <4>1 DEF tag_size
    <3>4. d = [m EXCEPT !.offset = offset, !.state = "TAG_TYPE"]
      BY <3>1
    <3>. HIDE DEF d, offset
    <3>5. /\ d \in DemuxType /\ d.pad = m.pad /\ d.index = m.index
          /\ d.got_par = m.got_par /\ d.ret = m.ret /\ d.state = "TAG_TYPE"
          /\ d.offset = offset
      BY <3>2, <3>3, <3>4 DEF DemuxType, States
    <3>. QED BY <3>2, <3>3, <3>5 DEF TagRead, IndexStarts
  <2>2. CASE ret # "OK"
    <3>1. d = [demux EXCEPT !.ret = "FLUSHING"] /\ flushing
      BY <1>6, <1>8, <2>2
    <3>. HIDE DEF d
    <3>2. /\ d \in DemuxType /\ d.pad = demux.pad /\ d.index = demux.index
          /\ d.got_par = demux.got_par /\ SamePlace(demux, d) /\ d.ret = "FLUSHING"
      BY <1>1, <3>1 DEF DemuxType, FlowReturns, SamePlace
    <3>. QED BY <1>2, <3>1, <3>2 DEF Failed, SamePlace, IndexStarts
  <2>. QED BY <2>1, <2>2
<1> HIDE DEF d
<1>10. PICK e \in GetMetadata(d) : EndOfTurn(e, section, task.started)
  BY <1>4
<1>11. LooksAhead(d, e) /\ e.ret = d.ret
  BY <1>9, GetMetadataType
<1>12. TurnOf(d, task.started)
  BY <1>1, <1>9, <1>10, <1>11, TurnedFromDoes DEF TurnOf
<1>. QED BY <1>1, <1>2, <1>4, <1>5, <1>9, <1>12

LEMMA ResumeDoes ==
  ASSUME TypeOK, PlaceInv, Resume
  PROVE  task.pc \in {"halt", "go"} /\ TurnOf(demux, task.pc = "go")
<1>1. PICK pc \in {"halt", "go"} : At(pc) /\ EndOfTurn(demux, section, pc = "go")
  BY DEF Resume
<1>2. demux \in DemuxType /\ section \in Sections /\ task.pc = pc
  BY <1>1 DEF TypeOK, Sections, At
<1>3. LooksAhead(demux, demux) /\ IndexStarts(demux)
  BY <1>2, LooksAheadSelf DEF PlaceInv
<1>4. TurnOf(demux, task.pc = "go")
  BY <1>1, <1>2, <1>3, TurnedFromDoes DEF TurnOf
<1>. QED BY <1>1, <1>2, <1>4

\* A scan ends well, or a flush broke it off.
LEMMA ScanDoes ==
  ASSUME TypeOK, PlaceInv, Scan
  PROVE  /\ task.pc = "loop" /\ task.started /\ demux.state = "SEEK"
         /\ \E d : /\ LooksAhead(demux, d) /\ IndexStarts(d)
                   /\ \/ /\ d.ret = "OK" /\ demux' = d
                         /\ task' = [pc |-> "serve", started |-> TRUE]
                      \/ /\ d.ret = "FLUSHING" /\ flushing /\ demux' = d
                         /\ task' = [pc |-> "loop", started |-> FALSE]
<1>1. /\ demux \in DemuxType /\ IndexStarts(demux) /\ task.pc = "loop" /\ task.started
      /\ task \in [pc : {"loop", "typed", "serve", "served", "halt", "go"}, started : BOOLEAN]
      /\ demux.state = "SEEK"
  BY DEF TypeOK, Scan, At, PlaceInv
<1>2. PICK d \in CreateIndex(demux, request.event.target) :
        IF d.ret = "OK"
        THEN demux' = d /\ task' = [task EXCEPT !.pc = "serve"]
        ELSE demux' = Pause(d) /\ task' = [task EXCEPT !.started = FALSE]
  BY DEF Scan
<1>3. LooksAhead(demux, d) /\ (d.ret = "OK" \/ (d.ret = "FLUSHING" /\ flushing))
  BY <1>1, CreateIndexType
<1>4. IndexStarts(d)
  BY <1>1, <1>3, StartsOfAdded DEF LooksAhead
<1>5. d.ret = "FLUSHING" => Pause(d) = d
  BY DEF Pause
<1>6. \/ /\ d.ret = "OK" /\ demux' = d /\ task' = [task EXCEPT !.pc = "serve"]
      \/ /\ d.ret = "FLUSHING" /\ flushing /\ demux' = d
         /\ task' = [task EXCEPT !.started = FALSE]
  BY <1>2, <1>3, <1>5
<1>. QED BY <1>1, <1>3, <1>4, <1>6

---------------------------------------------------------------------------
(* The invariant of the seeks and the place. *)

\* PlaceInv of a state by its parts.
PlaceOf(d, pc, starts, flushes) ==
  /\ IndexStarts(d)
  /\ pc = "typed" => Inside(d)
  /\ pc # "typed" =>
       \/ Between(d) \/ d.state = "SEEK"
       \/ pc = "loop" /\ flushes /\ ~starts

LEMMA PlaceIs == PlaceInv <=> PlaceOf(demux, task.pc, task.started, flushing)
BY DEF PlaceInv, PlaceOf

LEMMA PlaceNext ==
  ASSUME UNCHANGED file, PlaceOf(demux', task'.pc, task'.started, flushing')
  PROVE  PlaceInv'
BY DEF PlaceInv, PlaceOf, IndexStarts, Inside, Between

\* A turn that began between two tags, or failed, ends in such a place.
LEMMA TurnPlace ==
  ASSUME NEW d, NEW started, TurnOf(d, started),
         Between(d) \/ d.state = "SEEK" \/ (d.ret = "FLUSHING" /\ flushing)
  PROVE  PlaceOf(demux', task'.pc, task'.started, flushing)
<1>1. /\ TurnedFrom(d, demux', started, task'.started)
      /\ task' = [pc |-> "loop", started |-> task'.started]
  BY DEF TurnOf
<1>2. task'.pc = "loop"
  BY <1>1
<1>3. IndexStarts(demux')
  BY <1>1 DEF TurnedFrom
<1>4. \/ Between(demux') \/ demux'.state = "SEEK" \/ (flushing /\ ~task'.started)
  <2>1. CASE Between(demux')
    BY <2>1
  <2>2. CASE SamePlace(d, demux') /\ (d.ret = "FLUSHING" => ~task'.started)
    BY <2>2 DEF Between, SamePlace
  <2>. QED BY <1>1, <2>1, <2>2 DEF TurnedFrom
<1>. QED BY <1>2, <1>3, <1>4 DEF PlaceOf

TaskType == [pc : Typed, started : BOOLEAN]

\* A turn and what it leaves of the types and of the seeks.
LEMMA TurnKeeps ==
  ASSUME PullInv, NEW d, NEW started, TurnOf(d, started),
         started \/ app.pc # "idle",
         d.ret = "FLUSHING" => flushing,
         demux.state # "SEEK" \/ past.stayed,
         d.state # "SEEK" \/ past.stayed,
         past' = [past EXCEPT !.played = past'.played],
         past'.played \in SUBSET DOMAIN file,
         UNCHANGED <<file, flags, sized, request, flushing, app, seeks, restarts>>
  PROVE  TypeOK' /\ SeekInv'
<1>1. /\ TurnedFrom(d, demux', started, task'.started)
      /\ section' \in Sections
      /\ task' = [pc |-> "loop", started |-> task'.started]
  BY DEF TurnOf
<1>2. demux' \in DemuxType /\ task'.started \in BOOLEAN /\ task'.pc = "loop"
  BY <1>1 DEF TurnedFrom
<1>3. /\ past'.asked = past.asked /\ past'.made = past.made
      /\ past'.stayed = past.stayed
      /\ past' \in [asked : AllEvents, made : AllEvents,
                    stayed : BOOLEAN, played : SUBSET DOMAIN file]
  BY DEF PullInv, TypeOK, AllEvents
<1>4. TypeOK'
  BY <1>1, <1>2, <1>3 DEF PullInv, TypeOK, Sections, AllEvents
<1>5. FlushInv'
  BY DEF PullInv, SeekInv, FlushInv
<1>6. HaltInv'
  <2>1. ~task'.started => app.pc # "idle" \/ demux'.ret \in Ends
    BY <1>1 DEF TurnedFrom, PullInv, SeekInv, FlushInv
  <2>. QED BY <1>2, <2>1 DEF PullInv, SeekInv, HaltInv
<1>7. AskedInv'
  <2>1. demux'.state # "SEEK" \/ past.stayed
    <3>1. CASE Between(demux')
      BY <3>1 DEF Between
    <3>2. CASE SamePlace(d, demux')
      BY <3>2 DEF SamePlace
    <3>. QED BY <1>1, <3>1, <3>2 DEF TurnedFrom
  <2>. QED BY <1>2, <1>3, <2>1 DEF PullInv, SeekInv, AskedInv
<1>. QED BY <1>4, <1>5, <1>6, <1>7 DEF SeekInv

\* Nothing was played.
LEMMA PastSame ==
  ASSUME TypeOK, UNCHANGED past
  PROVE  /\ past' = [past EXCEPT !.played = past'.played]
         /\ past'.played \in SUBSET DOMAIN file
BY DEF TypeOK

LEMMA KeepsHeader ==
  ASSUME PullInv, PullHeader
  PROVE  PullInv'
<1>1. /\ TypeOK /\ PlaceInv
      /\ UNCHANGED <<file, flags, sized, request, flushing, app, seeks, restarts, past>>
      /\ task.started
  BY DEF PullInv, PullHeader, At
<1>2. /\ demux.state = "HEADER" /\ demux.offset = 0
      /\ \E d : TurnOf(d, TRUE) /\ (HeaderRead(d) \/ Failed(d))
  BY <1>1, PullHeaderDoes
<1>3. PICK d : TurnOf(d, TRUE) /\ (HeaderRead(d) \/ Failed(d))
  BY <1>2
<1>4. Between(d) /\ d.state # "SEEK" /\ (d.ret = "FLUSHING" => flushing)
  <2>1. CASE HeaderRead(d)
    <3>1. Len(file) \in Nat
      BY <1>1, FileTags
    <3>2. 1 \in 1..(Len(file) + 1)
      BY <3>1
    <3>. QED BY <2>1, <3>2 DEF HeaderRead, Between
  <2>2. CASE Failed(d)
    BY <1>2, <2>2 DEF Failed, Between
  <2>. QED BY <1>3, <2>1, <2>2
<1>5. TypeOK' /\ SeekInv'
  BY <1>1, <1>2, <1>3, <1>4, PastSame, TurnKeeps
<1>6. PlaceInv'
  BY <1>1, <1>3, <1>4, TurnPlace, PlaceNext
<1>. QED BY <1>5, <1>6 DEF PullInv

LEMMA KeepsTagType ==
  ASSUME PullInv, PullTagType
  PROVE  PullInv'
<1>1. /\ TypeOK /\ PlaceInv
      /\ UNCHANGED <<file, flags, sized, request, flushing, app, seeks, restarts, past>>
      /\ task.started
  BY DEF PullInv, PullTagType, At
<1>2. /\ demux.state = "TAG_TYPE" /\ Between(demux)
      /\ \/ \E i : TypeRead(i)
         \/ \E d : TurnOf(d, TRUE) /\ Failed(d)
  BY <1>1, PullTagTypeDoes
<1>3. CASE \E i : TypeRead(i)
  <2>1. PICK i : TypeRead(i)
    BY <1>3
  <2>2. /\ i \in DOMAIN file /\ demux' \in DemuxType /\ demux'.index = demux.index
        /\ demux'.tag = i /\ demux'.state = StateOf(file[i].type)
        /\ demux'.offset = Position(i) + 1 /\ demux'.cur_tag_offset = Position(i)
        /\ demux'.ret = "OK" /\ section' \in Sections
        /\ task'.pc = "typed" /\ task'.started /\ task' \in TaskType
    BY <2>1 DEF TypeRead, TaskType, Typed
  <2>3. TypeOK'
    BY <1>1, <2>2 DEF TypeOK, Sections, TaskType, Typed
  <2>4. demux'.state \in TagStates
    BY <2>2 DEF StateOf, TagStates
  <2>5. SeekInv'
    BY <1>1, <1>2, <2>2, <2>4 DEF PullInv, SeekInv, FlushInv, HaltInv, AskedInv, TagStates
  <2>6. PlaceOf(demux', task'.pc, task'.started, flushing')
    BY <1>1, <2>2 DEF PlaceOf, PlaceInv, Inside, IndexStarts
  <2>7. PlaceInv'
    BY <1>1, <2>6, PlaceNext
  <2>. QED BY <2>3, <2>5, <2>7 DEF PullInv
<1>4. CASE \E d : TurnOf(d, TRUE) /\ Failed(d)
  <2>1. PICK d : TurnOf(d, TRUE) /\ Failed(d)
    BY <1>4
  <2>2. Between(d) /\ d.state # "SEEK" /\ (d.ret = "FLUSHING" => flushing)
    BY <1>2, <2>1 DEF Failed, Between
  <2>3. TypeOK' /\ SeekInv'
    BY <1>1, <1>2, <2>1, <2>2, PastSame, TurnKeeps
  <2>4. PlaceInv'
    BY <1>1, <2>1, <2>2, TurnPlace, PlaceNext
  <2>. QED BY <2>3, <2>4 DEF PullInv
<1>. QED BY <1>2, <1>3, <1>4

LEMMA KeepsTag ==
  ASSUME PullInv, NEW flow \in Returned, PullTag(flow)
  PROVE  PullInv'
<1>1. /\ TypeOK /\ PlaceInv
      /\ UNCHANGED <<file, flags, sized, request, flushing, app, seeks, restarts>>
  BY DEF PullInv, PullTag
<1>2. /\ task.pc = "typed" /\ Inside(demux) /\ flow \in Returns
      /\ \E d : /\ TurnOf(d, task.started)
                /\ past' = [past EXCEPT !.played = @ \cup Played(d)]
                /\ \/ \E m : TagRead(d, m) /\ TagDoes(m, flow)
                   \/ Failed(d) /\ SamePlace(demux, d) /\ d.ret = "FLUSHING"
  BY <1>1, PullTagDoes
<1>3. PICK d : /\ TurnOf(d, task.started)
               /\ past' = [past EXCEPT !.played = @ \cup Played(d)]
               /\ \/ \E m : TagRead(d, m) /\ TagDoes(m, flow)
                  \/ Failed(d) /\ SamePlace(demux, d) /\ d.ret = "FLUSHING"
  BY <1>2
<1>4. demux.tag \in DOMAIN file /\ demux.state \in TagStates
  BY <1>2 DEF Inside, PullInv, SeekInv, AskedInv
<1>5. /\ past' = [past EXCEPT !.played = past'.played]
      /\ past'.played \in SUBSET DOMAIN file
  <2>1. Played(d) \subseteq DOMAIN file
    BY <1>4 DEF Played
  <2>2. past.played \subseteq DOMAIN file
    BY <1>1 DEF TypeOK
  <2>3. past'.played = past.played \cup Played(d)
    BY <1>1, <1>3 DEF TypeOK
  <2>. QED BY <1>3, <2>1, <2>2, <2>3
<1>6. d.state # "SEEK" /\ (d.ret = "FLUSHING" => flushing)
  <2>1. CASE \E m : TagRead(d, m) /\ TagDoes(m, flow)
    <3>1. PICK m : TagRead(d, m) /\ TagDoes(m, flow)
      BY <2>1
    <3>2. d.ret = "FLUSHING" => flow = "FLUSHING"
      BY <3>1 DEF TagRead, TagDoes
    <3>3. flow = "FLUSHING" => flushing
      BY <1>1, ReturnedIs
    <3>. QED BY <3>1, <3>2, <3>3 DEF TagRead
  <2>2. CASE Failed(d) /\ SamePlace(demux, d) /\ d.ret = "FLUSHING"
    BY <1>4, <2>2 DEF Failed, TagStates
  <2>. QED BY <1>3, <2>1, <2>2
<1>7. Between(d) \/ (d.ret = "FLUSHING" /\ flushing)
  <2>1. CASE \E m : TagRead(d, m) /\ TagDoes(m, flow)
    <3>1. d.state = "TAG_TYPE" /\ d.offset = Position(demux.tag + 1)
      BY <2>1 DEF TagRead
    <3>2. demux.tag + 1 \in 1..(Len(file) + 1)
      BY <1>1, <1>4, FileTags
    <3>. QED BY <3>1, <3>2 DEF Between
  <2>2. CASE Failed(d) /\ SamePlace(demux, d) /\ d.ret = "FLUSHING"
    BY <2>2 DEF Failed
  <2>. QED BY <1>3, <2>1, <2>2
<1>8. task.started \/ app.pc # "idle"
  BY <1>2 DEF PullInv, SeekInv, HaltInv, Ends
<1>9. TypeOK' /\ SeekInv'
  <2>1. demux.state # "SEEK"
    BY <1>4 DEF TagStates
  <2>. QED BY <1>1, <1>3, <1>5, <1>6, <1>8, <2>1, TurnKeeps
<1>10. PlaceInv'
  BY <1>1, <1>3, <1>7, TurnPlace, PlaceNext
<1>. QED BY <1>9, <1>10 DEF PullInv

LEMMA KeepsResume ==
  ASSUME PullInv, Resume
  PROVE  PullInv'
<1>1. /\ TypeOK /\ PlaceInv
      /\ UNCHANGED <<file, flags, sized, request, flushing, app, seeks, restarts, past>>
  BY DEF PullInv, Resume
<1>2. task.pc \in {"halt", "go"} /\ TurnOf(demux, task.pc = "go")
  BY <1>1, ResumeDoes
<1>3. Between(demux) \/ demux.state = "SEEK"
  BY <1>1, <1>2 DEF PlaceInv
<1>4. /\ demux.state # "SEEK" \/ past.stayed
      /\ demux.ret = "OK" /\ (task.pc = "go" \/ app.pc # "idle")
  BY <1>2 DEF PullInv, SeekInv, AskedInv, HaltInv
<1> DEFINE started == task.pc = "go"
<1> HIDE DEF started
<1>5. TurnOf(demux, started) /\ (started \/ app.pc # "idle")
  BY <1>2, <1>4 DEF started
<1>6. TypeOK' /\ SeekInv'
  BY <1>1, <1>4, <1>5, PastSame, TurnKeeps
<1>7. PlaceInv'
  BY <1>1, <1>3, <1>5, TurnPlace, PlaceNext
<1>. QED BY <1>6, <1>7 DEF PullInv

LEMMA KeepsScan ==
  ASSUME PullInv, Scan
  PROVE  PullInv'
<1>1. /\ TypeOK /\ PlaceInv
      /\ UNCHANGED <<file, flags, sized, section, request, flushing, app, seeks,
                     restarts, past>>
  BY DEF PullInv, Scan
<1>2. /\ task.pc = "loop" /\ task.started /\ demux.state = "SEEK"
      /\ \E d : /\ LooksAhead(demux, d) /\ IndexStarts(d)
                /\ \/ /\ d.ret = "OK" /\ demux' = d
                      /\ task' = [pc |-> "serve", started |-> TRUE]
                   \/ /\ d.ret = "FLUSHING" /\ flushing /\ demux' = d
                      /\ task' = [pc |-> "loop", started |-> FALSE]
  BY <1>1, ScanDoes
<1>3. /\ LooksAhead(demux, demux') /\ IndexStarts(demux')
      /\ \/ demux'.ret = "OK" /\ task' = [pc |-> "serve", started |-> TRUE]
         \/ flushing /\ task' = [pc |-> "loop", started |-> FALSE]
  BY <1>2
<1>4. demux' \in DemuxType /\ demux'.state = "SEEK"
  BY <1>2, <1>3 DEF LooksAhead, SamePlace
<1>5. TypeOK'
  <2>1. task' \in TaskType
    <3>1. CASE task' = [pc |-> "serve", started |-> TRUE]
      BY <3>1 DEF TaskType, Typed
    <3>2. CASE task' = [pc |-> "loop", started |-> FALSE]
      BY <3>2 DEF TaskType, Typed
    <3>. QED BY <1>3, <3>1, <3>2
  <2>. QED BY <1>1, <1>4, <2>1 DEF TypeOK, TaskType, Typed
<1>6. SeekInv'
  BY <1>1, <1>2, <1>3, <1>4 DEF PullInv, SeekInv, FlushInv, HaltInv, AskedInv
<1>7. PlaceOf(demux', task'.pc, task'.started, flushing')
  BY <1>3, <1>4 DEF PlaceOf
<1>8. PlaceInv'
  BY <1>1, <1>7, PlaceNext
<1>. QED BY <1>5, <1>6, <1>8 DEF PullInv

\* A seek that moves is past the state SEEK.
LEMMA MovesOn ==
  ASSUME TypeOK, IndexStarts(demux), NEW ev \in AllEvents, Configure(ev)
  PROVE  /\ demux' \in DemuxType /\ section' \in Sections /\ demux'.ret = demux.ret
         /\ IndexStarts(demux')
         /\ Moves(ev) => Between(demux') /\ demux'.state # "SEEK"
         /\ ~Moves(ev) => SamePlace(demux, demux')
<1>1. SeekDoes(demux, demux', ev.flush, Moves(ev)) /\ section' \in Sections
  BY ConfigureDoes
<1>2. demux' \in DemuxType /\ demux'.ret = demux.ret /\ demux'.index = demux.index
  BY <1>1 DEF SeekDoes
<1>3. IndexStarts(demux')
  BY <1>2 DEF IndexStarts
<1>4. CASE Moves(ev)
  <2>1. MovedIn(demux, demux')
    BY <1>1, <1>4 DEF SeekDoes
  <2>2. Between(demux')
    BY <2>1, MovedIsBetween
  <2>. QED BY <1>1, <1>2, <1>3, <1>4, <2>2 DEF Between
<1>5. CASE ~Moves(ev)
  <2>1. SamePlace(demux, demux')
    BY <1>1, <1>5 DEF SeekDoes
  <2>. QED BY <1>1, <1>2, <1>3, <1>5, <2>1
<1>. QED BY <1>4, <1>5

LEMMA KeepsServe ==
  ASSUME PullInv, Serve
  PROVE  PullInv'
<1> DEFINE ev == request.event
<1>1. /\ TypeOK /\ PlaceInv /\ task.pc = "serve" /\ Configure(ev)
      /\ past' = Made(ev, past.stayed \/ ~Moves(ev))
      /\ flushing' = (flushing /\ ~ev.flush)
      /\ request' = [request EXCEPT !.event = NoEvent]
      /\ task' = [task EXCEPT !.pc = "served"]
      /\ UNCHANGED <<file, flags, sized, app, seeks, restarts>>
  BY DEF PullInv, Serve, At
<1>2. /\ ev \in AllEvents
      /\ task' \in TaskType /\ task'.pc = "served" /\ task'.started = task.started
      /\ request' \in [seeking : BOOLEAN, event : AllEvents]
      /\ request'.seeking = request.seeking
  BY <1>1 DEF TypeOK, AllEvents, TaskType, Typed
<1>3. IndexStarts(demux) /\ demux.state = "SEEK" /\ demux.ret = "OK"
  BY <1>1 DEF PlaceInv, PullInv, SeekInv, AskedInv, HaltInv
<1>4. /\ demux' \in DemuxType /\ section' \in Sections /\ demux'.ret = demux.ret
      /\ IndexStarts(demux')
      /\ Moves(ev) => Between(demux') /\ demux'.state # "SEEK"
      /\ ~Moves(ev) => SamePlace(demux, demux')
  BY <1>1, <1>2, <1>3, MovesOn
<1> DEFINE stays == past.stayed \/ ~Moves(ev)
<1>5. /\ past' \in [asked : AllEvents, made : AllEvents,
                    stayed : BOOLEAN, played : SUBSET DOMAIN file]
      /\ past'.asked = past.asked /\ past'.made = ev /\ (past'.stayed <=> stays)
  <2>1. past \in [asked : AllEvents, made : AllEvents,
                  stayed : BOOLEAN, played : SUBSET DOMAIN file]
    BY <1>1 DEF TypeOK, AllEvents
  <2>2. stays \in BOOLEAN
    BY <2>1
  <2>3. past' = [past EXCEPT !.made = ev, !.stayed = stays, !.played = {}]
    BY <1>1 DEF Made
  <2>. HIDE DEF stays, ev
  <2>. QED BY <1>2, <2>1, <2>2, <2>3
<1>6. Moves(ev) \in BOOLEAN /\ flushing' \in BOOLEAN
  <2>1. ev.flush \in BOOLEAN /\ flushing \in BOOLEAN
    BY <1>1, <1>2, EventOf DEF TypeOK
  <2>. QED BY <1>1, <2>1 DEF Moves
<1>7. TypeOK'
  BY <1>1, <1>2, <1>4, <1>5, <1>6 DEF TypeOK, Sections, AllEvents, TaskType, Typed
<1>8. FlushInv' /\ HaltInv'
  BY <1>1, <1>2, <1>3, <1>4 DEF PullInv, SeekInv, FlushInv, HaltInv
<1>9. AskedInv'
  <2>1. past.stayed \/ app.pc # "idle" \/ past.asked = ev
    BY <1>3 DEF PullInv, SeekInv, AskedInv
  <2>2. past'.stayed \/ demux'.state # "SEEK"
    BY <1>4, <1>5
  <2>3. past'.stayed \/ app.pc # "idle" \/ past'.asked = past'.made
    BY <1>5, <2>1
  <2>. QED BY <1>1, <1>2, <1>5, <2>2, <2>3 DEF PullInv, SeekInv, AskedInv
<1>10. PlaceOf(demux', task'.pc, task'.started, flushing')
  BY <1>2, <1>3, <1>4 DEF PlaceOf, SamePlace
<1>11. PlaceInv'
  BY <1>1, <1>10, PlaceNext
<1>. QED BY <1>7, <1>8, <1>9, <1>11 DEF PullInv, SeekInv

LEMMA KeepsServed ==
  ASSUME PullInv, Served
  PROVE  PullInv'
<1>1. /\ TypeOK /\ PlaceInv /\ task.pc = "served"
      /\ request' = [request EXCEPT !.seeking = FALSE]
      /\ task' = [task EXCEPT !.pc = IF request.seeking THEN "halt" ELSE "go"]
      /\ UNCHANGED <<file, flags, sized, demux, section, flushing, app, seeks,
                     restarts, past>>
  BY DEF PullInv, Served, At
<1>2. /\ task' \in TaskType /\ task'.pc = (IF request.seeking THEN "halt" ELSE "go")
      /\ task'.started = task.started
      /\ request' \in [seeking : BOOLEAN, event : AllEvents] /\ ~request'.seeking
      /\ request'.event = request.event
  BY <1>1 DEF TypeOK, AllEvents, TaskType, Typed
<1>3. TypeOK'
  BY <1>1, <1>2 DEF TypeOK, AllEvents, TaskType, Typed
<1>4. SeekInv'
  BY <1>1, <1>2 DEF PullInv, SeekInv, FlushInv, HaltInv, AskedInv
<1>5. PlaceOf(demux', task'.pc, task'.started, flushing')
  BY <1>1, <1>2 DEF PlaceOf, PlaceInv
<1>6. PlaceInv'
  BY <1>1, <1>5, PlaceNext
<1>. QED BY <1>3, <1>4, <1>6 DEF PullInv

LEMMA KeepsSeek ==
  ASSUME PullInv, NEW ev \in Events, Seek(ev)
  PROVE  PullInv'
<1>1. /\ TypeOK /\ PlaceInv /\ app.pc = "idle" /\ seeks < MaxSeeks
      /\ seeks' = seeks + 1 /\ app' = [pc |-> "halt", event |-> ev]
      /\ request' = [request EXCEPT !.seeking = TRUE]
      /\ past' = [past EXCEPT !.asked = ev]
      /\ UNCHANGED <<file, flags, sized, demux, section, flushing, task, restarts>>
  BY DEF PullInv, Seek
<1>2. /\ request' \in [seeking : BOOLEAN, event : AllEvents]
      /\ past' \in [asked : AllEvents, made : AllEvents,
                    stayed : BOOLEAN, played : SUBSET DOMAIN file]
      /\ past'.asked = ev /\ past'.stayed = past.stayed
  BY <1>1 DEF TypeOK, AllEvents
<1>3. seeks' \in 0..MaxSeeks
  BY <1>1, PullAssumption DEF TypeOK
<1>4. TypeOK'
  BY <1>1, <1>2, <1>3 DEF TypeOK, AllEvents
<1>5. SeekInv'
  BY <1>1, <1>2 DEF PullInv, SeekInv, FlushInv, HaltInv, AskedInv
<1>6. PlaceInv'
  BY <1>1, PlaceIs, PlaceNext
<1>. QED BY <1>4, <1>5, <1>6 DEF PullInv

LEMMA KeepsHalt ==
  ASSUME PullInv, Halt
  PROVE  PullInv'
<1>1. /\ TypeOK /\ PlaceInv /\ app.pc = "halt" /\ app' = [app EXCEPT !.pc = "lock"]
      /\ flushing' = (flushing \/ app.event.flush)
      /\ task' = [task EXCEPT !.started = @ /\ app.event.flush]
      /\ UNCHANGED <<file, flags, sized, demux, section, request, seeks, restarts, past>>
  BY DEF PullInv, Halt
<1>2. /\ app' \in [pc : {"idle", "halt", "lock"}, event : AllEvents]
      /\ app'.pc = "lock" /\ app'.event = app.event /\ app.event \in AllEvents
  BY <1>1 DEF TypeOK, AllEvents
<1>3. app.event.flush \in BOOLEAN /\ flushing \in BOOLEAN
  BY <1>1, <1>2, EventOf DEF TypeOK
<1>4. ~flushing
  BY <1>1 DEF PullInv, SeekInv, FlushInv
<1>5. task' \in TaskType /\ task'.pc = task.pc
  BY <1>1, <1>3 DEF TypeOK, TaskType, Typed
<1>6. TypeOK'
  BY <1>1, <1>2, <1>3, <1>5 DEF TypeOK, AllEvents, TaskType, Typed
<1>7. SeekInv'
  BY <1>1, <1>2, <1>4, <1>5 DEF PullInv, SeekInv, FlushInv, HaltInv, AskedInv
<1>8. PlaceOf(demux', task'.pc, task'.started, flushing')
  BY <1>1, <1>4, <1>5 DEF PlaceOf, PlaceInv
<1>9. PlaceInv'
  BY <1>1, <1>8, PlaceNext
<1>. QED BY <1>6, <1>7, <1>9 DEF PullInv

\* What the seek does once it has the stream lock.
LEMMA LockedDoes ==
  ASSUME PullInv, Locked
  PROVE  /\ app.event \in AllEvents /\ past.asked = app.event
         /\ ~flushing' /\ task' = [pc |-> "loop", started |-> TRUE] /\ app' = Idle
         /\ flushing => app.event.flush
         /\ \/ /\ Moves(app.event)
               /\ demux' = [FlushedDown(demux, app.event) EXCEPT !.state = "SEEK"]
               /\ request' = [seeking |-> FALSE, event |-> app.event]
               /\ UNCHANGED <<section, past>>
            \/ /\ Configure(app.event)
               /\ request' = [request EXCEPT !.seeking = FALSE]
               /\ past' = Made(app.event, ~Moves(app.event))
<1>1. /\ TypeOK /\ app.pc = "lock" /\ task.pc = "loop"
      /\ flushing' = (flushing /\ ~app.event.flush)
      /\ task' = [task EXCEPT !.started = TRUE] /\ app' = Idle
  BY DEF PullInv, Locked
<1>2. app.event \in AllEvents /\ task \in TaskType
  BY <1>1 DEF TypeOK, AllEvents, TaskType, Typed
<1>3. past.asked = app.event /\ (flushing => app.event.flush)
  BY <1>1 DEF PullInv, SeekInv, AskedInv, FlushInv
<1>4. task' = [pc |-> "loop", started |-> TRUE]
  BY <1>1, <1>2 DEF TaskType
<1>5. \/ Moves(app.event) /\ Defer(app.event)
      \/ /\ Configure(app.event)
         /\ request' = [request EXCEPT !.seeking = FALSE]
         /\ past' = Made(app.event, ~Moves(app.event))
  BY DEF Locked
<1>. QED BY <1>1, <1>2, <1>3, <1>4, <1>5 DEF Defer

LEMMA KeepsLocked ==
  ASSUME PullInv, Locked
  PROVE  PullInv'
<1> DEFINE ev == app.event
<1>1. TypeOK /\ PlaceInv /\ task.pc = "loop" /\ UNCHANGED <<file, flags, sized, seeks, restarts>>
  BY DEF PullInv, Locked
<1>2. /\ ev \in AllEvents /\ past.asked = ev
      /\ ~flushing' /\ task' = [pc |-> "loop", started |-> TRUE] /\ app' = Idle
      /\ flushing => ev.flush
      /\ \/ /\ Moves(ev)
            /\ demux' = [FlushedDown(demux, ev) EXCEPT !.state = "SEEK"]
            /\ request' = [seeking |-> FALSE, event |-> ev]
            /\ UNCHANGED <<section, past>>
         \/ /\ Configure(ev)
            /\ request' = [request EXCEPT !.seeking = FALSE]
            /\ past' = Made(ev, ~Moves(ev))
  BY LockedDoes
<1>3. /\ app'.pc = "idle" /\ app' \in [pc : {"idle", "halt", "lock"}, event : AllEvents]
      /\ task'.pc = "loop" /\ task'.started /\ task' \in TaskType
  BY <1>2 DEF Idle, AllEvents, TaskType, Typed
<1>4. /\ demux \in DemuxType /\ IndexStarts(demux) /\ section \in Sections
      /\ request \in [seeking : BOOLEAN, event : AllEvents]
      /\ past \in [asked : AllEvents, made : AllEvents,
                   stayed : BOOLEAN, played : SUBSET DOMAIN file]
  BY <1>1 DEF TypeOK, PlaceInv, Sections, AllEvents
<1>5. flushing' \in BOOLEAN
  BY <1>1, <1>2, EventOf DEF TypeOK, Locked
<1> HIDE DEF ev
<1>6. ASSUME NEW d, NEW r, NEW s, NEW w,
             demux' = d, request' = r, section' = s, past' = w,
             d \in DemuxType, IndexStarts(d), s \in Sections,
             r \in [seeking : BOOLEAN, event : AllEvents], ~r.seeking,
             w \in [asked : AllEvents, made : AllEvents,
                    stayed : BOOLEAN, played : SUBSET DOMAIN file],
             w.stayed \/ w.asked = IF d.state = "SEEK" THEN r.event ELSE w.made,
             Between(d) \/ d.state = "SEEK"
      PROVE  PullInv'
  <2>1. TypeOK'
    BY <1>1, <1>3, <1>5, <1>6 DEF TypeOK, AllEvents, Sections, TaskType, Typed
  <2>2. SeekInv'
    BY <1>2, <1>3, <1>6 DEF SeekInv, FlushInv, HaltInv, AskedInv
  <2>3. PlaceOf(demux', task'.pc, task'.started, flushing')
    BY <1>3, <1>6 DEF PlaceOf
  <2>4. PlaceInv'
    BY <1>1, <2>3, PlaceNext
  <2>. QED BY <2>1, <2>2, <2>4 DEF PullInv
<1>7. CASE /\ Moves(ev)
           /\ demux' = [FlushedDown(demux, ev) EXCEPT !.state = "SEEK"]
           /\ request' = [seeking |-> FALSE, event |-> ev]
           /\ UNCHANGED <<section, past>>
  <2> DEFINE f == FlushedDown(demux, ev)
  <2>1. FlushOnly(demux, f, ev.flush)
    BY <1>2, <1>4, FlushedDownType
  <2>2. f \in DemuxType /\ f.index = demux.index /\ demux' = [f EXCEPT !.state = "SEEK"]
    BY <1>7, <2>1 DEF FlushOnly
  <2>. HIDE DEF f
  <2>3. demux' \in DemuxType /\ demux'.index = demux.index /\ demux'.state = "SEEK"
    BY <2>2 DEF DemuxType, States
  <2>4. IndexStarts(demux')
    BY <1>4, <2>3 DEF IndexStarts
  <2>5. /\ request' \in [seeking : BOOLEAN, event : AllEvents] /\ ~request'.seeking
        /\ request'.event = ev
    BY <1>2, <1>7
  <2>6. section' = section /\ past' = past
    BY <1>7
  <2>7. past.asked = request'.event
    BY <1>2, <2>5
  <2>. QED BY <1>4, <1>6, <2>3, <2>4, <2>5, <2>6, <2>7
<1>8. CASE /\ Configure(ev)
           /\ request' = [request EXCEPT !.seeking = FALSE]
           /\ past' = Made(ev, ~Moves(ev))
  <2>1. /\ demux' \in DemuxType /\ section' \in Sections
        /\ IndexStarts(demux')
        /\ Moves(ev) => Between(demux') /\ demux'.state # "SEEK"
        /\ ~Moves(ev) => SamePlace(demux, demux')
    BY <1>1, <1>2, <1>4, <1>8, MovesOn
  <2> DEFINE stays == ~Moves(ev)
  <2>2. stays \in BOOLEAN
    <3>1. ev.flush \in BOOLEAN
      BY <1>2, EventOf
    <3>. QED BY <3>1 DEF Moves
  <2>3. past' = [past EXCEPT !.made = ev, !.stayed = stays, !.played = {}]
    BY <1>8 DEF Made
  <2>. HIDE DEF stays
  <2>4. /\ past' \in [asked : AllEvents, made : AllEvents,
                      stayed : BOOLEAN, played : SUBSET DOMAIN file]
        /\ past'.asked = ev /\ past'.made = ev /\ past'.stayed = stays
    BY <1>2, <1>4, <2>2, <2>3
  <2>5. /\ request' \in [seeking : BOOLEAN, event : AllEvents] /\ ~request'.seeking
    BY <1>4, <1>8
  <2>6. Between(demux') \/ demux'.state = "SEEK"
    <3>1. CASE Moves(ev)
      BY <2>1, <3>1
    <3>2. CASE ~Moves(ev)
      <4>1. ~flushing
        BY <1>2, <3>2 DEF Moves
      <4>2. Between(demux) \/ demux.state = "SEEK"
        BY <1>1, <4>1 DEF PlaceInv
      <4>. QED BY <2>1, <3>2, <4>2 DEF SamePlace, Between
    <3>. QED BY <3>1, <3>2
  <2>7. past'.stayed \/ demux'.state # "SEEK"
    BY <2>1, <2>4 DEF stays
  <2>. QED BY <1>6, <2>1, <2>4, <2>5, <2>6, <2>7
<1>. QED BY <1>2, <1>7, <1>8 DEF ev

LEMMA KeepsRestart ==
  ASSUME PullInv, Restart
  PROVE  PullInv'
<1>1. /\ TypeOK /\ PlaceInv /\ app.pc = "idle" /\ task.pc = "loop"
      /\ restarts < MaxRestarts /\ restarts' = restarts + 1
      /\ demux' = gst_flv_demux_cleanup(demux) /\ flushing' = FALSE
      /\ task' = [task EXCEPT !.started = TRUE] /\ past' = NoHistory
      /\ UNCHANGED <<file, flags, sized, section, request, app, seeks>>
  BY DEF PullInv, Restart
<1>2. /\ demux' \in DemuxType /\ demux'.state = "HEADER" /\ demux'.offset = 0
      /\ demux'.index = <<>> /\ demux'.ret = "OK"
  <2>1. demux \in DemuxType
    BY <1>1 DEF TypeOK
  <2>. QED BY <1>1, <2>1, CleanupType
<1>3. task' \in TaskType /\ task'.pc = "loop" /\ task'.started
  BY <1>1 DEF TypeOK, TaskType, Typed
<1>4. /\ past' \in [asked : AllEvents, made : AllEvents,
                    stayed : BOOLEAN, played : SUBSET DOMAIN file]
      /\ past'.asked = past'.made
  BY <1>1 DEF NoHistory, AllEvents
<1>5. restarts' \in 0..MaxRestarts
  BY <1>1, PullAssumption DEF TypeOK
<1>6. TypeOK'
  BY <1>1, <1>2, <1>3, <1>4, <1>5 DEF TypeOK, AllEvents, TaskType, Typed
<1>7. SeekInv'
  BY <1>1, <1>2, <1>3, <1>4 DEF PullInv, SeekInv, FlushInv, HaltInv, AskedInv
<1>8. PlaceOf(demux', task'.pc, task'.started, flushing')
  BY <1>2, <1>3 DEF PlaceOf, IndexStarts, Between
<1>9. PlaceInv'
  BY <1>1, <1>8, PlaceNext
<1>. QED BY <1>6, <1>7, <1>9 DEF PullInv

LEMMA PullInit == Init => PullInv
<1> SUFFICES ASSUME Init PROVE PullInv
  OBVIOUS
<1>1. /\ demux \in DemuxType /\ demux.state = "HEADER" /\ demux.offset = 0
      /\ demux.index = <<>> /\ demux.ret = "OK"
  <2>1. demux = NewDemux
    BY DEF Init
  <2>. QED BY <2>1, NewDemuxType DEF NewDemux
<1>2. TypeOK
  <2>1. request \in [seeking : BOOLEAN, event : AllEvents]
    BY DEF Init, AllEvents
  <2>2. task \in TaskType
    BY DEF Init, TaskType, Typed
  <2>3. app \in [pc : {"idle", "halt", "lock"}, event : AllEvents]
    BY DEF Init, Idle, AllEvents
  <2>4. past \in [asked : AllEvents, made : AllEvents, stayed : BOOLEAN,
                  played : SUBSET DOMAIN file]
    BY DEF Init, NoHistory, AllEvents
  <2>5. section \in Sections
    BY DEF Init, Sections
  <2>6. seeks \in 0..MaxSeeks /\ restarts \in 0..MaxRestarts
    BY PullAssumption DEF Init
  <2>7. file \in Files /\ flags \in Flags /\ sized \in Sized /\ flushing \in BOOLEAN
    BY DEF Init
  <2>. QED BY <1>1, <2>1, <2>2, <2>3, <2>4, <2>5, <2>6, <2>7
           DEF TypeOK, AllEvents, TaskType, Typed, Sections
<1>3. SeekInv
  BY <1>1 DEF Init, SeekInv, FlushInv, HaltInv, AskedInv, Idle, NoHistory
<1>4. PlaceInv
  BY <1>1 DEF Init, PlaceInv, IndexStarts, Between
<1>. QED BY <1>2, <1>3, <1>4 DEF PullInv

LEMMA PullStep == PullInv /\ [Next]_vars => PullInv'
<1> SUFFICES ASSUME PullInv, [Next]_vars PROVE PullInv'
  OBVIOUS
<1>1. CASE PullHeader
  BY <1>1, KeepsHeader
<1>2. CASE PullTagType
  BY <1>2, KeepsTagType
<1>3. CASE Scan
  BY <1>3, KeepsScan
<1>4. CASE Serve
  BY <1>4, KeepsServe
<1>5. CASE Served
  BY <1>5, KeepsServed
<1>6. CASE Resume
  BY <1>6, KeepsResume
<1>7. ASSUME NEW flow \in Returned, PullTag(flow) PROVE PullInv'
  BY <1>7, KeepsTag
<1>8. CASE Halt
  BY <1>8, KeepsHalt
<1>9. CASE Locked
  BY <1>9, KeepsLocked
<1>10. CASE Restart
  BY <1>10, KeepsRestart
<1>11. ASSUME NEW ev \in Events, Seek(ev) PROVE PullInv'
  BY <1>11, KeepsSeek
<1>12. CASE UNCHANGED vars
  <2>1. TypeOK'
    BY <1>12 DEF PullInv, TypeOK, vars
  <2>2. SeekInv'
    BY <1>12 DEF PullInv, SeekInv, FlushInv, HaltInv, AskedInv, vars
  <2>3. PlaceInv'
    BY <1>12, PlaceIs, PlaceNext DEF PullInv, vars
  <2>. QED BY <2>1, <2>2, <2>3 DEF PullInv
<1>. QED BY <1>1, <1>2, <1>3, <1>4, <1>5, <1>6, <1>7, <1>8, <1>9, <1>10, <1>11, <1>12
     DEF Next, Loop, Over

\* Whatever the file, its seeks and their overtaking, the variables keep their
\* types and the task stands where a tag begins or after its type.
LEMMA PullHolds == Spec => []PullInv
BY PullInit, PullStep, PTL DEF Spec

\* The last seek counts, whether it was made or is left to the task, and neither
\* a pause nor a flush of a seek that another one overtook is left behind.
THEOREM LastSeekCounts == Spec => []SeekTakesEffect
<1>1. PullInv => SeekTakesEffect
  BY DEF PullInv, SeekInv, FlushInv, HaltInv, AskedInv, SeekTakesEffect, Ends
<1>. QED BY <1>1, PullHolds, PTL

\* Every variable keeps its type, whatever the files and the seeks.
THEOREM PullTypes == Spec => []TypeOK
<1>1. PullInv => TypeOK
  BY DEF PullInv
<1>. QED BY <1>1, PullHolds, PTL

---------------------------------------------------------------------------
(* The streams. *)

AllSettled == \A f \in Files : Settled(f)

\* NextInv of a state by its parts.
NextOf(d, pc, p) ==
  LET pad == d.pad[p] IN
  \/ pad.need_discont \/ pad.out.eos \/ flushing \/ d.state = "SEEK"
  \/ pc = "typed" /\ Before(pad.out, p, d.tag)
  \/ /\ pc # "typed" /\ d.state = "TAG_TYPE"
     /\ \E n \in 1..(Len(file) + 1) : d.offset = Position(n) /\ Before(pad.out, p, n)

StreamsOf(d, pc) == ParInv(d) /\ \A p \in Streams : PadInv(d, p) /\ NextOf(d, pc, p)

LEMMA StreamsAre == StreamInv <=> StreamsOf(demux, task.pc)
BY DEF StreamInv, StreamsOf, NextInv, NextOf

\* The invariant for a step, with the flush that is on after it.
LEMMA StreamsNext ==
  ASSUME UNCHANGED file, ParInv(demux'),
         \A p \in Streams : PadInv(demux', p),
         \A p \in Streams : NextOf(demux', task'.pc, p),
         \/ flushing => flushing'
         \/ demux'.state = "SEEK"
         \/ \A p \in Streams : demux'.pad[p].need_discont
  PROVE  StreamInv'
<1>1. ParInv(demux)'
  BY DEF ParInv
<1>2. ASSUME NEW p \in Streams PROVE PadInv(demux, p)'
  BY DEF PadInv
<1>3. ASSUME NEW p \in Streams PROVE NextInv(p)'
  <2>1. NextOf(demux', task'.pc, p)
    OBVIOUS
  <2>. QED BY <2>1 DEF NextInv, NextOf, Before, Delivery!Frames
<1>. QED BY <1>1, <1>2, <1>3 DEF StreamInv

\* A turn that began with the streams in order ends so.
LEMMA TurnStreams ==
  ASSUME PullInv, AllSettled, NEW d, NEW started, TurnOf(d, started),
         UNCHANGED <<file, flushing>>,
         ParInv(d), \A p \in Streams : PadInv(d, p),
         d.ret = "ERROR" \/ \A p \in Streams : NextOf(d, "loop", p)
  PROVE  StreamInv'
<1>1. TurnedFrom(d, demux', started, task'.started) /\ task'.pc = "loop"
  BY DEF TurnOf
<1>2. ParInv(demux')
  <2>1. HasPar => \A i \in DOMAIN file : ~(file[i].type = "video" /\ file[i].codec = "configured")
    <3>1. Settled(file)
      BY DEF PullInv, TypeOK, AllSettled
    <3>. QED BY <3>1 DEF Settled, HasPar
  <2>2. demux'.got_par => d.got_par \/ HasPar
    BY <1>1 DEF TurnedFrom, HasPar
  <2>. QED BY <2>1, <2>2 DEF ParInv
<1>3. ASSUME NEW p \in Streams PROVE PadInv(demux', p) /\ NextOf(demux', "loop", p)
  <2> DEFINE pad == d.pad[p]
             new == demux'.pad[p]
  <2>1. /\ new.exists = pad.exists /\ new.codec = pad.codec
        /\ new.codec_data = pad.codec_data /\ new.out.tag = pad.out.tag
        /\ pad.out.eos => new.out.eos
        /\ ~pad.exists => new.out.eos = pad.out.eos
    BY <1>1 DEF TurnedFrom
  <2>2. PadInv(d, p)
    OBVIOUS
  <2>3. \/ new.need_discont
        \/ /\ SamePlace(d, demux') /\ new.need_discont = pad.need_discont
           /\ d.ret = "ERROR" /\ ~flushing => AllEnded(demux')
    BY <1>1 DEF TurnedFrom
  <2>4. PadInv(demux', p)
    BY <2>1, <2>2, <2>3 DEF PadInv
  <2>5. NextOf(demux', "loop", p)
    <3>1. CASE new.need_discont
      BY <3>1 DEF NextOf
    <3>2. CASE /\ SamePlace(d, demux') /\ new.need_discont = pad.need_discont
               /\ d.ret = "ERROR" /\ ~flushing => AllEnded(demux')
      <4>1. CASE d.ret = "ERROR"
        <5>1. flushing \/ AllEnded(demux')
          BY <3>2, <4>1
        <5>2. ~pad.exists => new.need_discont
          BY <2>2, <3>2 DEF PadInv
        <5>. QED BY <2>1, <5>1, <5>2 DEF AllEnded, NextOf
      <4>2. CASE NextOf(d, "loop", p)
        BY <2>1, <3>2, <4>2 DEF NextOf, SamePlace, Before
      <4>. QED BY <4>1, <4>2
    <3>. QED BY <2>3, <3>1, <3>2
  <2>. QED BY <2>4, <2>5
<1>. QED BY <1>1, <1>2, <1>3, StreamsNext

\* A tag that is no frame of a stream is no gap in it.
LEMMA BeforeNext ==
  ASSUME TypeOK, NEW out, out.tag \in Nat, NEW p, NEW n \in Nat,
         n \notin Delivery!Frames(p), Before(out, p, n)
  PROVE  Before(out, p, n + 1)
<1>1. out.tag # 0 /\ out.tag < n /\ \A k \in Delivery!Frames(p) : ~(out.tag < k /\ k < n)
  BY DEF Before
<1>2. Delivery!Frames(p) \subseteq Nat
  BY FileTags DEF Delivery!Frames
<1>3. ASSUME NEW k \in Delivery!Frames(p), out.tag < k, k < n + 1 PROVE FALSE
  <2>1. k \in Nat /\ k # n
    BY <1>2
  <2>2. k < n
    BY <1>3, <2>1
  <2>. QED BY <1>1, <1>3, <2>2
<1>. QED BY <1>1, <1>3 DEF Before

\* A frame that is dropped is one of a stream that is to say so, or the turn
\* ends in an error; one that is pushed is the last one before the next tag.
LEMMA TagStreams ==
  ASSUME PullInv, AllSettled, StreamInv, NEW flow \in Returned, task.pc = "typed",
         Inside(demux), NEW d, NEW m, TagRead(d, m), TagDoes(m, flow)
  PROVE  /\ ParInv(d) /\ \A p \in Streams : PadInv(d, p)
         /\ d.ret = "ERROR" \/ \A p \in Streams : NextOf(d, "loop", p)
<1> DEFINE i == demux.tag
           tag == file[i]
           t == tag.type
<1>1. /\ TypeOK /\ i \in DOMAIN file /\ i \in Nat \ {0} /\ tag \in Tags
      /\ i + 1 \in 1..(Len(file) + 1) /\ DOMAIN file = 1..Len(file) /\ Len(file) \in Nat
      /\ demux.state # "SEEK" /\ demux.state # "TAG_TYPE"
  <2>1. TypeOK /\ i \in DOMAIN file /\ demux.state \in TagStates
    BY DEF PullInv, Inside, SeekInv, AskedInv
  <2>2. DOMAIN file = 1..Len(file) /\ Len(file) \in Nat /\ tag \in Tags
    BY <2>1, FileTags
  <2>. QED BY <2>1, <2>2 DEF TagStates
<1>2. /\ d.pad = m.pad /\ d.got_par = m.got_par /\ d.ret = m.ret
      /\ d.state = "TAG_TYPE" /\ d.offset = Position(i + 1)
  BY DEF TagRead
<1>3. ParInv(demux) /\ \A p \in Streams : PadInv(demux, p) /\ NextOf(demux, "typed", p)
  BY StreamsAre DEF StreamsOf
<1>4. /\ \A j \in DOMAIN file : file[j].type \in Streams /\ file[j].type = t
           => file[j].codec = tag.codec
      /\ HasPar => \A j \in DOMAIN file :
                     ~(file[j].type = "video" /\ file[j].codec = "configured")
  <2>1. Settled(file)
    BY <1>1 DEF TypeOK, AllSettled
  <2>. QED BY <1>1, <2>1 DEF Settled, HasPar
<1>5. ParInv(d)
  <2>1. m.got_par => demux.got_par \/ HasPar
    BY DEF TagDoes
  <2>. QED BY <1>2, <1>3, <1>4, <2>1 DEF ParInv
<1>6. ASSUME NEW p \in Streams,
             Before(d.pad[p].out, p, i + 1) \/ d.pad[p].need_discont \/ d.pad[p].out.eos
               \/ flushing
      PROVE  NextOf(d, "loop", p)
  BY <1>1, <1>2, <1>6 DEF NextOf
<1>7. ASSUME NEW p \in Streams, p # t
      PROVE  PadInv(d, p) /\ NextOf(d, "loop", p)
  <2>1. d.pad[p] = demux.pad[p]
    <3>1. CASE t \in Streams
      BY <1>2, <1>7, <3>1 DEF TagDoes, MediaDoes, OnlyPad
    <3>2. CASE t \notin Streams
      BY <1>2, <3>2 DEF TagDoes
    <3>. QED BY <3>1, <3>2
  <2>2. PadInv(d, p)
    BY <1>3, <2>1 DEF PadInv
  <2>3. \/ demux.pad[p].need_discont \/ demux.pad[p].out.eos \/ flushing
        \/ Before(demux.pad[p].out, p, i)
    BY <1>1, <1>3 DEF NextOf
  <2>4. Before(demux.pad[p].out, p, i) => Before(demux.pad[p].out, p, i + 1)
    <3>1. i \notin Delivery!Frames(p)
      BY <1>7 DEF Delivery!Frames
    <3>2. demux.pad[p].out.tag \in Nat
      <4>1. demux.pad[p] \in PadType
        BY <1>1, PadOf DEF TypeOK
      <4>2. demux.pad[p].out \in OutType
        BY <4>1 DEF PadType
      <4>. QED BY <4>2 DEF OutType
    <3>. QED BY <1>1, <3>1, <3>2, BeforeNext
  <2>. QED BY <1>6, <2>1, <2>2, <2>3, <2>4
<1>8. ASSUME t \in Streams
      PROVE  PadInv(d, t) /\ (d.ret = "ERROR" \/ NextOf(d, "loop", t))
  <2> DEFINE pad == demux.pad[t]
             new == m.pad[t]
  <2>1. /\ MediaDoes(demux, m, i, tag, flow) /\ PadInv(demux, t)
        /\ pad.need_discont \/ pad.out.eos \/ flushing \/ Before(pad.out, t, i)
    BY <1>1, <1>3, <1>8 DEF TagDoes, NextOf
  <2>2. /\ pad.exists => new.exists
        /\ new.codec \in {pad.codec, tag.codec}
        /\ ~pad.exists /\ new.exists => new.codec = tag.codec
        /\ Keeps(demux, t, tag.codec) /\ pad.codec_data => new.codec_data
        /\ new.out.eos = pad.out.eos
        /\ \/ /\ new.out = pad.out /\ new.need_discont = pad.need_discont
              /\ HasPayload(tag) => Dropped(demux, t, tag) \/ m.ret = "ERROR"
           \/ /\ HasPayload(tag) /\ new.exists /\ ~new.need_discont
              /\ new.codec = tag.codec
              /\ tag.codec = "configured" => pad.codec_data
              /\ flow \in Closed =>
                   new.out.tag = pad.out.tag /\ new.out.discont = pad.out.discont
              /\ flow \notin Closed =>
                   new.out.tag = i /\ new.out.discont = pad.need_discont
    BY <2>1 DEF MediaDoes
  <2>3. /\ ~pad.exists => pad.need_discont /\ ~pad.out.eos
        /\ pad.codec \in {"none", tag.codec} /\ (pad.exists => pad.codec = tag.codec)
        /\ ~pad.need_discont /\ pad.codec = "configured" => pad.codec_data
    BY <1>1, <2>1 DEF PadInv
  <2>4. tag.codec = "configured" => Keeps(demux, t, tag.codec)
    BY <1>1, <1>3, <2>3 DEF Keeps, ParInv
  <2>5. PadInv(d, t)
    <3>1. ~new.exists => new.need_discont /\ ~new.out.eos
      BY <2>2, <2>3
    <3>2. new.codec \in {"none", tag.codec} /\ (new.exists => new.codec = tag.codec)
      BY <2>2, <2>3
    <3>3. ~new.need_discont /\ new.codec = "configured" => new.codec_data
      BY <2>2, <2>3, <2>4, <3>1, <3>2
    <3>. QED BY <1>2, <1>4, <1>8, <3>1, <3>2, <3>3 DEF PadInv
  <2>6. pad.out.tag \in Nat
    <3>1. pad \in PadType
      BY <1>1, <1>8, PadOf DEF TypeOK
    <3>2. pad.out \in OutType
      BY <3>1 DEF PadType
    <3>. QED BY <3>2 DEF OutType
  <2>7. Delivery!Frames(t) \subseteq Nat
    BY <1>1 DEF Delivery!Frames
  <2>8. CASE /\ new.out = pad.out /\ new.need_discont = pad.need_discont
             /\ HasPayload(tag) => Dropped(demux, t, tag) \/ m.ret = "ERROR"
    <3>1. CASE HasPayload(tag)
      <4>1. Dropped(demux, t, tag) => pad.need_discont
        BY <2>3, <3>1 DEF Dropped, HasPayload
      <4>. QED BY <1>2, <1>6, <1>8, <2>5, <2>8, <3>1, <4>1
    <3>2. CASE ~HasPayload(tag)
      <4>1. i \notin Delivery!Frames(t)
        BY <1>8, <3>2 DEF Delivery!Frames, HasPayload
      <4>2. Before(pad.out, t, i) => Before(pad.out, t, i + 1)
        BY <1>1, <2>6, <4>1, BeforeNext
      <4>. QED BY <1>2, <1>6, <1>8, <2>1, <2>5, <2>8, <4>2
    <3>. QED BY <3>1, <3>2
  <2>9. CASE /\ HasPayload(tag) /\ new.exists /\ ~new.need_discont
             /\ flow \notin Closed => new.out.tag = i
    <3>1. CASE flow \in Closed
      <4>1. flow = "FLUSHING" => flushing
        BY <1>1, ReturnedIs
      <4>2. flow = "AFTER_EOS" => new.out.eos
        BY <1>1, <2>2, ReturnedIs
      <4>. QED BY <1>2, <1>6, <1>8, <2>5, <3>1, <4>1, <4>2 DEF Closed
    <3>2. CASE flow \notin Closed
      <4>1. new.out.tag = i
        BY <2>9, <3>2
      <4>2. Before(new.out, t, i + 1)
        BY <1>1, <2>7, <4>1 DEF Before
      <4>. QED BY <1>2, <1>6, <1>8, <2>5, <4>2
    <3>. QED BY <3>1, <3>2
  <2>. QED BY <2>2, <2>8, <2>9
<1>9. ASSUME NEW p \in Streams PROVE PadInv(d, p) /\ (d.ret = "ERROR" \/ NextOf(d, "loop", p))
  BY <1>7, <1>8
<1>. QED BY <1>5, <1>9

\* Steps that leave the streams alone, between two tags.
LEMMA SamePads ==
  ASSUME StreamInv, NEW d, d.pad = demux.pad, d.got_par => demux.got_par \/ HasPar,
         PullInv, AllSettled
  PROVE  ParInv(d) /\ \A p \in Streams : PadInv(d, p)
<1>1. ParInv(demux) /\ \A p \in Streams : PadInv(demux, p)
  BY DEF StreamInv
<1>2. HasPar => \A i \in DOMAIN file : ~(file[i].type = "video" /\ file[i].codec = "configured")
  <2>1. Settled(file)
    BY DEF PullInv, TypeOK, AllSettled
  <2>. QED BY <2>1 DEF Settled, HasPar
<1>. QED BY <1>1, <1>2 DEF ParInv, PadInv

LEMMA StreamsHeader ==
  ASSUME PullInv, AllSettled, StreamInv, PullHeader
  PROVE  StreamInv'
<1>1. /\ TypeOK /\ PlaceInv /\ task.pc = "loop"
      /\ UNCHANGED <<file, flushing>>
  BY DEF PullInv, PullHeader, At
<1>2. demux.state = "HEADER"
  BY <1>1, PullHeaderDoes
<1>3. PICK d : TurnOf(d, TRUE) /\ (HeaderRead(d) \/ Failed(d))
  BY <1>1, PullHeaderDoes
<1>4. d.pad = demux.pad /\ d.got_par = demux.got_par
  BY <1>3 DEF HeaderRead, Failed
<1>5. ParInv(d) /\ \A p \in Streams : PadInv(d, p)
  BY <1>4, SamePads
<1>6. ASSUME NEW p \in Streams PROVE NextOf(d, "loop", p)
  <2>1. NextOf(demux, "loop", p)
    BY <1>1, StreamsAre DEF StreamsOf
  <2>2. demux.pad[p].need_discont \/ demux.pad[p].out.eos \/ flushing
    BY <1>2, <2>1 DEF NextOf
  <2>. QED BY <1>4, <2>2 DEF NextOf
<1>. QED BY <1>1, <1>3, <1>5, <1>6, TurnStreams

LEMMA StreamsTagType ==
  ASSUME PullInv, AllSettled, StreamInv, PullTagType
  PROVE  StreamInv'
<1>1. /\ TypeOK /\ PlaceInv /\ task.pc = "loop"
      /\ UNCHANGED <<file, flushing>>
  BY DEF PullInv, PullTagType, At
<1>2. /\ demux.state = "TAG_TYPE"
      /\ \/ \E i : TypeRead(i)
         \/ \E d : TurnOf(d, TRUE) /\ Failed(d)
  BY <1>1, PullTagTypeDoes
<1>3. \A p \in Streams : NextOf(demux, "loop", p)
  BY <1>1, StreamsAre DEF StreamsOf
<1>4. CASE \E i : TypeRead(i)
  <2>1. PICK i : TypeRead(i)
    BY <1>4
  <2>2. /\ i \in DOMAIN file /\ demux.offset = Position(i) /\ demux'.pad = demux.pad
        /\ demux'.got_par = demux.got_par /\ demux'.tag = i /\ task'.pc = "typed"
    BY <2>1 DEF TypeRead
  <2>3. i \in Int
    BY <1>1, <2>2, FileTags
  <2>4. ParInv(demux') /\ \A p \in Streams : PadInv(demux', p)
    BY <2>2, SamePads
  <2>5. ASSUME NEW p \in Streams PROVE NextOf(demux', task'.pc, p)
    <3>1. ASSUME NEW n \in 1..(Len(file) + 1), demux.offset = Position(n),
                 Before(demux.pad[p].out, p, n)
          PROVE  Before(demux.pad[p].out, p, i)
      <4>1. Len(file) \in Nat
        BY <1>1, FileTags
      <4>2. n \in Int
        BY <4>1
      <4>3. Position(n) = 3 * n - 2
        BY <4>2, PositionIs
      <4>4. Position(i) = 3 * i - 2
        BY <2>3, PositionIs
      <4>5. n = i
        <5>1. 3 * n - 2 = 3 * i - 2
          BY <2>2, <3>1, <4>3, <4>4
        <5>. QED BY <2>3, <4>2, <5>1
      <4>. QED BY <3>1, <4>5
    <3>2. NextOf(demux, "loop", p)
      BY <1>3
    <3>3. \/ demux.pad[p].need_discont \/ demux.pad[p].out.eos \/ flushing
          \/ Before(demux.pad[p].out, p, i)
      BY <1>2, <3>1, <3>2 DEF NextOf
    <3>. QED BY <2>2, <3>3 DEF NextOf
  <2>. QED BY <1>1, <2>4, <2>5, StreamsNext
<1>5. CASE \E d : TurnOf(d, TRUE) /\ Failed(d)
  <2>1. PICK d : TurnOf(d, TRUE) /\ Failed(d)
    BY <1>5
  <2>2. d.pad = demux.pad /\ d.got_par = demux.got_par /\ d.state = demux.state
        /\ d.offset = demux.offset
    BY <2>1 DEF Failed
  <2>3. ParInv(d) /\ \A p \in Streams : PadInv(d, p)
    BY <2>2, SamePads
  <2>4. \A p \in Streams : NextOf(d, "loop", p)
    BY <1>2, <1>3, <2>2 DEF NextOf
  <2>. QED BY <1>1, <2>1, <2>3, <2>4, TurnStreams
<1>. QED BY <1>2, <1>4, <1>5

LEMMA StreamsTag ==
  ASSUME PullInv, AllSettled, StreamInv, NEW flow \in Returned, PullTag(flow)
  PROVE  StreamInv'
<1>1. TypeOK /\ PlaceInv /\ UNCHANGED <<file, flushing>>
  BY DEF PullInv, PullTag
<1>2. task.pc = "typed" /\ Inside(demux)
  BY <1>1, PullTagDoes
<1>3. PICK d : /\ TurnOf(d, task.started)
               /\ \/ \E m : TagRead(d, m) /\ TagDoes(m, flow)
                  \/ Failed(d) /\ SamePlace(demux, d) /\ d.ret = "FLUSHING"
  BY <1>1, PullTagDoes
<1> DEFINE started == task.started
<1> HIDE DEF started
<1>4. TurnOf(d, started)
  BY <1>3 DEF started
<1>5. CASE \E m : TagRead(d, m) /\ TagDoes(m, flow)
  <2>1. PICK m : TagRead(d, m) /\ TagDoes(m, flow)
    BY <1>5
  <2>2. /\ ParInv(d) /\ \A p \in Streams : PadInv(d, p)
        /\ d.ret = "ERROR" \/ \A p \in Streams : NextOf(d, "loop", p)
    BY <1>2, <2>1, TagStreams
  <2>. QED BY <1>1, <1>4, <2>2, TurnStreams
<1>6. CASE Failed(d) /\ SamePlace(demux, d) /\ d.ret = "FLUSHING"
  <2>1. d.pad = demux.pad /\ d.got_par = demux.got_par /\ flushing
    BY <1>6 DEF Failed
  <2>2. ParInv(d) /\ \A p \in Streams : PadInv(d, p)
    BY <2>1, SamePads
  <2>3. \A p \in Streams : NextOf(d, "loop", p)
    BY <2>1 DEF NextOf
  <2>. QED BY <1>1, <1>4, <2>2, <2>3, TurnStreams
<1>. QED BY <1>3, <1>5, <1>6

LEMMA StreamsResume ==
  ASSUME PullInv, AllSettled, StreamInv, Resume
  PROVE  StreamInv'
<1>1. TypeOK /\ PlaceInv /\ UNCHANGED <<file, flushing>>
  BY DEF PullInv, Resume
<1> DEFINE started == task.pc = "go"
<1>2. task.pc \in {"halt", "go"} /\ TurnOf(demux, started)
  BY <1>1, ResumeDoes
<1> HIDE DEF started
<1>3. /\ ParInv(demux)
      /\ \A p \in Streams : PadInv(demux, p) /\ NextOf(demux, task.pc, p)
  BY StreamsAre DEF StreamsOf
<1>4. \A p \in Streams : NextOf(demux, "loop", p)
  BY <1>2, <1>3 DEF NextOf
<1>. QED BY <1>1, <1>2, <1>3, <1>4, TurnStreams

LEMMA StreamsScan ==
  ASSUME PullInv, AllSettled, StreamInv, Scan
  PROVE  StreamInv'
<1>1. TypeOK /\ PlaceInv /\ UNCHANGED <<file, flushing>>
  BY DEF PullInv, Scan
<1>2. LooksAhead(demux, demux') /\ demux.state = "SEEK"
  BY <1>1, ScanDoes
<1>3. /\ demux'.pad = demux.pad /\ demux'.state = "SEEK"
      /\ demux'.got_par => demux.got_par \/ HasPar
  BY <1>2 DEF LooksAhead, SamePlace, HasPar
<1>4. ParInv(demux') /\ \A p \in Streams : PadInv(demux', p)
  BY <1>3, SamePads
<1>5. \A p \in Streams : NextOf(demux', task'.pc, p)
  BY <1>3 DEF NextOf
<1>. QED BY <1>1, <1>4, <1>5, StreamsNext

\* A seek that is made tells every stream, or changes nothing for it.
LEMMA SeekStreams ==
  ASSUME PullInv, StreamInv, NEW ev \in AllEvents, Configure(ev), UNCHANGED file,
         task.pc # "typed", task'.pc # "typed", flushing' \in {FALSE, flushing},
         flushing /\ ~flushing' => ev.flush
  PROVE  StreamInv'
<1>1. SeekDoes(demux, demux', ev.flush, Moves(ev))
  BY ConfigureDoes DEF PullInv
<1>2. /\ ParInv(demux)
      /\ \A p \in Streams : PadInv(demux, p) /\ NextOf(demux, task.pc, p)
  BY StreamsAre DEF StreamsOf
<1>3. ParInv(demux')
  BY <1>1, <1>2 DEF SeekDoes, ParInv
<1>4. \/ \A p \in Streams : demux'.pad[p].need_discont
      \/ /\ ~ev.flush /\ SamePlace(demux, demux')
         /\ \A p \in Streams : /\ demux'.pad[p].need_discont = demux.pad[p].need_discont
                               /\ demux'.pad[p].out = demux.pad[p].out
  <2>1. CASE MovedIn(demux, demux')
    BY <2>1 DEF MovedIn
  <2>2. CASE ~Moves(ev)
    BY <1>1, <2>2 DEF SeekDoes, Moves, MovedIn
  <2>. QED BY <1>1, <2>1, <2>2 DEF SeekDoes
<1>5. ASSUME NEW p \in Streams PROVE PadInv(demux', p) /\ NextOf(demux', task'.pc, p)
  <2> DEFINE pad == demux.pad[p]
             new == demux'.pad[p]
  <2>1. /\ new.exists = pad.exists /\ new.codec = pad.codec
        /\ new.codec_data = pad.codec_data
        /\ ~pad.exists => new.out = pad.out
    BY <1>1 DEF SeekDoes
  <2>2. PadInv(demux, p) /\ NextOf(demux, task.pc, p)
    BY <1>2
  <2>3. PadInv(demux', p)
    BY <1>4, <2>1, <2>2 DEF PadInv
  <2>4. NextOf(demux', task'.pc, p)
    BY <1>4, <2>2 DEF NextOf, SamePlace
  <2>. QED BY <2>3, <2>4
<1>6. flushing => flushing' \/ \A p \in Streams : demux'.pad[p].need_discont
  BY <1>4
<1>. QED BY <1>3, <1>5, <1>6, StreamsNext

LEMMA StreamsServe ==
  ASSUME PullInv, StreamInv, Serve
  PROVE  StreamInv'
<1> DEFINE ev == request.event
<1>1. /\ TypeOK /\ task.pc = "serve" /\ Configure(ev)
      /\ flushing' = (flushing /\ ~ev.flush)
      /\ task' = [task EXCEPT !.pc = "served"]
      /\ UNCHANGED file
  BY DEF PullInv, Serve, At
<1>2. ev \in AllEvents /\ task'.pc = "served" /\ flushing \in BOOLEAN
  BY <1>1 DEF TypeOK, AllEvents
<1>3. ev.flush \in BOOLEAN
  BY <1>2, EventOf
<1> HIDE DEF ev
<1>. QED BY <1>1, <1>2, <1>3, SeekStreams

LEMMA StreamsLocked ==
  ASSUME PullInv, StreamInv, Locked
  PROVE  StreamInv'
<1> DEFINE ev == app.event
<1>1. TypeOK /\ task.pc = "loop" /\ UNCHANGED file
  BY DEF PullInv, Locked
<1>2. /\ ev \in AllEvents /\ flushing' = FALSE
      /\ task' = [pc |-> "loop", started |-> TRUE]
      /\ flushing => ev.flush
      /\ \/ demux' = [FlushedDown(demux, ev) EXCEPT !.state = "SEEK"]
         \/ Configure(ev)
  <2>1. flushing' \in BOOLEAN
    <3>1. PullInv'
      BY KeepsLocked
    <3>. QED BY <3>1 DEF PullInv, TypeOK
  <2>. QED BY <2>1, LockedDoes
<1>3. task'.pc = "loop"
  BY <1>2
<1> HIDE DEF ev
<1>4. CASE Configure(ev)
  BY <1>1, <1>2, <1>3, <1>4, SeekStreams
<1>5. CASE demux' = [FlushedDown(demux, ev) EXCEPT !.state = "SEEK"]
  <2> DEFINE f == FlushedDown(demux, ev)
  <2>1. FlushOnly(demux, f, ev.flush)
    BY <1>1, <1>2, FlushedDownType DEF TypeOK
  <2>2. demux' = [f EXCEPT !.state = "SEEK"]
    BY <1>5
  <2>. HIDE DEF f
  <2>3. demux'.state = "SEEK" /\ demux'.pad = f.pad /\ demux'.got_par = demux.got_par
    BY <2>1, <2>2 DEF FlushOnly, DemuxType
  <2>4. ParInv(demux')
    BY <2>3 DEF StreamInv, ParInv
  <2>5. ASSUME NEW p \in Streams PROVE PadInv(demux', p) /\ NextOf(demux', task'.pc, p)
    <3>1. PadInv(demux, p)
      BY DEF StreamInv
    <3>2. /\ f.pad[p].exists = demux.pad[p].exists /\ f.pad[p].codec = demux.pad[p].codec
          /\ f.pad[p].codec_data = demux.pad[p].codec_data
          /\ f.pad[p].need_discont = demux.pad[p].need_discont
          /\ ~demux.pad[p].exists => f.pad[p].out = demux.pad[p].out
      BY <2>1 DEF FlushOnly
    <3>. QED BY <2>3, <3>1, <3>2 DEF PadInv, NextOf
  <2>. QED BY <1>1, <2>3, <2>4, <2>5, StreamsNext
<1>. QED BY <1>2, <1>4, <1>5

LEMMA StreamsRestart ==
  ASSUME PullInv, StreamInv, Restart
  PROVE  StreamInv'
<1>1. TypeOK /\ demux' = gst_flv_demux_cleanup(demux) /\ UNCHANGED file
  BY DEF PullInv, Restart
<1>2. /\ ~demux'.got_par
      /\ \A p \in Streams : /\ ~demux'.pad[p].exists /\ demux'.pad[p].need_discont
                            /\ demux'.pad[p].codec = demux.pad[p].codec
                            /\ demux'.pad[p].out = NothingOut
  <2>1. demux \in DemuxType
    BY <1>1 DEF TypeOK
  <2>. QED BY <1>1, <2>1, CleanupType
<1>3. ParInv(demux')
  BY <1>2 DEF ParInv
<1>4. ASSUME NEW p \in Streams PROVE PadInv(demux', p) /\ NextOf(demux', task'.pc, p)
  <2>1. PadInv(demux, p)
    BY DEF StreamInv
  <2>. QED BY <1>2, <2>1 DEF PadInv, NextOf, NothingOut
<1>. QED BY <1>1, <1>2, <1>3, <1>4, StreamsNext

\* Steps of a seek that the demuxer does not see yet.
LEMMA StreamsSame ==
  ASSUME StreamInv, UNCHANGED <<file, demux>>, flushing => flushing',
         task'.pc = "typed" <=> task.pc = "typed"
  PROVE  StreamInv'
<1>1. ParInv(demux') /\ \A p \in Streams : PadInv(demux', p)
  BY DEF StreamInv
<1>2. \A p \in Streams : NextOf(demux', task'.pc, p)
  BY StreamsAre DEF StreamsOf, NextOf
<1>. QED BY <1>1, <1>2, StreamsNext

LEMMA StreamInit == Init => StreamInv
<1> SUFFICES ASSUME Init PROVE StreamInv
  OBVIOUS
<1>1. demux = NewDemux
  BY DEF Init
<1>2. /\ ~demux.got_par
      /\ \A p \in Streams : demux.pad[p] = NewPad
  BY <1>1 DEF NewDemux
<1>3. ParInv(demux)
  BY <1>2 DEF ParInv
<1>4. ASSUME NEW p \in Streams PROVE PadInv(demux, p) /\ NextInv(p)
  BY <1>2 DEF PadInv, NextInv, NewPad, NothingOut
<1>. QED BY <1>3, <1>4 DEF StreamInv

LEMMA StreamStep ==
  ASSUME AllSettled, PullInv, StreamInv, [Next]_vars
  PROVE  StreamInv'
<1>1. CASE PullHeader
  BY <1>1, StreamsHeader
<1>2. CASE PullTagType
  BY <1>2, StreamsTagType
<1>3. CASE Scan
  BY <1>3, StreamsScan
<1>4. CASE Serve
  BY <1>4, StreamsServe
<1>5. CASE Served
  <2>1. /\ task.pc = "served" /\ UNCHANGED <<file, demux, flushing>>
        /\ task' = [task EXCEPT !.pc = IF request.seeking THEN "halt" ELSE "go"]
    BY <1>5 DEF Served, At
  <2>2. task \in TaskType
    BY DEF PullInv, TypeOK, TaskType, Typed
  <2>3. task'.pc # "typed"
    BY <2>1, <2>2 DEF TaskType
  <2>. QED BY <2>1, <2>3, StreamsSame
<1>6. CASE Resume
  BY <1>6, StreamsResume
<1>7. ASSUME NEW flow \in Returned, PullTag(flow) PROVE StreamInv'
  BY <1>7, StreamsTag
<1>8. CASE Halt
  <2>1. /\ UNCHANGED <<file, demux>> /\ flushing' = (flushing \/ app.event.flush)
        /\ task' = [task EXCEPT !.started = @ /\ app.event.flush]
    BY <1>8 DEF Halt
  <2>2. task \in TaskType
    BY DEF PullInv, TypeOK, TaskType, Typed
  <2>3. task'.pc = task.pc
    BY <2>1, <2>2 DEF TaskType
  <2>. QED BY <2>1, <2>3, StreamsSame
<1>9. CASE Locked
  BY <1>9, StreamsLocked
<1>10. CASE Restart
  BY <1>10, StreamsRestart
<1>11. ASSUME NEW ev \in Events, Seek(ev) PROVE StreamInv'
  BY <1>11, StreamsSame DEF Seek
<1>12. CASE UNCHANGED vars
  BY <1>12, StreamsSame DEF vars
<1>. QED BY <1>1, <1>2, <1>3, <1>4, <1>5, <1>6, <1>7, <1>8, <1>9, <1>10, <1>11, <1>12
     DEF Next, Loop, Over

---------------------------------------------------------------------------
(* The steps of the delivery. *)

OutTags(d) == [p \in Streams |-> d.pad[p].out.tag]
Discontinuities(d) == [p \in Streams |-> d.pad[p].out.discont]

LEMMA DeliveryStep ==
  ASSUME UNCHANGED file, TypeOK',
         Delivery!Flush \/ \E p \in Streams : Delivery!Deliver(p)
  PROVE  Delivery!Next
<1>1. ASSUME NEW p \in Streams PROVE demux'.pad[p].out.discont \in BOOLEAN
  <2>1. demux' \in DemuxType
    BY DEF TypeOK
  <2>2. demux'.pad[p] \in PadType
    BY <2>1, PadOf
  <2>3. demux'.pad[p].out \in OutType
    BY <2>2 DEF PadType
  <2>. QED BY <2>3 DEF OutType
<1>2. [p \in Streams |-> demux.pad[p].out.discont]' \in [Streams -> BOOLEAN]
  BY <1>1
<1>. QED BY <1>2 DEF Delivery!Next

\* Nothing went out, or what had gone out was flushed.
LEMMA NothingDelivered ==
  ASSUME UNCHANGED file, TypeOK',
         \A p \in Streams : demux'.pad[p].out.tag \in {0, demux.pad[p].out.tag}
  PROVE  Delivery!Next
<1>1. Delivery!Flush
  BY DEF Delivery!Flush
<1>. QED BY <1>1, DeliveryStep

LEMMA TurnTags ==
  ASSUME NEW d, NEW started, TurnOf(d, started), NEW p \in Streams
  PROVE  /\ demux'.pad[p].out.tag = d.pad[p].out.tag
         /\ demux'.pad[p].out.discont = d.pad[p].out.discont
BY DEF TurnOf, TurnedFrom

\* A push delivers the next frame, or says that it does not.
LEMMA TagDelivered ==
  ASSUME PullInv, TypeOK', StreamInv, NEW flow \in Returned, PullTag(flow)
  PROVE  Delivery!Next
<1>1. TypeOK /\ PlaceInv /\ UNCHANGED file
  BY DEF PullInv, PullTag
<1>2. task.pc = "typed" /\ Inside(demux)
  BY <1>1, PullTagDoes
<1>3. PICK d : /\ TurnOf(d, task.started)
               /\ \/ \E m : TagRead(d, m) /\ TagDoes(m, flow)
                  \/ Failed(d) /\ SamePlace(demux, d) /\ d.ret = "FLUSHING"
  BY <1>1, PullTagDoes
<1> DEFINE i == demux.tag
           tag == file[i]
           t == tag.type
           started == task.started
<1>4. TurnOf(d, started)
  BY <1>3
<1> HIDE DEF started
<1>5. \A p \in Streams : /\ demux'.pad[p].out.tag = d.pad[p].out.tag
                         /\ demux'.pad[p].out.discont = d.pad[p].out.discont
  BY <1>4, TurnTags
<1>6. CASE d.pad = demux.pad
  BY <1>1, <1>5, <1>6, NothingDelivered
<1>7. CASE d.pad # demux.pad
  <2>1. PICK m : TagRead(d, m) /\ TagDoes(m, flow)
    BY <1>3, <1>7 DEF Failed
  <2>2. t \in Streams /\ d.pad = m.pad /\ MediaDoes(demux, m, i, tag, flow)
    BY <1>7, <2>1 DEF TagRead, TagDoes
  <2>3. \A q \in Streams \ {t} : demux'.pad[q].out.tag = demux.pad[q].out.tag
    <3>1. OnlyPad(demux, m, t)
      BY <2>2 DEF MediaDoes
    <3>2. ASSUME NEW q \in Streams \ {t} PROVE m.pad[q] = demux.pad[q]
      BY <3>1 DEF OnlyPad
    <3>3. ASSUME NEW q \in Streams \ {t}
          PROVE  demux'.pad[q].out.tag = demux.pad[q].out.tag
      <4>1. demux'.pad[q].out.tag = d.pad[q].out.tag /\ d.pad = m.pad
        BY <1>5, <2>2
      <4>. QED BY <3>2, <4>1
    <3>. QED BY <3>3
  <2> DEFINE pad == demux.pad[t]
             new == m.pad[t]
  <2>4. \/ new.out.tag = pad.out.tag
        \/ /\ HasPayload(tag) /\ flow \notin Closed
           /\ new.out.tag = i /\ new.out.discont = pad.need_discont
    BY <2>2 DEF MediaDoes
  <2>5. CASE new.out.tag = pad.out.tag
    <3>1. \A p \in Streams : demux'.pad[p].out.tag = demux.pad[p].out.tag
      BY <1>5, <2>2, <2>3, <2>5
    <3>. QED BY <1>1, <3>1, NothingDelivered
  <2>6. CASE /\ HasPayload(tag) /\ flow \notin Closed
             /\ new.out.tag = i /\ new.out.discont = pad.need_discont
    <3>1. i \in Delivery!Frames(t)
      BY <1>2, <2>6 DEF Inside, Delivery!Frames, HasPayload
    <3>2. /\ demux'.pad[t].out.tag = i
          /\ demux'.pad[t].out.discont = pad.need_discont
      BY <1>5, <2>2, <2>6
    <3>3. ~pad.need_discont => Before(pad.out, t, i)
      <4>1. PadInv(demux, t) /\ NextInv(t)
        BY <2>2 DEF StreamInv
      <4>2. ~flushing /\ ~(t \in Existing(demux) /\ pad.out.eos)
        BY <2>6 DEF Returned, Closed
      <4>3. ~pad.out.eos
        BY <2>2, <4>1, <4>2 DEF PadInv, Existing
      <4>4. demux.state # "SEEK"
        BY <1>2 DEF PullInv, SeekInv, AskedInv, TagStates
      <4>. QED BY <1>2, <4>1, <4>2, <4>3, <4>4 DEF NextInv
    <3>4. ~pad.need_discont => Delivery!IsNext(t, pad.out.tag, i)
      <4> SUFFICES ASSUME ~pad.need_discont PROVE Delivery!IsNext(t, pad.out.tag, i)
        OBVIOUS
      <4>1. Before(pad.out, t, i)
        BY <3>3
      <4>2. Delivery!Frames(t) \subseteq Int /\ i \in Int
        BY <1>1, <1>2, FileTags DEF Delivery!Frames, Inside
      <4>3. ASSUME NEW k \in Delivery!Frames(t), pad.out.tag < k PROVE i <= k
        <5>1. ~(k < i) /\ k \in Int
          BY <4>1, <4>2, <4>3 DEF Before
        <5>. QED BY <4>2, <5>1
      <4>. QED BY <4>1, <4>3 DEF Before, Delivery!IsNext
    <3>5. PICK p \in Streams : p = t
      BY <2>2
    <3>6. Delivery!Deliver(p)
      BY <2>3, <3>1, <3>2, <3>4, <3>5 DEF Delivery!Deliver
    <3>. QED BY <1>1, <3>6, DeliveryStep
  <2>. QED BY <2>4, <2>5, <2>6
<1>. QED BY <1>6, <1>7

LEMMA ConfigureDelivers ==
  ASSUME TypeOK, TypeOK', UNCHANGED file, NEW ev \in AllEvents, Configure(ev)
  PROVE  Delivery!Next
<1>1. SeekDoes(demux, demux', ev.flush, Moves(ev))
  BY ConfigureDoes
<1>2. \A p \in Streams : demux'.pad[p].out.tag \in {0, demux.pad[p].out.tag}
  BY <1>1 DEF SeekDoes, NothingOut
<1>. QED BY <1>2, NothingDelivered

LEMMA LockedDelivers ==
  ASSUME PullInv, TypeOK', Locked
  PROVE  Delivery!Next
<1> DEFINE ev == app.event
<1>1. TypeOK /\ UNCHANGED file
  BY DEF PullInv, Locked
<1>2. /\ ev \in AllEvents
      /\ \/ demux' = [FlushedDown(demux, ev) EXCEPT !.state = "SEEK"]
         \/ Configure(ev)
  BY LockedDoes
<1> HIDE DEF ev
<1>3. CASE Configure(ev)
  BY <1>1, <1>2, <1>3, ConfigureDelivers
<1>4. CASE demux' = [FlushedDown(demux, ev) EXCEPT !.state = "SEEK"]
  <2> DEFINE f == FlushedDown(demux, ev)
  <2>1. FlushOnly(demux, f, ev.flush)
    BY <1>1, <1>2, FlushedDownType DEF TypeOK
  <2>2. demux' = [f EXCEPT !.state = "SEEK"]
    BY <1>4
  <2>. HIDE DEF f
  <2>3. demux'.pad = f.pad
    BY <2>1, <2>2 DEF FlushOnly, DemuxType
  <2>4. \A p \in Streams : demux'.pad[p].out.tag \in {0, demux.pad[p].out.tag}
    BY <2>1, <2>3 DEF FlushOnly, NothingOut
  <2>. QED BY <1>1, <2>4, NothingDelivered
<1>. QED BY <1>2, <1>3, <1>4

LEMMA StepDelivers ==
  ASSUME PullInv, TypeOK', StreamInv, [Next]_vars
  PROVE  [Delivery!Next]_<<file, OutTags(demux), Discontinuities(demux)>>
<1>1. TypeOK /\ PlaceInv
  BY DEF PullInv
<1>2. ASSUME UNCHANGED file, NEW d, NEW started, TurnOf(d, started), d.pad = demux.pad
      PROVE  Delivery!Next
  <2>1. \A p \in Streams : demux'.pad[p].out.tag = demux.pad[p].out.tag
    BY <1>2, TurnTags
  <2>. QED BY <1>2, <2>1, NothingDelivered
<1>3. ASSUME UNCHANGED file, demux'.pad = demux.pad PROVE Delivery!Next
  BY <1>3, NothingDelivered
<1>4. CASE PullHeader
  <2>1. PICK d : TurnOf(d, TRUE) /\ (HeaderRead(d) \/ Failed(d))
    BY <1>1, <1>4, PullHeaderDoes
  <2>2. d.pad = demux.pad /\ UNCHANGED file
    BY <1>4, <2>1 DEF HeaderRead, Failed, PullHeader
  <2>. QED BY <1>2, <2>1, <2>2
<1>5. CASE PullTagType
  <2>1. UNCHANGED file
    BY <1>5 DEF PullTagType
  <2>2. \/ \E i : TypeRead(i)
        \/ \E d : TurnOf(d, TRUE) /\ Failed(d)
    BY <1>1, <1>5, PullTagTypeDoes
  <2>. QED BY <1>2, <1>3, <2>1, <2>2 DEF TypeRead, Failed
<1>6. CASE Scan
  <2>1. LooksAhead(demux, demux')
    BY <1>1, <1>6, ScanDoes
  <2>. QED BY <1>3, <1>6, <2>1 DEF LooksAhead, Scan
<1>7. CASE Serve
  <2>1. request.event \in AllEvents
    BY <1>1 DEF TypeOK, AllEvents
  <2>. QED BY <1>1, <1>7, <2>1, ConfigureDelivers DEF Serve
<1>8. CASE Served \/ Halt \/ (\E ev \in Events : Seek(ev)) \/ UNCHANGED vars
  BY <1>3, <1>8 DEF Served, Halt, Seek, vars
<1>9. CASE Resume
  <2> DEFINE started == task.pc = "go"
  <2>1. TurnOf(demux, started) /\ UNCHANGED file
    BY <1>1, <1>9, ResumeDoes DEF Resume
  <2>. HIDE DEF started
  <2>. QED BY <1>2, <2>1
<1>10. ASSUME NEW flow \in Returned, PullTag(flow) PROVE Delivery!Next
  BY <1>10, TagDelivered
<1>11. CASE Locked
  BY <1>11, LockedDelivers
<1>12. CASE Restart
  <2>1. UNCHANGED file /\ demux' = gst_flv_demux_cleanup(demux) /\ demux \in DemuxType
    BY <1>1, <1>12 DEF Restart, TypeOK
  <2>2. \A p \in Streams : demux'.pad[p].out = NothingOut
    BY <2>1, CleanupType
  <2>3. \A p \in Streams : demux'.pad[p].out.tag \in {0, demux.pad[p].out.tag}
    BY <2>2 DEF NothingOut
  <2>. QED BY <2>1, <2>3, NothingDelivered
<1>. QED BY <1>4, <1>5, <1>6, <1>7, <1>8, <1>9, <1>10, <1>11, <1>12 DEF Next, Loop, Over

\* Each stream of a file gets its frames one after the other, none left out and
\* none twice, unless the buffer says that it is a discontinuity: whatever seeks
\* overtake each other, flush, fail or are left to the task, in either direction.
THEOREM PullDelivers ==
  ASSUME \A f \in Files : Settled(f)
  PROVE  Spec => DeliversInOrder
<1>1. AllSettled
  BY DEF AllSettled
<1>2. Init => Delivery!Init
  BY DEF Init, NewDemux, NewPad, NothingOut, Delivery!Init
<1>3. PullInv /\ StreamInv /\ [Next]_vars => StreamInv'
  BY <1>1, StreamStep
<1>4. PullInv /\ PullInv' /\ StreamInv /\ [Next]_vars
        => [Delivery!Next]_<<file, [p \in Streams |-> demux.pad[p].out.tag],
                             [p \in Streams |-> demux.pad[p].out.discont]>>
  BY StepDelivers DEF PullInv, OutTags, Discontinuities
<1>. QED BY <1>2, <1>3, <1>4, StreamInit, PullHolds, PTL
     DEF Spec, DeliversInOrder, Delivery!Spec

===========================================================================
