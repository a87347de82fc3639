---------------------------- MODULE TextOverlay ----------------------------
(***************************************************************************)
(* The overlay that draws the time on every frame                          *)
(* (src/uclockoverlay/gstbasetextoverlay.c, gstclockoverlay.c).  The video *)
(* thread is in video_chain, the text thread (of a subclass that has a     *)
(* text pad: the clock has none) in text_chain; one lock and one condition *)
(* are between them, with a slot for one text.  What a thread does from    *)
(* locking to unlocking, or to waiting, is one action; text segments, gaps *)
(* and links, and the drawing of a text that is not from the pad, change   *)
(* what the lock protects without it, and take steps of their own.         *)
(*                                                                         *)
(* External: the pads (events that are serialized wait for the chain, a    *)
(* new stream may follow EOS, frames wait until the CAPS were taken), the  *)
(* peer downstream, and gst_segment_clip and gst_segment_to_running_time.  *)
(***************************************************************************)
EXTENDS Integers, Sequences, FiniteSets

CONSTANTS
  NONE,        \* GST_CLOCK_TIME_NONE, more than any time
  NoText, NoCaps,
  Frames,      \* video: records with start and dur
  Texts,       \* texts that arrive: records with start and dur, NONE if unknown
  Gaps,        \* ends of the gaps in the text stream
  Segments, TextSegments,
  Period,      \* 1/fps
  Captions,    \* values of the property text; "" is empty
  Clocks,      \* what the clock shows; "" where the format gives nothing
  Images,      \* what drawings make in video of each size
  Caps,        \* of the video: size, whether they have the overlay feature, and
               \* whether the element can draw into the format
  Peers,       \* downstream: takes "plain" caps, takes "feature" caps, and
               \* whether it asks for the feature in the ALLOCATION query
  MaxFrames, MaxTexts, MaxEvents   \* bounds

ASSUME OverlayAssumption ==
  /\ NONE \in Nat
  /\ Frames \subseteq [start : 0..(NONE - 1), dur : Nat]
  /\ Texts \subseteq [start : 0..NONE, dur : Nat] /\ Gaps \subseteq Nat
  /\ Segments \cup TextSegments \subseteq
       [defined : BOOLEAN, start : Nat, stop : 0..NONE, base : Nat, position : Nat]
  /\ \A c \in Caps : Images[c.size] # {}
                     /\ Images[c.size] \subseteq {"picture", "line", "nothing"}
  /\ Period \in Nat \ {0}
  /\ MaxFrames \in Nat /\ MaxTexts \in Nat /\ MaxEvents \in Nat

VARIABLES
  app,       \* of the state change: "paused", "stopping", "flushing", "ready"
  overlay,   \* struct _GstBaseUTextOverlay
  video,     \* the video thread: where it is, its frame and locals
  text,      \* the text thread: where it is, and the text it brings
  peer,      \* downstream
  sinkcaps,  \* of the video, as last accepted
  spent      \* of the bounds

vars == <<app, overlay, video, text, peer, sinkcaps, spent>>

-----------------------------------------------------------------------------
(* Segments; NONE compares as the largest number, as in C.                 *)

Least(a, b) == IF a < b THEN a ELSE b
Greatest(a, b) == IF a < b THEN b ELSE a

\* gst_segment_init: "defined" is a format of TIME.
NewSegment(defined) ==
  [defined |-> defined, start |-> 0, stop |-> NONE, base |-> 0, position |-> 0]

Inside(s, start, stop) ==
  /\ s.defined
  /\ start =< s.stop /\ ~ (start = s.stop /\ s.start # s.stop)
  /\ stop >= s.start /\ ~ (stop = s.start /\ start # stop)

Running(s, t) ==
  IF s.defined /\ t # NONE /\ s.start =< t /\ t =< s.stop
  THEN t - s.start + s.base ELSE NONE

End(start, dur) == IF dur = NONE THEN NONE ELSE start + dur

-----------------------------------------------------------------------------
(* State.                                                                  *)

\* text_sinkpad tells whether the class has a text pad; composition is the
\* text whose picture there is; rendering (history) is what was drawn last and
\* what came of it; size is that of the video, caps are what the source pad
\* says, and accepted tells whether the peer has taken them.
NewOverlay(has_text, linked) ==
  [text_sinkpad |-> has_text, text_linked |-> linked,
   silent |-> FALSE, wait_text |-> TRUE, default_text |-> "", shown_clock |-> NoText,
   need_render |-> TRUE, composition |-> NoText,
   rendering |-> [text |-> NoText, image |-> "picture"],
   video_flushing |-> FALSE, video_eos |-> FALSE,
   text_flushing |-> FALSE, text_eos |-> FALSE,
   segment |-> NewSegment(TRUE), text_segment |-> NewSegment(TRUE),
   text_buffer |-> NoText,
   size |-> 0, attach |-> FALSE, caps |-> "none", accepted |-> FALSE,
   reconfigure |-> FALSE]

\* drawn is the text of the slot that is drawn, sent how the frame went out;
\* overtaken (history): another text was drawn after that of the slot came.
NewVideo ==
  [pc |-> "idle", start |-> 0, stop |-> 0, clip_start |-> 0, clip_stop |-> 0,
   text |-> NoText, drawn |-> NoText, pop |-> FALSE, sent |-> "none",
   overtaken |-> FALSE]

\* brings is the buffer or the segment that the thread has with it.
NewTextThread == [pc |-> "idle", brings |-> NoText]

Init ==
  /\ app = "paused"
  /\ \E has_text, linked \in BOOLEAN :
       (linked => has_text) /\ overlay = NewOverlay(has_text, linked)
  /\ video = NewVideo /\ text = NewTextThread
  /\ peer \in Peers /\ sinkcaps = NoCaps
  /\ spent = [frames |-> 0, texts |-> 0, events |-> 0]

\* GST_BASE_TEXT_OVERLAY_BROADCAST, in a section that leaves v and t.
WokenVideo(v) == [v EXCEPT !.pc = IF @ = "wait" THEN "check" ELSE @]
WokenText(t) == [t EXCEPT !.pc = IF @ = "wait" THEN "woken" ELSE @]
Broadcast == video' = WokenVideo(video) /\ text' = WokenText(text)

Spend(what, max) == spent[what] < max /\ spent' = [spent EXCEPT ![what] = @ + 1]
Event == Spend("events", MaxEvents)

\* A pad passes calls on until the state change deactivates it.
Active == app \in {"paused", "stopping"}

-----------------------------------------------------------------------------
(* Negotiation with downstream.                                            *)

TakesCaps(ov, kind) == kind # "none" /\ peer[kind] /\ ~ov.video_flushing

\* Mutant: the caps with the feature stand.
gst_base_text_overlay_negotiate_Once(ov, c) ==
  LET offered == c.meta \/ peer.feature
      attach == c.meta \/ (peer.feature /\ (peer.alloc \/ ~c.handled))
      agreed == IF offered THEN TakesCaps(ov, "feature") ELSE c.handled
      said == IF offered THEN "feature" ELSE "plain"
      ret == agreed /\ TakesCaps(ov, said)
  IN  [ov EXCEPT !.attach = attach, !.caps = said, !.accepted = TakesCaps(ov, said),
                 !.reconfigure = ~ret]

\* Where the feature is offered, caps with it are sent first; they are
\* replaced by the plain ones unless the composition is attached.
gst_base_text_overlay_negotiate(ov, c) ==
  LET offered == c.meta \/ peer.feature
      attach == c.meta \/ (peer.feature /\ (peer.alloc \/ ~c.handled))
      agreed == IF offered THEN TakesCaps(ov, "feature") ELSE c.handled
      plain == agreed /\ ~attach
      said == IF plain THEN "plain" ELSE IF offered THEN "feature" ELSE ov.caps
      ret == agreed /\ (attach \/ TakesCaps(ov, "plain"))
  IN  [ov EXCEPT !.attach = attach, !.caps = said,
                 !.accepted = IF plain \/ offered THEN TakesCaps(ov, said) ELSE @,
                 !.reconfigure = ~ret]

\* A CAPS event of the video (gst_base_text_overlay_setcaps).
VideoCaps(c) ==
  LET sized == [overlay EXCEPT !.need_render = @ \/ c.size # overlay.size,
                               !.size = c.size]
      done == gst_base_text_overlay_negotiate(sized, c)
      ret == ~done.reconfigure /\ (done.attach \/ c.handled)
  IN  /\ Active /\ video.pc = "idle" /\ sinkcaps # c
      /\ sinkcaps' = IF ret THEN c ELSE NoCaps
      /\ overlay' = done
      /\ IF sinkcaps = NoCaps THEN UNCHANGED spent ELSE Event
      /\ UNCHANGED <<app, video, text, peer>>

\* Downstream changes and asks for a new negotiation.
Reconfigure ==
  /\ Active
  /\ peer' \in Peers \ {peer}
  /\ overlay' = [overlay EXCEPT !.reconfigure = TRUE]
  /\ Event /\ UNCHANGED <<app, video, text, sinkcaps>>

-----------------------------------------------------------------------------
(* The video thread.                                                       *)

\* video_chain up to its lock.  A frame without a time or outside the segment
\* is let go and changes nothing.
VideoChain(f) ==
  LET end == End(f.start, f.dur)
      stop == IF end = NONE THEN f.start + Period ELSE end
      s == overlay.segment
  IN  /\ Active /\ video.pc = "idle" /\ sinkcaps # NoCaps
      /\ ~ (end = NONE /\ f.start < s.start)
      /\ Inside(s, f.start, end)
      /\ video' = [NewVideo EXCEPT !.pc = "check", !.start = f.start, !.stop = stop,
                                   !.clip_start = Greatest(f.start, s.start),
                                   !.clip_stop = Least(stop, s.stop),
                                   !.overtaken = video.overtaken]
      /\ Spend("frames", MaxFrames) /\ UNCHANGED <<app, overlay, text, peer, sinkcaps>>

Checking == video.pc = "check"
Goes(pc) == video' = [video EXCEPT !.pc = pc]
Returns == video' = [NewVideo EXCEPT !.overtaken = video.overtaken]
Fits == Checking /\ ~overlay.video_flushing /\ ~overlay.video_eos
Shows == Fits /\ ~overlay.silent

\* The frame is dropped: FLUSHING or EOS.
Refuse ==
  /\ Checking /\ (overlay.video_flushing \/ overlay.video_eos)
  /\ Returns /\ UNCHANGED <<app, overlay, text, peer, sinkcaps, spent>>

Silent ==
  /\ Fits /\ overlay.silent
  /\ Goes("bare") /\ UNCHANGED <<app, overlay, text, peer, sinkcaps, spent>>

\* get_text: the clock has its text drawn again when it has changed, the base
\* class leaves that to set_property.
GetText(clock) ==
  IF overlay.text_sinkpad THEN <<overlay.default_text, "">>
  ELSE <<overlay.default_text, clock>>

Unlinked ==
  /\ Shows /\ ~overlay.text_linked
  /\ \E clock \in IF overlay.text_sinkpad THEN {""} ELSE Clocks :
       LET said == GetText(clock)
           new == ~overlay.text_sinkpad /\ said # overlay.shown_clock IN
       /\ overlay' = [overlay EXCEPT
            !.need_render = @ \/ new,
            !.shown_clock = IF overlay.text_sinkpad THEN @ ELSE said]
       /\ video' = [video EXCEPT !.pc = IF said = <<"", "">> THEN "bare" ELSE "draw",
                                 !.text = said]
  /\ UNCHANGED <<app, text, peer, sinkcaps, spent>>

\* What a drawing makes: a picture; a line one pixel wide, which leaves none;
\* or nothing, and the picture before stays, where the size of the video, the
\* text and its pads leave no width or no height.
Composed(ov, said, image) ==
  CASE image = "picture" -> said
    [] image = "line" -> NoText
    [] image = "nothing" -> ov.composition

gst_base_text_overlay_render_pangocairo(ov, said, image) ==
  [ov EXCEPT !.composition = Composed(ov, said, image),
             !.rendering = [text |-> said, image |-> image]]

\* render_text without the lock: the drawing, and the flag after it.
Draw ==
  /\ video.pc = "draw"
  /\ IF overlay.need_render
     THEN /\ video' = [video EXCEPT !.pc = "drawn",
                            !.overtaken = @ \/ overlay.text_buffer # NoText]
          /\ \E image \in Images[overlay.size] : overlay' =
               gst_base_text_overlay_render_pangocairo(overlay, video.text, image)
     ELSE Goes("push") /\ UNCHANGED overlay
  /\ UNCHANGED <<app, text, peer, sinkcaps, spent>>

Drawn ==
  /\ video.pc = "drawn"
  /\ Goes("push") /\ overlay' = [overlay EXCEPT !.need_render = FALSE]
  /\ UNCHANGED <<app, text, peer, sinkcaps, spent>>

\* The times that decide about the text of the slot.
Stamped(t) == t.start # NONE /\ t.dur # NONE
TextStart(ov, t) == Running(ov.text_segment, t.start)
TextEnd(ov, t) == Running(ov.text_segment, t.start + t.dur)
FrameStart(ov, v) == Running(ov.segment, v.start)
FrameEnd(ov, v) == Running(ov.segment, v.stop)

\* Mutant: by its start.
TooOld_ByItsStart(ov, v, t) == Stamped(t) /\ TextStart(ov, t) =< FrameStart(ov, v)

TooOld(ov, v, t) == Stamped(t) /\ TextEnd(ov, t) =< FrameStart(ov, v)
InFuture(ov, v, t) == Stamped(t) /\ FrameEnd(ov, v) =< TextStart(ov, t)
NotNeeded(ov, v, t) == ~Stamped(t) \/ TextEnd(ov, t) =< FrameEnd(ov, v)

Queued == Shows /\ overlay.text_linked /\ overlay.text_buffer # NoText

DropOldText ==
  /\ Queued /\ TooOld(overlay, video, overlay.text_buffer)
  /\ overlay' = [overlay EXCEPT !.text_buffer = NoText]
  /\ text' = WokenText(text)
  /\ UNCHANGED <<app, video, peer, sinkcaps, spent>>

TextInFuture ==
  /\ Queued /\ LET t == overlay.text_buffer IN
       ~TooOld(overlay, video, t) /\ InFuture(overlay, video, t)
  /\ Goes("bare") /\ UNCHANGED <<app, overlay, text, peer, sinkcaps, spent>>

\* Drawn with the lock held; whether the text goes is decided here, and done
\* after the frame was pushed.
ShowText ==
  LET t == overlay.text_buffer IN
  /\ Queued /\ ~TooOld(overlay, video, t) /\ ~InFuture(overlay, video, t)
  /\ IF overlay.need_render
     THEN \E image \in Images[overlay.size] : overlay' =
            [gst_base_text_overlay_render_pangocairo(overlay, <<"pad", t.name>>, image)
               EXCEPT !.need_render = FALSE]
     ELSE UNCHANGED overlay
  /\ video' = [video EXCEPT !.pc = "push", !.drawn = t, !.text = <<"pad", t.name>>,
                            !.pop = NotNeeded(overlay, video, t),
                            !.overtaken = @ /\ ~overlay.need_render]
  /\ UNCHANGED <<app, text, peer, sinkcaps, spent>>

\* The text stream is past this frame, though no text is there.
TextIsPast(ov, v) ==
  LET s == ov.text_segment
      now == Running(ov.segment, v.clip_start)
      Past(t) == t # NONE /\ now < t
  IN  s.defined /\ (Past(Running(s, s.start)) \/ Past(Running(s, s.position)))

MustWait(ov, v) ==
  /\ ov.text_buffer = NoText
  /\ ~ov.text_eos /\ ov.wait_text /\ ~TextIsPast(ov, v)

NoTextYet ==
  /\ Shows /\ overlay.text_linked /\ overlay.text_buffer = NoText
  /\ Goes(IF MustWait(overlay, video) THEN "wait" ELSE "bare")
  /\ UNCHANGED <<app, overlay, text, peer, sinkcaps, spent>>

\* gst_pad_push: refused where the peer does not take the caps.
PadPush(ov, as) ==
  LET taken == ~ov.video_flushing /\ (ov.accepted \/ TakesCaps(ov, ov.caps)) IN
  /\ overlay' = [ov EXCEPT !.accepted = taken \/ @]
  /\ video' = [video EXCEPT !.pc = "pushed", !.sent = IF taken THEN as ELSE "refused"]

PushBare ==
  /\ video.pc = "bare" /\ PadPush(overlay, "bare")
  /\ UNCHANGED <<app, text, peer, sinkcaps, spent>>

\* push_frame: negotiate again if asked to, attach or blend, and push.
PushFrame ==
  LET asked == overlay.reconfigure /\ overlay.composition # NoText
      done == IF asked THEN gst_base_text_overlay_negotiate(overlay, sinkcaps)
              ELSE overlay
  IN  /\ video.pc = "push"
      /\ IF asked /\ done.reconfigure
         THEN /\ overlay' = done
              /\ video' = [video EXCEPT !.pc = "pushed", !.sent = "refused"]
         ELSE PadPush(done, IF done.composition = NoText THEN "bare"
                            ELSE IF done.attach THEN "attached" ELSE "blended")
      /\ UNCHANGED <<app, text, peer, sinkcaps, spent>>

\* The push returns; the lock is taken again to let the text go.
Pushed ==
  /\ video.pc = "pushed"
  /\ Returns
  /\ IF video.pop
     THEN overlay' = [overlay EXCEPT !.text_buffer = NoText] /\ text' = WokenText(text)
     ELSE UNCHANGED <<overlay, text>>
  /\ UNCHANGED <<app, peer, sinkcaps, spent>>

Video ==
  \/ Refuse \/ Silent \/ Unlinked \/ Draw \/ Drawn
  \/ DropOldText \/ TextInFuture \/ ShowText \/ NoTextYet
  \/ PushBare \/ PushFrame \/ Pushed

-----------------------------------------------------------------------------
(* Events of the video; a pad that flushes passes none on.                 *)

VideoIdle == Active /\ video.pc = "idle" /\ ~overlay.video_flushing

VideoSegment(s) ==
  /\ VideoIdle /\ sinkcaps # NoCaps
  /\ overlay' = [overlay EXCEPT !.segment = s]
  /\ Event /\ UNCHANGED <<app, video, text, peer, sinkcaps>>

VideoEos ==
  /\ VideoIdle
  /\ overlay' = [overlay EXCEPT !.video_eos = TRUE]
  /\ Event /\ UNCHANGED <<app, video, text, peer, sinkcaps>>

VideoFlushStart ==
  /\ Active /\ ~overlay.video_flushing
  /\ overlay' = [overlay EXCEPT !.video_flushing = TRUE]
  /\ Broadcast /\ Event /\ UNCHANGED <<app, peer, sinkcaps>>

VideoFlushStop ==
  /\ Active /\ overlay.video_flushing /\ video.pc = "idle"
  /\ overlay' = [overlay EXCEPT !.video_flushing = FALSE, !.video_eos = FALSE,
                                !.segment = NewSegment(TRUE)]
  /\ Event /\ UNCHANGED <<app, video, text, peer, sinkcaps>>

-----------------------------------------------------------------------------
(* The text thread, and events of the text.                                *)

TextAtRest == Active /\ overlay.text_linked /\ text.pc = "idle"
TextIdle == TextAtRest /\ ~overlay.text_flushing

\* Mutant: the picture of the text before is kept.
PutText_KeepsPicture(t) ==
  /\ overlay' = [overlay EXCEPT
       !.text_segment.position = IF t.start # NONE THEN t.start ELSE @,
       !.text_buffer = t]
  /\ video' = [WokenVideo(video) EXCEPT !.overtaken = video.pc \in {"draw", "drawn"}]
  /\ text' = NewTextThread

\* The end of a section in which a text is put into the slot.
PutText(t) ==
  /\ overlay' = [overlay EXCEPT
       !.text_segment.position = IF t.start # NONE THEN t.start ELSE @,
       !.text_buffer = t, !.need_render = TRUE]
  /\ video' = [WokenVideo(video) EXCEPT !.overtaken = video.pc \in {"draw", "drawn"}]
  /\ text' = NewTextThread

\* What clipping leaves of a text.
Clipped(t, s) ==
  LET start == IF t.start = NONE THEN NONE ELSE Greatest(t.start, s.start)
  IN  [t EXCEPT !.start = start,
                !.dur = IF @ = NONE \/ t.start = NONE THEN @
                        ELSE Least(t.start + @, s.stop) - start]

\* text_chain; a text outside the segment, and one that comes while flushing
\* or after EOS, is let go.
TextChain(b) ==
  LET t == [start |-> b.start, dur |-> b.dur, name |-> spent.texts]
      s == overlay.text_segment IN
  /\ TextIdle /\ s.defined /\ ~overlay.text_eos
  /\ t.start # NONE => Inside(s, t.start, End(t.start, t.dur))
  /\ IF overlay.text_buffer = NoText
     THEN PutText(Clipped(t, s))
     ELSE /\ text' = [pc |-> "wait", brings |-> Clipped(t, s)]
          /\ UNCHANGED <<overlay, video>>
  /\ Spend("texts", MaxTexts) /\ UNCHANGED <<app, peer, sinkcaps>>

\* After the wait.
TextWoken ==
  /\ text.pc = "woken"
  /\ CASE overlay.text_flushing -> text' = NewTextThread /\ UNCHANGED <<overlay, video>>
       [] ~overlay.text_flushing /\ overlay.text_buffer # NoText ->
            text' = [text EXCEPT !.pc = "wait"] /\ UNCHANGED <<overlay, video>>
       [] OTHER -> PutText(text.brings)
  /\ UNCHANGED <<app, peer, sinkcaps, spent>>

\* A segment takes three steps: text_eos, without the lock, the copy, and the
\* section that tells; a gap takes two.
TextSegment(s) ==
  /\ TextIdle
  /\ overlay' = [overlay EXCEPT !.text_eos = FALSE]
  /\ text' = [pc |-> "copy", brings |-> s]
  /\ Event /\ UNCHANGED <<app, video, peer, sinkcaps>>

CopySegment ==
  /\ text.pc = "copy"
  /\ overlay' = [overlay EXCEPT !.text_segment = text.brings]
  /\ text' = [pc |-> "tell", brings |-> NoText]
  /\ UNCHANGED <<app, video, peer, sinkcaps, spent>>

Gap(end) ==
  /\ TextIdle /\ overlay.text_segment.defined
  /\ overlay' = [overlay EXCEPT !.text_segment.position = end]
  /\ text' = [text EXCEPT !.pc = "tell"]
  /\ Event /\ UNCHANGED <<app, video, peer, sinkcaps>>

Tell ==
  /\ text.pc = "tell"
  /\ video' = WokenVideo(video) /\ text' = NewTextThread
  /\ UNCHANGED <<app, overlay, peer, sinkcaps, spent>>

\* Mutant: nobody is told.
TextEos_Silently ==
  /\ TextIdle
  /\ overlay' = [overlay EXCEPT !.text_eos = TRUE]
  /\ Event /\ UNCHANGED <<app, video, text, peer, sinkcaps>>

TextEos ==
  /\ TextIdle
  /\ overlay' = [overlay EXCEPT !.text_eos = TRUE]
  /\ Broadcast /\ Event /\ UNCHANGED <<app, peer, sinkcaps>>

TextFlushStart ==
  /\ Active /\ overlay.text_linked /\ ~overlay.text_flushing
  /\ overlay' = [overlay EXCEPT !.text_flushing = TRUE]
  /\ Broadcast /\ Event /\ UNCHANGED <<app, peer, sinkcaps>>

TextFlushStop ==
  /\ TextAtRest /\ overlay.text_flushing
  /\ overlay' = [overlay EXCEPT !.text_flushing = FALSE, !.text_eos = FALSE,
                                !.text_buffer = NoText,
                                !.text_segment = NewSegment(TRUE)]
  /\ Broadcast /\ Event /\ UNCHANGED <<app, peer, sinkcaps>>

-----------------------------------------------------------------------------
(* The application.                                                        *)

\* Links and unlinks of the text pad take no lock and wake nobody.
TextPadLink ==
  /\ overlay.text_sinkpad /\ ~overlay.text_linked
  /\ overlay' = [overlay EXCEPT !.text_linked = TRUE]
  /\ Event /\ UNCHANGED <<app, video, text, peer, sinkcaps>>

TextPadUnlink ==
  /\ overlay.text_linked
  /\ overlay' = [overlay EXCEPT !.text_linked = FALSE,
                                !.text_segment = NewSegment(FALSE)]
  /\ Event /\ UNCHANGED <<app, video, text, peer, sinkcaps>>

\* Any property but these three, and reading one, only sets need_render.
SetProperty ==
  /\ \E caption \in Captions, silent, wait \in BOOLEAN :
       overlay' = [overlay EXCEPT !.default_text = caption, !.silent = silent,
                                  !.wait_text = wait, !.need_render = TRUE]
  /\ Cardinality({p \in {"default_text", "silent", "wait_text"} :
                    overlay'[p] # overlay[p]}) =< 1
  /\ Event /\ UNCHANGED <<app, video, text, peer, sinkcaps>>

\* Mutant: threads that wait are not woken.
Stop_WakesNobody ==
  /\ app = "paused" /\ app' = "stopping"
  /\ overlay' = [overlay EXCEPT !.text_flushing = TRUE, !.video_flushing = TRUE,
                                !.text_buffer = NoText]
  /\ UNCHANGED <<video, text, peer, sinkcaps, spent>>

\* PAUSED_TO_READY up to the parent's part of it, which deactivates the pads
\* and waits for both threads.
Stop ==
  /\ app = "paused" /\ app' = "stopping"
  /\ overlay' = [overlay EXCEPT !.text_flushing = TRUE, !.video_flushing = TRUE,
                                !.text_buffer = NoText]
  /\ Broadcast /\ UNCHANGED <<peer, sinkcaps, spent>>

Deactivate ==
  /\ app = "stopping" /\ app' = "flushing"
  /\ UNCHANGED <<overlay, video, text, peer, sinkcaps, spent>>

Stopped ==
  /\ app = "flushing" /\ video.pc = "idle" /\ text.pc = "idle"
  /\ app' = "ready" /\ sinkcaps' = NoCaps
  /\ overlay' = [overlay EXCEPT !.caps = "none", !.accepted = FALSE]
  /\ UNCHANGED <<video, text, peer, spent>>

\* READY_TO_PAUSED.
Start ==
  /\ app = "ready" /\ app' = "paused"
  /\ overlay' = [overlay EXCEPT
       !.text_flushing = FALSE, !.video_flushing = FALSE,
       !.video_eos = FALSE, !.text_eos = FALSE,
       !.segment = NewSegment(TRUE), !.text_segment = NewSegment(TRUE)]
  /\ Event /\ UNCHANGED <<video, text, peer, sinkcaps>>

Arrivals ==
  \/ \E f \in Frames : VideoChain(f)
  \/ \E b \in Texts : TextChain(b)
  \/ \E c \in Caps : VideoCaps(c)
  \/ \E s \in Segments : VideoSegment(s)
  \/ \E s \in TextSegments : TextSegment(s)
  \/ \E end \in Gaps : Gap(end)
  \/ VideoEos \/ VideoFlushStart \/ VideoFlushStop
  \/ TextEos \/ TextFlushStart \/ TextFlushStop
  \/ Reconfigure

Text == TextWoken \/ CopySegment \/ Tell
Application == TextPadLink \/ TextPadUnlink \/ SetProperty \/ Stop \/ Start
StateChange == Deactivate \/ Stopped

Next == Video \/ Text \/ StateChange \/ Arrivals \/ Application

\* Both threads run and pushes return; whoever stops the element goes on.
Spec ==
  /\ Init /\ [][Next]_vars
  /\ WF_vars(Video) /\ WF_vars(Text) /\ WF_vars(StateChange)

-----------------------------------------------------------------------------
(* Properties.                                                             *)

\* A thread waits only while it has to: deciding again with what is there
\* now, it would wait again.  (A text segment or gap that is written but not
\* told yet is about to wake the video; unlinking the text pad, silent and
\* wait-text wake nobody, which is what the code does.)
WaitsForAReason ==
  /\ video.pc = "wait" =>
       \/ ~overlay.video_flushing /\ ~overlay.video_eos /\ MustWait(overlay, video)
       \/ text.pc \in {"copy", "tell"}
       \/ ~overlay.text_linked \/ overlay.silent \/ ~overlay.wait_text
  /\ text.pc = "wait" => overlay.text_buffer # NoText /\ ~overlay.text_flushing

Decides == Checking /\ overlay.text_linked /\ ~overlay.silent

\* When a frame and a text are decided about, neither reaching back over the
\* start of its segment, the text is drawn into the frame if their running
\* times overlap, and only then; and a text leaves the slot only once it has
\* ended: by the start of the frame, or by its end after the frame went out.
\* Of a frame that reaches over the end of its segment it is only said that a
\* text that is due is drawn into it and not dropped: the code has no time for
\* that end, so that a later text may be drawn too soon and leave too soon.  (A
\* flush, a stop, and a text that another one has replaced during the push are
\* set apart.  What leaves the slot is right only while the running time of a
\* text is its time, that is in text segments whose base is their start: one
\* that moves a text while it is pushed makes it leave too soon.)
ShownWhileItLasts ==
  [][LET t == overlay.text_buffer
         starts == Running(overlay.text_segment, t.start)
         ends == Running(overlay.text_segment, t.start + t.dur)
         from == Running(overlay.segment, video.clip_start)
         to == Running(overlay.segment, video.clip_stop)
         begins == video.start = video.clip_start
         whole == begins /\ video.stop = video.clip_stop
         Overlap == starts < to /\ from < ends
     IN  t # NoText /\ Stamped(t) /\ begins /\ NONE \notin {starts, ends} =>
           /\ Decides /\ video'.pc \in {"push", "bare"} =>
                /\ Overlap => video'.drawn = t
                /\ whole /\ video'.drawn = t => Overlap
           /\ DropOldText => ends =< from
           /\ whole /\ video.drawn = t /\ Pushed /\ overlay'.text_buffer = NoText =>
                ends =< to]_vars

\* The text that was chosen for a frame is the one that was drawn last when
\* the frame goes out, and what there is of a picture came of that drawing:
\* always for the clock, whatever is set or read while it is drawn without
\* the lock, and for a text of the pad, unless another text was drawn after
\* it came.  (Without a text from the pad, the base class may draw an old
\* one: set_property during the drawing is lost.  A text that has no room is
\* not drawn, and the flag that asks for it is cleared all the same: the
\* picture of an earlier text goes out with this frame and those after it.)
ChosenIsDrawn ==
  [][video.pc # "push" /\ video'.pc = "push" =>
       \/ /\ overlay'.rendering.text = video'.text
          /\ overlay'.rendering.image = "picture" => overlay'.composition = video'.text
          /\ overlay'.rendering.image = "line" => overlay'.composition = NoText
       \/ overlay.text_sinkpad /\ (video'.drawn = NoText \/ video.overtaken)]_vars

\* Whatever downstream changes between frames: a picture is attached only
\* under caps that announce it and that the peer has taken, and painted into
\* the frame only under plain caps of a format that the element can draw.
AttachedAsAnnounced ==
  [][video.pc = "push" /\ video'.pc = "pushed" =>
       /\ video'.sent = "attached" => overlay'.caps = "feature" /\ overlay'.accepted
       /\ video'.sent = "blended" => overlay'.caps = "plain" /\ sinkcaps.handled]_vars

\* A state change to READY gets both threads out of the element, unless a
\* flush of either pad ends in between and takes the flags away again.
StopReturns ==
  app = "stopping" ~>
    (app = "ready" \/ ~overlay.video_flushing \/ ~overlay.text_flushing)
=============================================================================
