------------------------- MODULE TextOverlay_proofs -------------------------
(***************************************************************************)
(* What the two threads of the overlay keep to for every video, text and   *)
(* peer: nobody waits without a reason, the text that was chosen is the    *)
(* one drawn, a picture goes out the way the caps say it does, and a text  *)
(* is drawn into the frames it overlaps.                                   *)
(***************************************************************************)
EXTENDS TextOverlay, TLAPS

-----------------------------------------------------------------------------
(* The records keep their fields.                                          *)

OverlayFields == DOMAIN NewOverlay(TRUE, TRUE)
VideoFields == DOMAIN NewVideo
TextFields == DOMAIN NewTextThread

Shape ==
  /\ DOMAIN overlay = OverlayFields
  /\ DOMAIN video = VideoFields
  /\ DOMAIN text = TextFields

LEMMA InitShape == Init => Shape
  BY DEF Init, Shape, OverlayFields, VideoFields, TextFields,
         NewOverlay, NewVideo, NewTextThread

LEMMA NegotiateShape ==
  ASSUME NEW ov, NEW c, DOMAIN ov = OverlayFields
  PROVE  DOMAIN gst_base_text_overlay_negotiate(ov, c) = OverlayFields
  BY DEF gst_base_text_overlay_negotiate

LEMMA WokenShape ==
  Shape => DOMAIN WokenVideo(video) = VideoFields /\ DOMAIN WokenText(text) = TextFields
  BY DEF Shape, WokenVideo, WokenText

Picture(t) == <<"pad", t.name>>

\* A drawing leaves what its image says.
LEMMA Drawing ==
  ASSUME Shape, NEW said, NEW image,
         NEW ov, ov = gst_base_text_overlay_render_pangocairo(overlay, said, image)
  PROVE  /\ DOMAIN ov = OverlayFields
         /\ \A f \in OverlayFields \ {"composition", "rendering"} : ov[f] = overlay[f]
         /\ ov.rendering.text = said /\ ov.rendering.image = image
         /\ image = "picture" => ov.composition = said
         /\ image = "line" => ov.composition = NoText
BY DEF Shape, OverlayFields, NewOverlay, Composed, gst_base_text_overlay_render_pangocairo

LEMMA ShowTextDraws ==
  ASSUME Shape, ShowText
  PROVE  /\ video'.pc = "push" /\ ~overlay'.need_render /\ overlay.text_linked
         /\ overlay.text_buffer # NoText
         /\ video'.text = Picture(overlay.text_buffer)
         /\ video'.overtaken = (video.overtaken /\ ~overlay.need_render)
         /\ DOMAIN overlay' = OverlayFields
         /\ \A f \in OverlayFields \ {"composition", "rendering", "need_render"} :
              overlay'[f] = overlay[f]
         /\ IF overlay.need_render
            THEN /\ overlay'.rendering.text = Picture(overlay.text_buffer)
                 /\ overlay'.rendering.image = "picture" =>
                      overlay'.composition = Picture(overlay.text_buffer)
                 /\ overlay'.rendering.image = "line" => overlay'.composition = NoText
            ELSE UNCHANGED <<overlay.rendering, overlay.composition>>
<1> DEFINE t == overlay.text_buffer
<1>1. /\ video'.pc = "push" /\ overlay.text_linked /\ t # NoText
      /\ video'.text = Picture(t)
      /\ video'.overtaken = (video.overtaken /\ ~overlay.need_render)
  BY DEF ShowText, Queued, Shows, Picture, Shape, VideoFields, NewVideo
<1>2. CASE overlay.need_render
  <2>1. PICK image : overlay' =
          [gst_base_text_overlay_render_pangocairo(overlay, Picture(t), image)
             EXCEPT !.need_render = FALSE]
    BY <1>2 DEF ShowText, Picture
  <2>2. PICK ov : ov = gst_base_text_overlay_render_pangocairo(overlay, Picture(t), image)
    OBVIOUS
  <2>3. /\ DOMAIN ov = OverlayFields
        /\ \A f \in OverlayFields \ {"composition", "rendering"} : ov[f] = overlay[f]
        /\ ov.rendering.text = Picture(t) /\ ov.rendering.image = image
        /\ image = "picture" => ov.composition = Picture(t)
        /\ image = "line" => ov.composition = NoText
    BY <2>2, Drawing
  <2>4. overlay' = [ov EXCEPT !.need_render = FALSE]
    BY <2>1, <2>2
  <2>5. {"composition", "rendering", "need_render"} \subseteq OverlayFields
    BY DEF OverlayFields, NewOverlay
  <2>6. /\ DOMAIN overlay' = OverlayFields /\ ~overlay'.need_render
        /\ overlay'.rendering = ov.rendering /\ overlay'.composition = ov.composition
        /\ \A f \in OverlayFields \ {"composition", "rendering", "need_render"} :
             overlay'[f] = overlay[f]
    BY <2>3, <2>4, <2>5
  <2> QED
    BY <1>1, <1>2, <2>3, <2>6
<1>3. CASE ~overlay.need_render
  <2>1. overlay' = overlay
    BY <1>3 DEF ShowText
  <2> QED
    BY <1>1, <1>3, <2>1 DEF Shape
<1> QED
  BY <1>2, <1>3

LEMMA DrawDoes ==
  ASSUME Shape, Draw
  PROVE  /\ video.pc = "draw" /\ UNCHANGED <<app, text, peer, sinkcaps>>
         /\ video'.pc = IF overlay.need_render THEN "drawn" ELSE "push"
         /\ DOMAIN video' = VideoFields /\ DOMAIN overlay' = OverlayFields
         /\ \A f \in OverlayFields \ {"composition", "rendering"} :
              overlay'[f] = overlay[f]
         /\ \A f \in VideoFields \ {"pc", "overtaken"} : video'[f] = video[f]
         /\ IF overlay.need_render
            THEN /\ video'.overtaken =
                      (video.overtaken \/ overlay.text_buffer # NoText)
                 /\ overlay'.rendering.text = video.text
                 /\ overlay'.rendering.image = "picture" =>
                      overlay'.composition = video.text
                 /\ overlay'.rendering.image = "line" => overlay'.composition = NoText
            ELSE overlay' = overlay /\ video'.overtaken = video.overtaken
<1>1. video.pc = "draw" /\ UNCHANGED <<app, text, peer, sinkcaps>>
  BY DEF Draw
<1>2. CASE overlay.need_render
  <2>1. PICK image : overlay' =
          gst_base_text_overlay_render_pangocairo(overlay, video.text, image)
    BY <1>2 DEF Draw
  <2>2. /\ DOMAIN overlay' = OverlayFields
        /\ \A f \in OverlayFields \ {"composition", "rendering"} : overlay'[f] = overlay[f]
        /\ overlay'.rendering.text = video.text
        /\ overlay'.rendering.image = "picture" => overlay'.composition = video.text
        /\ overlay'.rendering.image = "line" => overlay'.composition = NoText
    BY <2>1, Drawing
  <2>3. video' = [video EXCEPT !.pc = "drawn",
                               !.overtaken = @ \/ overlay.text_buffer # NoText]
    BY <1>2 DEF Draw
  <2>4. /\ DOMAIN video' = VideoFields /\ video'.pc = "drawn"
        /\ \A f \in VideoFields \ {"pc", "overtaken"} : video'[f] = video[f]
        /\ video'.overtaken = (video.overtaken \/ overlay.text_buffer # NoText)
    BY <2>3 DEF Shape, VideoFields, NewVideo
  <2> QED
    BY <1>1, <1>2, <2>2, <2>4
<1>3. CASE ~overlay.need_render
  <2>1. overlay' = overlay /\ video' = [video EXCEPT !.pc = "push"]
    BY <1>3 DEF Draw, Goes
  <2>2. /\ DOMAIN video' = VideoFields /\ video'.pc = "push"
        /\ \A f \in VideoFields \ {"pc", "overtaken"} : video'[f] = video[f]
        /\ video'.overtaken = video.overtaken
    BY <2>1 DEF Shape, VideoFields, NewVideo
  <2> QED
    BY <1>1, <1>3, <2>1, <2>2 DEF Shape
<1> QED
  BY <1>2, <1>3

LEMMA VideoShape == Shape /\ Video => Shape'
<1> SUFFICES ASSUME Shape, Video PROVE Shape'
  OBVIOUS
<1>1. CASE Refuse \/ Silent \/ NoTextYet \/ TextInFuture
  BY <1>1 DEF Refuse, Silent, NoTextYet, TextInFuture, Goes, Returns, Shape, VideoFields
<1>2. CASE Unlinked
  BY <1>2 DEF Unlinked, Shape
<1>3. CASE Draw \/ Drawn
  BY <1>3, DrawDoes DEF Draw, Drawn, Goes, Shape
<1>4. CASE DropOldText
  BY <1>4, WokenShape DEF DropOldText, Shape
<1>5. CASE ShowText
  BY <1>5, ShowTextDraws DEF ShowText, Shape
<1>6. CASE PushBare
  BY <1>6 DEF PushBare, PadPush, Shape
<1>7. CASE PushFrame
  BY <1>7, NegotiateShape DEF PushFrame, PadPush, Shape
<1>8. CASE Pushed
  BY <1>8, WokenShape DEF Pushed, Returns, Shape, VideoFields
<1> QED
  BY <1>1, <1>2, <1>3, <1>4, <1>5, <1>6, <1>7, <1>8 DEF Video

LEMMA TextShape == Shape /\ Text => Shape'
<1> SUFFICES ASSUME Shape, Text PROVE Shape'
  OBVIOUS
<1>1. CASE TextWoken
  BY <1>1, WokenShape DEF TextWoken, PutText, NewTextThread, Shape, TextFields
<1>2. CASE CopySegment \/ Tell
  BY <1>2, WokenShape DEF CopySegment, Tell, NewTextThread, Shape, TextFields
<1> QED
  BY <1>1, <1>2 DEF Text

LEMMA ArrivalsShape == Shape /\ Arrivals => Shape'
<1> SUFFICES ASSUME Shape, Arrivals PROVE Shape'
  OBVIOUS
<1>1. ASSUME NEW f \in Frames, VideoChain(f) PROVE Shape'
  BY <1>1 DEF VideoChain, Shape, VideoFields
<1>2. ASSUME NEW b \in Texts, TextChain(b) PROVE Shape'
  BY <1>2, WokenShape DEF TextChain, PutText, NewTextThread, Shape, TextFields
<1>3. ASSUME NEW c \in Caps, VideoCaps(c) PROVE Shape'
  BY <1>3, NegotiateShape DEF VideoCaps, Shape
<1>4. ASSUME NEW s, VideoSegment(s) \/ TextSegment(s) \/ Gap(s) PROVE Shape'
  BY <1>4 DEF VideoSegment, TextSegment, Gap, Shape, TextFields, NewTextThread
<1>5. CASE VideoEos \/ VideoFlushStart \/ VideoFlushStop \/ Reconfigure
  BY <1>5, WokenShape DEF VideoEos, VideoFlushStart, VideoFlushStop, Reconfigure,
                          Broadcast, Shape
<1>6. CASE TextEos \/ TextFlushStart \/ TextFlushStop
  BY <1>6, WokenShape DEF TextEos, TextFlushStart, TextFlushStop, Broadcast, Shape
<1> QED
  BY <1>1, <1>2, <1>3, <1>4, <1>5, <1>6 DEF Arrivals

LEMMA ApplicationShape == Shape /\ (Application \/ StateChange) => Shape'
<1> SUFFICES ASSUME Shape, Application \/ StateChange PROVE Shape'
  OBVIOUS
<1>1. CASE TextPadLink \/ TextPadUnlink \/ SetProperty
  BY <1>1 DEF TextPadLink, TextPadUnlink, SetProperty, Shape
<1>2. CASE Stop \/ Start \/ StateChange
  BY <1>2, WokenShape DEF Stop, Start, StateChange, Deactivate, Stopped, Broadcast, Shape
<1> QED
  BY <1>1, <1>2 DEF Application

LEMMA NextShape == Shape /\ [Next]_vars => Shape'
<1>1. Shape /\ UNCHANGED vars => Shape'
  BY DEF vars, Shape
<1> QED
  BY <1>1, VideoShape, TextShape, ArrivalsShape, ApplicationShape DEF Next

LEMMA ShapeHolds == Spec => []Shape
<1> QED
  BY InitShape, NextShape, PTL DEF Spec

-----------------------------------------------------------------------------
(* Nobody waits without a reason.                                          *)

\* What MustWait asks for, but for the property wait-text, which may be set
\* and reset while the thread waits.
NothingCame ==
  overlay.text_buffer = NoText /\ ~overlay.text_eos /\ ~TextIsPast(overlay, video)

WaitInv ==
  /\ video.pc = "wait" =>
       /\ ~overlay.video_flushing /\ ~overlay.video_eos
       /\ NothingCame \/ text.pc \in {"copy", "tell"}
  /\ text.pc = "wait" => overlay.text_buffer # NoText /\ ~overlay.text_flushing
  /\ app = "ready" => video.pc = "idle" /\ text.pc = "idle"

LEMMA InitWaitInv == Init => WaitInv
  BY DEF Init, WaitInv, NewVideo, NewTextThread

LEMMA PastKept ==
  ASSUME UNCHANGED <<overlay.text_segment, overlay.segment, video.clip_start>>
  PROVE  TextIsPast(overlay, video)' = TextIsPast(overlay, video)
  BY DEF TextIsPast, Running

\* What a step that leaves the following alone keeps.
LEMMA WaitKept ==
  ASSUME WaitInv,
         UNCHANGED <<overlay.text_buffer, overlay.text_eos, overlay.text_flushing,
                     overlay.video_flushing, overlay.video_eos,
                     overlay.text_segment, overlay.segment>>,
         video'.pc = "wait" => video.pc = "wait" /\ video'.clip_start = video.clip_start,
         text'.pc = text.pc,
         app' = "ready" => video'.pc = "idle" /\ text'.pc = "idle"
  PROVE  WaitInv'
<1>1. video'.pc = "wait" => (NothingCame' <=> NothingCame)
  BY PastKept DEF NothingCame
<1> QED
  BY <1>1 DEF WaitInv

\* A section that ends with a broadcast leaves nobody waiting.
LEMMA WokenAll ==
  ASSUME Shape
  PROVE  /\ WokenVideo(video).pc # "wait" /\ WokenText(text).pc # "wait"
         /\ video.pc = "idle" => WokenVideo(video).pc = "idle"
         /\ text.pc = "idle" => WokenText(text).pc = "idle"
  BY DEF Shape, VideoFields, TextFields, NewVideo, NewTextThread, WokenVideo, WokenText

LEMMA NegotiateKeeps ==
  ASSUME NEW ov, NEW c, DOMAIN ov = OverlayFields,
         NEW f \in OverlayFields \ {"attach", "caps", "accepted", "reconfigure"}
  PROVE  gst_base_text_overlay_negotiate(ov, c)[f] = ov[f]
  BY DEF gst_base_text_overlay_negotiate

\* What Unlinked does to the frame and to the element.
LEMMA UnlinkedStep ==
  ASSUME Shape, Unlinked
  PROVE  /\ video.pc = "check" /\ video'.pc \in {"bare", "draw"}
         /\ UNCHANGED <<app, text, video.overtaken, video.drawn>>
         /\ \A f \in OverlayFields \ {"need_render", "shown_clock"} :
              overlay'[f] = overlay[f]
         /\ overlay.need_render => overlay'.need_render
         /\ ~overlay.text_sinkpad =>
              /\ video'.text = overlay'.shown_clock
              /\ overlay'.need_render \/ overlay'.shown_clock = overlay.shown_clock
<1> USE DEF Shape, OverlayFields, VideoFields, NewOverlay, NewVideo
<1>1. PICK clock :
        LET said == GetText(clock)
            new == ~overlay.text_sinkpad /\ said # overlay.shown_clock IN
        /\ overlay' = [overlay EXCEPT
             !.need_render = @ \/ new,
             !.shown_clock = IF overlay.text_sinkpad THEN @ ELSE said]
        /\ video' = [video EXCEPT !.pc = IF said = <<"", "">> THEN "bare" ELSE "draw",
                                  !.text = said]
  BY Zenon DEF Unlinked
<1> DEFINE said == GetText(clock)
           new == ~overlay.text_sinkpad /\ said # overlay.shown_clock
<1>2. video.pc = "check" /\ UNCHANGED <<app, text>>
  BY DEF Unlinked, Shows, Fits, Checking
<1>3. /\ video'.pc \in {"bare", "draw"} /\ video'.text = said
      /\ UNCHANGED <<video.overtaken, video.drawn>>
  BY <1>1
<1>4. \A f \in OverlayFields \ {"need_render", "shown_clock"} : overlay'[f] = overlay[f]
  BY <1>1
<1>5. /\ overlay'.need_render <=> overlay.need_render \/ new
      /\ ~overlay.text_sinkpad => overlay'.shown_clock = said
  BY <1>1
<1> QED
  BY <1>2, <1>3, <1>4, <1>5

LEMMA VideoWaitInv == Shape /\ WaitInv /\ Video => WaitInv'
<1> SUFFICES ASSUME Shape, WaitInv, Video PROVE WaitInv'
  OBVIOUS
<1> USE DEF Shape, OverlayFields, VideoFields, TextFields, NewOverlay, NewVideo,
            NewTextThread
<1>1. CASE Refuse \/ Silent \/ TextInFuture
  BY <1>1, WaitKept DEF Refuse, Silent, TextInFuture, Goes, Returns, Fits, Shows,
                        Queued, Checking, WaitInv
<1>2. CASE NoTextYet
  <2>1. /\ ~overlay.video_flushing /\ ~overlay.video_eos /\ app' = app
        /\ overlay' = overlay /\ text' = text /\ video.pc = "check"
        /\ video'.clip_start = video.clip_start
        /\ video'.pc = IF MustWait(overlay, video) THEN "wait" ELSE "bare"
    BY <1>2 DEF NoTextYet, Shows, Fits, Checking, Goes
  <2>2. TextIsPast(overlay, video)' = TextIsPast(overlay, video)
    BY <2>1, PastKept
  <2>3. video'.pc = "wait" => NothingCame'
    BY <2>1, <2>2 DEF MustWait, NothingCame
  <2> QED
    BY <2>1, <2>3 DEF WaitInv
<1>3. CASE Unlinked
  <2>1. UNCHANGED <<overlay.text_buffer, overlay.text_flushing>>
    BY <1>3, UnlinkedStep
  <2>2. video.pc = "check" /\ video'.pc \in {"bare", "draw"} /\ UNCHANGED <<app, text>>
    BY <1>3, UnlinkedStep
  <2> QED
    BY <2>1, <2>2 DEF WaitInv
<1>4. CASE Draw \/ Drawn
  <2>1. /\ UNCHANGED <<overlay.text_buffer, overlay.text_flushing, app, text>>
        /\ video.pc \in {"draw", "drawn"} /\ video'.pc \in {"drawn", "push"}
    <3>1. CASE Draw
      BY <1>4, <3>1, DrawDoes
    <3>2. CASE Drawn
      BY <1>4, <3>2 DEF Drawn, Goes
    <3> QED
      BY <1>4, <3>1, <3>2
  <2> QED
    BY <2>1 DEF WaitInv
<1>5. CASE DropOldText
  BY <1>5, WokenAll DEF DropOldText, Queued, Shows, Fits, Checking, WaitInv
<1>6. CASE ShowText
  <2>1. /\ UNCHANGED <<overlay.text_buffer, overlay.text_flushing, app, text>>
        /\ video.pc = "check" /\ video'.pc = "push"
    BY <1>6, ShowTextDraws DEF ShowText, Queued, Shows, Fits, Checking
  <2> QED
    BY <2>1 DEF WaitInv
<1>7. CASE PushBare
  BY <1>7, WaitKept DEF PushBare, PadPush, WaitInv
<1>8. CASE PushFrame
  <2>1. \A f \in OverlayFields \ {"attach", "caps", "accepted", "reconfigure"} :
          overlay'[f] = overlay[f]
    BY <1>8, NegotiateKeeps, NegotiateShape DEF PushFrame, PadPush
  <2>2. video.pc = "push" /\ video'.pc = "pushed" /\ text' = text /\ app' = app
    <3>1. PICK how : video' = [video EXCEPT !.pc = "pushed", !.sent = how]
      BY <1>8, Zenon DEF PushFrame, PadPush
    <3>2. video'.pc = "pushed"
      BY <3>1
    <3> QED
      BY <1>8, <3>2 DEF PushFrame
  <2>3. UNCHANGED <<overlay.text_buffer, overlay.text_flushing>>
    BY <2>1
  <2> QED
    BY <2>2, <2>3 DEF WaitInv
<1>9. CASE Pushed
  <2>1. video.pc = "pushed" /\ video'.pc = "idle" /\ app' = app
    BY <1>9 DEF Pushed, Returns
  <2>2. CASE video.pop
    BY <1>9, <2>1, <2>2, WokenAll DEF Pushed, WaitInv
  <2>3. CASE ~video.pop
    BY <1>9, <2>1, <2>3 DEF Pushed, WaitInv
  <2> QED
    BY <2>2, <2>3
<1> QED
  BY <1>1, <1>2, <1>3, <1>4, <1>5, <1>6, <1>7, <1>8, <1>9 DEF Video

LEMMA TextWaitInv == Shape /\ WaitInv /\ Text => WaitInv'
<1> SUFFICES ASSUME Shape, WaitInv, Text PROVE WaitInv'
  OBVIOUS
<1> USE DEF Shape, OverlayFields, VideoFields, TextFields, NewOverlay, NewVideo,
            NewTextThread
<1>1. CASE TextWoken
  <2>1. text.pc = "woken" /\ app' = app
    BY <1>1 DEF TextWoken
  <2>2. CASE overlay.text_flushing
    BY <1>1, <2>1, <2>2 DEF TextWoken, WaitInv, NothingCame
  <2>3. CASE ~overlay.text_flushing /\ overlay.text_buffer # NoText
    BY <1>1, <2>1, <2>3 DEF TextWoken, WaitInv, NothingCame
  <2>4. CASE PutText(text.brings)
    BY <2>1, <2>4, WokenAll DEF PutText, WaitInv
  <2> QED
    BY <1>1, <2>2, <2>3, <2>4 DEF TextWoken
<1>2. CASE CopySegment
  BY <1>2 DEF CopySegment, WaitInv
<1>3. CASE Tell
  BY <1>3, WokenAll DEF Tell, WaitInv
<1> QED
  BY <1>1, <1>2, <1>3 DEF Text

LEMMA ArrivalsWaitInv == Shape /\ WaitInv /\ Arrivals => WaitInv'
<1> SUFFICES ASSUME Shape, WaitInv, Arrivals PROVE WaitInv'
  OBVIOUS
<1> USE DEF Shape, OverlayFields, VideoFields, TextFields, NewOverlay, NewVideo,
            NewTextThread
<1>1. ASSUME NEW f \in Frames, VideoChain(f) PROVE WaitInv'
  BY <1>1 DEF VideoChain, Active, WaitInv
<1>2. ASSUME NEW b \in Texts, TextChain(b) PROVE WaitInv'
  <2>1. app' = app /\ app # "ready" /\ ~overlay.text_flushing /\ text.pc = "idle"
    BY <1>2 DEF TextChain, TextIdle, TextAtRest, Active
  <2>2. CASE overlay.text_buffer = NoText
    <3>1. PICK t : PutText(t)
      BY <1>2, <2>2 DEF TextChain
    <3> QED
      BY <2>1, <3>1, WokenAll DEF PutText, WaitInv
  <2>3. CASE overlay.text_buffer # NoText
    <3>1. overlay' = overlay /\ video' = video /\ text'.pc = "wait"
      BY <1>2, <2>3 DEF TextChain
    <3> QED
      BY <2>1, <2>3, <3>1 DEF WaitInv, NothingCame
  <2> QED
    BY <2>2, <2>3
<1>3. ASSUME NEW c \in Caps, VideoCaps(c) PROVE WaitInv'
  BY <1>3 DEF VideoCaps, Active, WaitInv, gst_base_text_overlay_negotiate
<1>4. ASSUME NEW s, VideoSegment(s) PROVE WaitInv'
  BY <1>4 DEF VideoSegment, VideoIdle, WaitInv
<1>5. ASSUME NEW s, TextSegment(s) \/ Gap(s) PROVE WaitInv'
  BY <1>5 DEF TextSegment, Gap, TextIdle, TextAtRest, Active, WaitInv
<1>6. CASE VideoEos \/ VideoFlushStop
  BY <1>6 DEF VideoEos, VideoFlushStop, VideoIdle, WaitInv
<1>7. CASE VideoFlushStart \/ TextEos \/ TextFlushStart \/ TextFlushStop
  <2>1. app' = app /\ video' = WokenVideo(video) /\ text' = WokenText(text)
    BY <1>7 DEF VideoFlushStart, TextEos, TextFlushStart, TextFlushStop, Broadcast
  <2> QED
    BY <2>1, WokenAll DEF WaitInv
<1>8. CASE Reconfigure
  BY <1>8, WaitKept DEF Reconfigure, WaitInv
<1> QED
  BY <1>1, <1>2, <1>3, <1>4, <1>5, <1>6, <1>7, <1>8 DEF Arrivals

LEMMA ApplicationWaitInv == Shape /\ WaitInv /\ (Application \/ StateChange) => WaitInv'
<1> SUFFICES ASSUME Shape, WaitInv, Application \/ StateChange PROVE WaitInv'
  OBVIOUS
<1> USE DEF Shape, OverlayFields, VideoFields, TextFields, NewOverlay, NewVideo,
            NewTextThread
<1>1. CASE TextPadLink
  BY <1>1, WaitKept DEF TextPadLink, WaitInv
<1>2. CASE TextPadUnlink
  <2>1. ~TextIsPast(overlay, video)'
    BY <1>2 DEF TextPadUnlink, NewSegment, TextIsPast
  <2> QED
    BY <1>2, <2>1 DEF TextPadUnlink, WaitInv, NothingCame
<1>3. CASE SetProperty
  BY <1>3, WaitKept DEF SetProperty, WaitInv
<1>4. CASE Stop
  BY <1>4, WokenAll DEF Stop, Broadcast, WaitInv
<1>5. CASE Start
  BY <1>5 DEF Start, WaitInv
<1>6. CASE Deactivate
  BY <1>6, WaitKept DEF Deactivate, WaitInv
<1>7. CASE Stopped
  BY <1>7 DEF Stopped, WaitInv
<1> QED
  BY <1>1, <1>2, <1>3, <1>4, <1>5, <1>6, <1>7 DEF Application, StateChange

LEMMA NextWaitInv == Shape /\ WaitInv /\ [Next]_vars => WaitInv'
<1>1. WaitInv /\ UNCHANGED vars => WaitInv'
  BY DEF vars, WaitInv, NothingCame
<1> QED
  BY <1>1, VideoWaitInv, TextWaitInv, ArrivalsWaitInv, ApplicationWaitInv DEF Next

\* Whatever comes while a thread waits, the thread is woken before the reason
\* for its wait is gone: no broadcast is missing, but those of an unlinked pad
\* and of the properties silent and wait-text.
THEOREM NobodyForgotten == Spec => []WaitsForAReason
<1>1. WaitInv => WaitsForAReason
  BY DEF WaitInv, NothingCame, WaitsForAReason, MustWait
<1> QED
  BY <1>1, InitWaitInv, NextWaitInv, ShapeHolds, PTL DEF Spec

-----------------------------------------------------------------------------
(* The text that was chosen is the one drawn.                              *)

\* What was drawn last is the clock's last text, or the text in the slot,
\* unless it has to be drawn again or is known to be another; and the picture
\* that is kept is what came of it.
PictureInv ==
  /\ overlay.text_linked => overlay.text_sinkpad
  /\ ~overlay.text_sinkpad =>
       /\ overlay.need_render \/ overlay.rendering.text = overlay.shown_clock
       /\ video.pc \in {"draw", "drawn", "push"} => video.text = overlay.shown_clock
  /\ video.pc = "drawn" => overlay.rendering.text = video.text
  /\ overlay.text_buffer # NoText /\ ~video.overtaken =>
       /\ overlay.need_render \/ overlay.rendering.text = Picture(overlay.text_buffer)
       /\ video.pc # "drawn"
  /\ video.pc \in {"check", "wait", "draw", "drawn"} => video.drawn = NoText
  /\ overlay.rendering.image = "picture" => overlay.composition = overlay.rendering.text
  /\ overlay.rendering.image = "line" => overlay.composition = NoText

LEMMA InitPictureInv == Init => PictureInv
<1> SUFFICES ASSUME Init PROVE PictureInv
  OBVIOUS
<1>1. PICK has_text, linked \in BOOLEAN :
        (linked => has_text) /\ overlay = NewOverlay(has_text, linked)
  BY DEF Init
<1>2. video.pc = "idle"
  BY DEF Init, NewVideo
<1>3. /\ overlay.text_linked => overlay.text_sinkpad
      /\ overlay.need_render /\ overlay.text_buffer = NoText
      /\ overlay.rendering.image = "picture"
      /\ overlay.composition = overlay.rendering.text
  BY <1>1 DEF NewOverlay
<1> QED
  BY <1>2, <1>3 DEF PictureInv

\* Steps that leave the slot and the pictures alone.
LEMMA PictureKept ==
  ASSUME PictureInv,
         UNCHANGED <<overlay.text_sinkpad, overlay.text_linked, overlay.composition,
                     overlay.rendering,
                     overlay.shown_clock, overlay.text_buffer,
                     video.text, video.overtaken, video.drawn>>,
         overlay.need_render => overlay'.need_render,
         video'.pc \in {"draw", "drawn", "push"} => video'.pc = video.pc,
         video'.pc \in {"check", "wait"} => video.pc \in {"check", "wait"}
  PROVE  PictureInv'
  BY DEF PictureInv, Picture

\* A broadcast changes nothing of the frame but where its thread is.
LEMMA WokenFrame ==
  ASSUME Shape
  PROVE  /\ WokenVideo(video).text = video.text
         /\ WokenVideo(video).overtaken = video.overtaken
         /\ WokenVideo(video).drawn = video.drawn
         /\ WokenVideo(video).pc = IF video.pc = "wait" THEN "check" ELSE video.pc
  BY DEF Shape, VideoFields, NewVideo, WokenVideo

\* A text that comes into the slot has to be drawn.
LEMMA PutPictureInv ==
  ASSUME Shape, PictureInv, NEW t, PutText(t)
  PROVE  PictureInv'
<1> USE DEF Shape, OverlayFields, VideoFields, NewOverlay, NewVideo
<1>1. /\ overlay'.need_render
      /\ UNCHANGED <<overlay.text_sinkpad, overlay.text_linked, overlay.composition,
                     overlay.rendering,
                     overlay.shown_clock>>
  BY DEF PutText
<1>2. /\ video'.overtaken = (video.pc \in {"draw", "drawn"})
      /\ UNCHANGED <<video.text, video.drawn>>
      /\ video'.pc = IF video.pc = "wait" THEN "check" ELSE video.pc
  BY WokenFrame DEF PutText, WokenVideo
<1>3. video'.pc = "drawn" => video'.overtaken
  BY <1>2
<1>4. video'.pc \in {"draw", "drawn", "push"} => video.pc = video'.pc
  BY <1>2
<1>5. video'.pc \in {"check", "wait", "draw", "drawn"} => video'.drawn = NoText
  BY <1>2 DEF PictureInv
<1> QED
  BY <1>1, <1>2, <1>3, <1>4, <1>5 DEF PictureInv

LEMMA VideoPictureInv == Shape /\ PictureInv /\ Video => PictureInv'
<1> SUFFICES ASSUME Shape, PictureInv, Video PROVE PictureInv'
  OBVIOUS
<1> USE DEF Shape, OverlayFields, VideoFields, NewOverlay, NewVideo
<1>1. CASE Refuse
  BY <1>1 DEF Refuse, Returns, PictureInv, Picture
<1>2. CASE Silent \/ TextInFuture \/ NoTextYet
  BY <1>2, PictureKept DEF Silent, TextInFuture, NoTextYet, Goes, Fits, Shows,
                           Queued, Checking
<1>3. CASE Unlinked
  <2>1. UNCHANGED <<overlay.text_sinkpad, overlay.text_linked, overlay.composition,
                     overlay.rendering,
                    overlay.text_buffer>>
    BY <1>3, UnlinkedStep
  <2>2. /\ video.pc = "check" /\ video'.pc \in {"bare", "draw"}
        /\ UNCHANGED <<video.overtaken, video.drawn>>
        /\ overlay.need_render => overlay'.need_render
        /\ ~overlay.text_sinkpad =>
             /\ video'.text = overlay'.shown_clock
             /\ overlay'.need_render \/ overlay'.shown_clock = overlay.shown_clock
    BY <1>3, UnlinkedStep
  <2> QED
    BY <2>1, <2>2 DEF PictureInv, Picture
<1>4. CASE Draw
  <2>1. CASE overlay.need_render
    <3>1. /\ video.pc = "draw" /\ video'.pc = "drawn"
          /\ video'.overtaken = (video.overtaken \/ overlay.text_buffer # NoText)
          /\ UNCHANGED <<video.text, video.drawn>>
      <4>1. video' = [video EXCEPT !.pc = "drawn",
                                   !.overtaken = @ \/ overlay.text_buffer # NoText]
        BY <1>4, <2>1 DEF Draw
      <4>2. video.pc = "draw"
        BY <1>4 DEF Draw
      <4> QED
        BY <4>1, <4>2
    <3>2. PICK image : overlay' =
            gst_base_text_overlay_render_pangocairo(overlay, video.text, image)
      BY <1>4, <2>1 DEF Draw
    <3>3. /\ overlay'.rendering.text = video.text /\ overlay'.need_render
          /\ overlay'.rendering.image = "picture" => overlay'.composition = video.text
          /\ overlay'.rendering.image = "line" => overlay'.composition = NoText
          /\ UNCHANGED <<overlay.text_sinkpad, overlay.text_linked,
                         overlay.shown_clock, overlay.text_buffer>>
      BY <2>1, <3>2, Drawing
    <3> QED
      BY <3>1, <3>3 DEF PictureInv
  <2>2. CASE ~overlay.need_render
    <3>1. video.pc = "draw" /\ video'.pc = "push" /\ overlay' = overlay
          /\ UNCHANGED <<video.text, video.overtaken, video.drawn>>
      BY <1>4, <2>2 DEF Draw, Goes
    <3> QED
      BY <3>1 DEF PictureInv, Picture
  <2> QED
    BY <2>1, <2>2
<1>5. CASE Drawn
  <2>1. /\ video.pc = "drawn" /\ video'.pc = "push" /\ ~overlay'.need_render
        /\ UNCHANGED <<overlay.text_sinkpad, overlay.text_linked, overlay.composition,
                     overlay.rendering,
                       overlay.shown_clock, overlay.text_buffer,
                       video.text, video.overtaken, video.drawn>>
    BY <1>5 DEF Drawn, Goes
  <2> QED
    BY <2>1 DEF PictureInv
<1>6. CASE DropOldText
  <2>1. /\ video' = video /\ overlay'.text_buffer = NoText
        /\ UNCHANGED <<overlay.text_sinkpad, overlay.text_linked, overlay.composition,
                     overlay.rendering,
                       overlay.shown_clock, overlay.need_render>>
    BY <1>6 DEF DropOldText
  <2> QED
    BY <2>1 DEF PictureInv
<1>7. CASE ShowText
  <2>1. /\ video'.pc = "push" /\ ~overlay'.need_render /\ overlay.text_linked
        /\ UNCHANGED <<overlay.text_sinkpad, overlay.text_linked, overlay.shown_clock,
                       overlay.text_buffer>>
        /\ video'.overtaken = (video.overtaken /\ ~overlay.need_render)
    BY <1>7, ShowTextDraws DEF Picture
  <2>2. IF overlay.need_render
        THEN /\ overlay'.rendering.text = Picture(overlay.text_buffer)
             /\ overlay'.rendering.image = "picture" =>
                  overlay'.composition = Picture(overlay.text_buffer)
             /\ overlay'.rendering.image = "line" => overlay'.composition = NoText
        ELSE UNCHANGED <<overlay.rendering, overlay.composition>>
    BY <1>7, ShowTextDraws
  <2> QED
    BY <2>1, <2>2 DEF PictureInv, Picture
<1>8. CASE PushBare
  BY <1>8, PictureKept DEF PushBare, PadPush
<1>9. CASE PushFrame
  <2>1. \A f \in OverlayFields \ {"attach", "caps", "accepted", "reconfigure"} :
          overlay'[f] = overlay[f]
    BY <1>9, NegotiateKeeps, NegotiateShape DEF PushFrame, PadPush
  <2>2. video.pc = "push" /\ video'.pc = "pushed"
        /\ UNCHANGED <<video.text, video.overtaken, video.drawn>>
    BY <1>9 DEF PushFrame, PadPush
  <2> QED
    BY <2>1, <2>2, PictureKept
<1>10. CASE Pushed
  <2>1. video'.pc = "idle" /\ video'.overtaken = video.overtaken
    BY <1>10 DEF Pushed, Returns
  <2>2. /\ overlay'.text_buffer \in {NoText, overlay.text_buffer}
        /\ UNCHANGED <<overlay.text_sinkpad, overlay.text_linked, overlay.composition,
                     overlay.rendering,
                       overlay.shown_clock, overlay.need_render>>
    BY <1>10 DEF Pushed
  <2> QED
    BY <2>1, <2>2 DEF PictureInv, Picture
<1> QED
  BY <1>1, <1>2, <1>3, <1>4, <1>5, <1>6, <1>7, <1>8, <1>9, <1>10 DEF Video

LEMMA TextPictureInv == Shape /\ PictureInv /\ Text => PictureInv'
<1> SUFFICES ASSUME Shape, PictureInv, Text PROVE PictureInv'
  OBVIOUS
<1> USE DEF Shape, OverlayFields, VideoFields, NewOverlay, NewVideo
<1>1. CASE TextWoken
  <2>1. CASE PutText(text.brings)
    BY <2>1, PutPictureInv
  <2>2. CASE UNCHANGED <<overlay, video>>
    BY <2>2 DEF PictureInv, Picture
  <2> QED
    BY <1>1, <2>1, <2>2 DEF TextWoken
<1>2. CASE CopySegment
  BY <1>2, PictureKept DEF CopySegment
<1>3. CASE Tell
  BY <1>3, PictureKept, WokenFrame DEF Tell
<1> QED
  BY <1>1, <1>2, <1>3 DEF Text

LEMMA ArrivalsPictureInv == Shape /\ PictureInv /\ Arrivals => PictureInv'
<1> SUFFICES ASSUME Shape, PictureInv, Arrivals PROVE PictureInv'
  OBVIOUS
<1> USE DEF Shape, OverlayFields, VideoFields, NewOverlay, NewVideo
<1>1. ASSUME NEW f \in Frames, VideoChain(f) PROVE PictureInv'
  <2>1. /\ overlay' = overlay /\ video'.pc = "check" /\ video'.drawn = NoText
        /\ video'.overtaken = video.overtaken
    BY <1>1 DEF VideoChain
  <2> QED
    BY <2>1 DEF PictureInv, Picture
<1>2. ASSUME NEW b \in Texts, TextChain(b) PROVE PictureInv'
  <2>1. CASE overlay.text_buffer = NoText
    <3>1. PICK t : PutText(t)
      BY <1>2, <2>1 DEF TextChain
    <3> QED
      BY <3>1, PutPictureInv
  <2>2. CASE overlay.text_buffer # NoText
    BY <1>2, <2>2 DEF TextChain, PictureInv, Picture
  <2> QED
    BY <2>1, <2>2
<1>3. ASSUME NEW c \in Caps, VideoCaps(c) PROVE PictureInv'
  <2> DEFINE sized == [overlay EXCEPT !.need_render = @ \/ c.size # overlay.size,
                                      !.size = c.size]
  <2>1. DOMAIN sized = OverlayFields
    OBVIOUS
  <2>2. \A f \in OverlayFields \ {"attach", "caps", "accepted", "reconfigure"} :
          overlay'[f] = sized[f]
    <3>1. overlay' = gst_base_text_overlay_negotiate(sized, c)
      BY <1>3 DEF VideoCaps
    <3> HIDE DEF sized, OverlayFields
    <3> QED
      BY <2>1, <3>1, NegotiateKeeps
  <2>3. UNCHANGED <<overlay.text_sinkpad, overlay.text_linked, overlay.composition,
                     overlay.rendering,
                    overlay.shown_clock, overlay.text_buffer>>
    <3>1. \A f \in OverlayFields \ {"need_render", "size"} : sized[f] = overlay[f]
      OBVIOUS
    <3>2. {"text_sinkpad", "text_linked", "composition", "rendering", "shown_clock",
             "text_buffer"}
            \subseteq OverlayFields \ {"need_render", "size", "attach", "caps",
                                       "accepted", "reconfigure"}
      OBVIOUS
    <3> HIDE DEF sized, OverlayFields
    <3> QED
      BY <2>2, <3>1, <3>2
  <2>4. overlay.need_render => overlay'.need_render
    <3>1. overlay'.need_render = sized.need_render
      BY <2>2
    <3> QED
      BY <3>1
  <2>5. video' = video
    BY <1>3 DEF VideoCaps
  <2> QED
    BY <2>3, <2>4, <2>5, PictureKept
<1>4. ASSUME NEW s, VideoSegment(s) \/ TextSegment(s) \/ Gap(s) PROVE PictureInv'
  BY <1>4, PictureKept DEF VideoSegment, TextSegment, Gap
<1>5. CASE VideoEos \/ VideoFlushStop \/ Reconfigure
  BY <1>5, PictureKept DEF VideoEos, VideoFlushStop, Reconfigure
<1>6. CASE VideoFlushStart \/ TextEos \/ TextFlushStart
  BY <1>6, PictureKept, WokenFrame DEF VideoFlushStart, TextEos, TextFlushStart,
                                       Broadcast
<1>7. CASE TextFlushStop
  BY <1>7, WokenFrame DEF TextFlushStop, Broadcast, PictureInv
<1> QED
  BY <1>1, <1>2, <1>3, <1>4, <1>5, <1>6, <1>7 DEF Arrivals

LEMMA ApplicationPictureInv ==
  Shape /\ PictureInv /\ (Application \/ StateChange) => PictureInv'
<1> SUFFICES ASSUME Shape, PictureInv, Application \/ StateChange PROVE PictureInv'
  OBVIOUS
<1> USE DEF Shape, OverlayFields, VideoFields, NewOverlay, NewVideo
<1>1. CASE TextPadLink \/ TextPadUnlink
  <2>1. /\ overlay'.text_linked => overlay.text_sinkpad
        /\ UNCHANGED <<overlay.text_sinkpad, overlay.composition, overlay.rendering, overlay.shown_clock,
                       overlay.text_buffer, overlay.need_render, video>>
    BY <1>1 DEF TextPadLink, TextPadUnlink
  <2> QED
    BY <2>1 DEF PictureInv, Picture
<1>2. CASE SetProperty
  BY <1>2, PictureKept DEF SetProperty
<1>3. CASE Stop
  BY <1>3, WokenFrame DEF Stop, Broadcast, PictureInv
<1>4. CASE Start
  BY <1>4, PictureKept DEF Start
<1>5. CASE Deactivate
  BY <1>5, PictureKept DEF Deactivate
<1>6. CASE Stopped
  BY <1>6, PictureKept DEF Stopped
<1> QED
  BY <1>1, <1>2, <1>3, <1>4, <1>5, <1>6 DEF Application, StateChange

LEMMA NextPictureInv == Shape /\ PictureInv /\ [Next]_vars => PictureInv'
<1>1. PictureInv /\ UNCHANGED vars => PictureInv'
  BY DEF vars, PictureInv, Picture
<1> QED
  BY <1>1, VideoPictureInv, TextPictureInv, ArrivalsPictureInv, ApplicationPictureInv
     DEF Next

\* What is not of the video thread only wakes it, or gives it a frame.
LEMMA OthersMoveVideo ==
  ASSUME Shape, Text \/ Arrivals \/ Application \/ StateChange \/ UNCHANGED vars
  PROVE  video'.pc = video.pc \/ video'.pc = "check"
<1>1. ASSUME NEW t, PutText(t) PROVE video'.pc = video.pc \/ video'.pc = "check"
  BY <1>1, WokenFrame DEF PutText, WokenVideo, Shape, VideoFields, NewVideo
<1>2. CASE Text
  <2>1. CASE TextWoken
    BY <1>1, <2>1 DEF TextWoken
  <2>2. CASE CopySegment \/ Tell
    BY <2>2, WokenFrame DEF CopySegment, Tell
  <2> QED
    BY <1>2, <2>1, <2>2 DEF Text
<1>3. CASE Arrivals
  <2>1. ASSUME NEW f \in Frames, VideoChain(f) PROVE video'.pc = "check"
    BY <2>1 DEF VideoChain, NewVideo
  <2>2. ASSUME NEW b \in Texts, TextChain(b)
        PROVE  video'.pc = video.pc \/ video'.pc = "check"
    BY <1>1, <2>2 DEF TextChain
  <2>3. ASSUME NEW s, VideoCaps(s) \/ VideoSegment(s) \/ TextSegment(s) \/ Gap(s)
        PROVE  video' = video
    BY <2>3 DEF VideoCaps, VideoSegment, TextSegment, Gap
  <2>4. CASE VideoEos \/ VideoFlushStop \/ Reconfigure
    BY <2>4 DEF VideoEos, VideoFlushStop, Reconfigure
  <2>5. CASE VideoFlushStart \/ TextEos \/ TextFlushStart \/ TextFlushStop
    BY <2>5, WokenFrame DEF VideoFlushStart, TextEos, TextFlushStart, TextFlushStop,
                            Broadcast
  <2> QED
    BY <1>3, <2>1, <2>2, <2>3, <2>4, <2>5 DEF Arrivals
<1>4. CASE Application \/ StateChange \/ UNCHANGED vars
  BY <1>4, WokenFrame DEF Application, StateChange, TextPadLink, TextPadUnlink,
        SetProperty, Stop, Start, Deactivate, Stopped, Broadcast, vars
<1> QED
  BY <1>2, <1>3, <1>4

\* The text chosen is the one drawn last, and the picture came of that.
DrawnLast ==
  /\ overlay'.rendering.text = video'.text
  /\ overlay'.rendering.image = "picture" => overlay'.composition = video'.text
  /\ overlay'.rendering.image = "line" => overlay'.composition = NoText

\* The only steps to the push are of a drawing, or of a text of the slot.
LEMMA PushesChosen ==
  ASSUME Shape, PictureInv, [Next]_vars, video.pc # "push", video'.pc = "push"
  PROVE  \/ DrawnLast
         \/ overlay.text_sinkpad /\ (video'.drawn = NoText \/ video.overtaken)
<1> USE DEF Shape, OverlayFields, VideoFields, NewOverlay, NewVideo
<1>1. PictureInv'
  BY NextPictureInv
<1>2. Draw \/ Drawn \/ ShowText
  <2>1. Video
    BY OthersMoveVideo DEF Next
  <2>2. /\ \A where : Goes(where) => video'.pc = where
        /\ Returns => video'.pc = "idle"
    BY DEF Goes, Returns
  <2>3. ~Refuse /\ ~Unlinked /\ ~DropOldText
    BY <2>2 DEF Refuse, Unlinked, DropOldText
  <2>4. ~Silent /\ ~TextInFuture /\ ~NoTextYet
    BY <2>2 DEF Silent, TextInFuture, NoTextYet
  <2>5. ~PushBare /\ ~PushFrame /\ ~Pushed
    BY <2>2 DEF PushBare, PushFrame, Pushed, PadPush
  <2> QED
    BY <2>1, <2>3, <2>4, <2>5 DEF Video
<1>3. CASE Draw
  <2>1. ~overlay.need_render
    <3>1. SUFFICES ASSUME overlay.need_render PROVE video'.pc = "drawn"
      OBVIOUS
    <3>2. video' = [video EXCEPT !.pc = "drawn",
                             !.overtaken = @ \/ overlay.text_buffer # NoText]
      BY <1>3, <3>1 DEF Draw
    <3> QED
      BY <3>2
  <2>2. video.pc = "draw" /\ Goes("push") /\ UNCHANGED overlay
    BY <1>3, <2>1 DEF Draw
  <2>3. UNCHANGED <<video.text, video.drawn>>
    BY <2>2 DEF Goes
  <2> QED
    BY <2>1, <2>2, <2>3 DEF PictureInv, DrawnLast
<1>4. CASE Drawn
  <2>1. video.pc = "drawn" /\ UNCHANGED <<overlay.composition, overlay.rendering, video.text>>
    BY <1>4 DEF Drawn, Goes
  <2> QED
    BY <2>1 DEF PictureInv, DrawnLast
<1>5. CASE ShowText
  BY <1>1, <1>5, ShowTextDraws DEF PictureInv, DrawnLast
<1> QED
  BY <1>2, <1>3, <1>4, <1>5

\* The text chosen for a frame is the one drawn last when the frame goes out, and
\* its picture goes out if the drawing made one, though the drawing is done
\* without the lock and the flag cleared after it.
THEOREM ChosenTextIsDrawn == Spec => ChosenIsDrawn
<1>1. Shape /\ PictureInv /\ [Next]_vars =>
        [video.pc # "push" /\ video'.pc = "push" =>
           \/ DrawnLast
           \/ overlay.text_sinkpad /\ (video'.drawn = NoText \/ video.overtaken)]_vars
  BY PushesChosen
<1> QED
  BY <1>1, InitPictureInv, NextPictureInv, ShapeHolds, PTL DEF Spec, ChosenIsDrawn, DrawnLast

-----------------------------------------------------------------------------
(* A picture goes out the way the caps say.                                *)

\* Unless a negotiation is asked for, the last one fits the caps of the video.
AgreedInv ==
  /\ video.pc # "idle" => sinkcaps # NoCaps
  /\ sinkcaps # NoCaps /\ ~overlay.reconfigure =>
       IF overlay.attach THEN overlay.caps = "feature"
       ELSE overlay.caps = "plain" /\ sinkcaps.handled

LEMMA InitAgreedInv == Init => AgreedInv
  BY DEF Init, AgreedInv, NewVideo

\* A negotiation that succeeds ends with the feature or with plain caps.
LEMMA NegotiateAgreed ==
  ASSUME NEW ov, NEW c, DOMAIN ov = OverlayFields,
         ~gst_base_text_overlay_negotiate(ov, c).reconfigure,
         gst_base_text_overlay_negotiate(ov, c).attach \/ c.handled
  PROVE  IF gst_base_text_overlay_negotiate(ov, c).attach
         THEN gst_base_text_overlay_negotiate(ov, c).caps = "feature"
         ELSE gst_base_text_overlay_negotiate(ov, c).caps = "plain"
  BY DEF gst_base_text_overlay_negotiate, OverlayFields, NewOverlay

\* One that succeeds without attaching is of a format the element can draw.
LEMMA NegotiateHandled ==
  ASSUME NEW ov, NEW c, DOMAIN ov = OverlayFields,
         ~gst_base_text_overlay_negotiate(ov, c).reconfigure
  PROVE  gst_base_text_overlay_negotiate(ov, c).attach \/ c.handled
  BY DEF gst_base_text_overlay_negotiate, OverlayFields, NewOverlay

\* Steps that leave the negotiation alone.
LEMMA AgreedKept ==
  ASSUME AgreedInv,
         UNCHANGED <<sinkcaps, overlay.attach, overlay.caps, overlay.reconfigure>>,
         video'.pc # "idle" => video.pc # "idle"
  PROVE  AgreedInv'
  BY DEF AgreedInv

LEMMA PutAgreedInv ==
  ASSUME Shape, AgreedInv, NEW t, PutText(t), sinkcaps' = sinkcaps
  PROVE  AgreedInv'
<1>1. UNCHANGED <<overlay.attach, overlay.caps, overlay.reconfigure>>
  BY DEF PutText, Shape, OverlayFields, NewOverlay
<1>2. video'.pc # "idle" => video.pc # "idle"
  BY WokenFrame DEF PutText, WokenVideo, Shape, VideoFields, NewVideo
<1> QED
  BY <1>1, <1>2, AgreedKept

LEMMA VideoAgreedInv == Shape /\ AgreedInv /\ Video => AgreedInv'
<1> SUFFICES ASSUME Shape, AgreedInv, Video PROVE AgreedInv'
  OBVIOUS
<1> USE DEF Shape, OverlayFields, VideoFields, NewOverlay, NewVideo
<1>1. CASE Refuse \/ Silent \/ TextInFuture \/ NoTextYet
  BY <1>1, AgreedKept DEF Refuse, Silent, TextInFuture, NoTextYet, Goes, Returns,
                          Fits, Shows, Queued, Checking
<1>2. CASE Unlinked
  <2>1. UNCHANGED <<overlay.attach, overlay.caps, overlay.reconfigure>>
    BY <1>2, UnlinkedStep
  <2>2. video.pc = "check" /\ sinkcaps' = sinkcaps
    BY <1>2, UnlinkedStep DEF Unlinked
  <2> QED
    BY <2>1, <2>2, AgreedKept
<1>3. CASE Draw \/ Drawn
  BY <1>3, DrawDoes, AgreedKept DEF Drawn, Goes
<1>4. CASE DropOldText \/ ShowText
  BY <1>4, ShowTextDraws, AgreedKept DEF DropOldText, ShowText, Queued, Shows, Fits, Checking
<1>5. CASE PushBare
  BY <1>5, AgreedKept DEF PushBare, PadPush
<1>6. CASE PushFrame
  <2> DEFINE done == IF overlay.reconfigure /\ overlay.composition # NoText
                     THEN gst_base_text_overlay_negotiate(overlay, sinkcaps)
                     ELSE overlay
  <2>1. /\ overlay'.attach = done.attach /\ overlay'.caps = done.caps
        /\ overlay'.reconfigure = done.reconfigure
    BY <1>6, NegotiateShape DEF PushFrame, PadPush
  <2>2. sinkcaps' = sinkcaps /\ video.pc = "push" /\ sinkcaps # NoCaps
    BY <1>6 DEF PushFrame, AgreedInv
  <2>3. ~done.reconfigure => IF done.attach THEN done.caps = "feature"
                             ELSE done.caps = "plain" /\ sinkcaps.handled
    <3>1. CASE done = overlay
      BY <2>2, <3>1 DEF AgreedInv
    <3>2. CASE done = gst_base_text_overlay_negotiate(overlay, sinkcaps)
      BY <3>2, NegotiateAgreed, NegotiateHandled
    <3> QED
      BY <3>1, <3>2
  <2> QED
    BY <2>1, <2>2, <2>3 DEF AgreedInv
<1>7. CASE Pushed
  BY <1>7, AgreedKept DEF Pushed, Returns
<1> QED
  BY <1>1, <1>2, <1>3, <1>4, <1>5, <1>6, <1>7 DEF Video

LEMMA ArrivalsAgreedInv == Shape /\ AgreedInv /\ Arrivals => AgreedInv'
<1> SUFFICES ASSUME Shape, AgreedInv, Arrivals PROVE AgreedInv'
  OBVIOUS
<1> USE DEF Shape, OverlayFields, VideoFields, NewOverlay, NewVideo
<1>1. ASSUME NEW f \in Frames, VideoChain(f) PROVE AgreedInv'
  BY <1>1 DEF VideoChain, AgreedInv
<1>2. ASSUME NEW b \in Texts, TextChain(b) PROVE AgreedInv'
  <2>1. CASE overlay.text_buffer = NoText
    <3>1. PICK t : PutText(t) /\ sinkcaps' = sinkcaps
      BY <1>2, <2>1 DEF TextChain
    <3> QED
      BY <3>1, PutAgreedInv
  <2>2. CASE overlay.text_buffer # NoText
    BY <1>2, <2>2, AgreedKept DEF TextChain
  <2> QED
    BY <2>1, <2>2
<1>3. ASSUME NEW c \in Caps, VideoCaps(c) PROVE AgreedInv'
  <2> DEFINE sized == [overlay EXCEPT !.need_render = @ \/ c.size # overlay.size,
                                      !.size = c.size]
             done == gst_base_text_overlay_negotiate(sized, c)
  <2>1. DOMAIN sized = OverlayFields
    OBVIOUS
  <2>2. /\ overlay' = done /\ video.pc = "idle" /\ video' = video
        /\ sinkcaps' = IF ~done.reconfigure /\ (done.attach \/ c.handled)
                       THEN c ELSE NoCaps
    BY <1>3 DEF VideoCaps
  <2>3. ~done.reconfigure => done.attach \/ c.handled
    <3> HIDE DEF sized, OverlayFields
    <3> QED
      BY <2>1, NegotiateHandled
  <2>4. ~done.reconfigure => IF done.attach THEN done.caps = "feature"
                             ELSE done.caps = "plain"
    <3> HIDE DEF sized, OverlayFields
    <3> QED
      BY <2>1, <2>3, NegotiateAgreed
  <2> HIDE DEF done
  <2> QED
    BY <2>2, <2>3, <2>4 DEF AgreedInv
<1>4. ASSUME NEW s, VideoSegment(s) \/ TextSegment(s) \/ Gap(s) PROVE AgreedInv'
  BY <1>4, AgreedKept DEF VideoSegment, TextSegment, Gap
<1>5. CASE VideoEos \/ VideoFlushStop
  BY <1>5, AgreedKept DEF VideoEos, VideoFlushStop
<1>6. CASE VideoFlushStart \/ TextEos
  BY <1>6, AgreedKept, WokenFrame DEF VideoFlushStart, TextEos, Broadcast
<1>7. CASE TextFlushStart \/ TextFlushStop
  BY <1>7, AgreedKept, WokenFrame DEF TextFlushStart, TextFlushStop, Broadcast
<1>8. CASE Reconfigure
  BY <1>8 DEF Reconfigure, AgreedInv
<1> QED
  BY <1>1, <1>2, <1>3, <1>4, <1>5, <1>6, <1>7, <1>8 DEF Arrivals

LEMMA OtherAgreedInv ==
  Shape /\ AgreedInv /\ (Text \/ Application \/ StateChange) => AgreedInv'
<1> SUFFICES ASSUME Shape, AgreedInv, Text \/ Application \/ StateChange
             PROVE  AgreedInv'
  OBVIOUS
<1> USE DEF Shape, OverlayFields, VideoFields, NewOverlay, NewVideo
<1>1. CASE Text
  <2>1. CASE TextWoken
    BY <2>1, PutAgreedInv, AgreedKept DEF TextWoken
  <2>2. CASE CopySegment \/ Tell
    BY <2>2, AgreedKept, WokenFrame DEF CopySegment, Tell
  <2> QED
    BY <1>1, <2>1, <2>2 DEF Text
<1>2. CASE TextPadLink \/ TextPadUnlink
  BY <1>2, AgreedKept DEF TextPadLink, TextPadUnlink
<1>3. CASE SetProperty
  BY <1>3, AgreedKept DEF SetProperty
<1>4. CASE Stop \/ Deactivate
  BY <1>4, AgreedKept, WokenFrame DEF Stop, Deactivate, Broadcast
<1>5. CASE Stopped
  BY <1>5 DEF Stopped, AgreedInv
<1>6. CASE Start
  BY <1>6, AgreedKept DEF Start
<1> QED
  BY <1>1, <1>2, <1>3, <1>4, <1>5, <1>6 DEF Application, StateChange

LEMMA NextAgreedInv == Shape /\ AgreedInv /\ [Next]_vars => AgreedInv'
<1>1. AgreedInv /\ UNCHANGED vars => AgreedInv'
  BY DEF vars, AgreedInv
<1> QED
  BY <1>1, VideoAgreedInv, ArrivalsAgreedInv, OtherAgreedInv DEF Next

LEMMA PushAgreed ==
  ASSUME Shape, AgreedInv, [Next]_vars, video.pc = "push", video'.pc = "pushed"
  PROVE  /\ video'.sent = "attached" => overlay'.caps = "feature" /\ overlay'.accepted
         /\ video'.sent = "blended" => overlay'.caps = "plain" /\ sinkcaps.handled
<1> USE DEF Shape, OverlayFields, VideoFields, NewOverlay, NewVideo
<1>1. PushFrame
  <2>1. Video
    BY OthersMoveVideo DEF Next
  <2>2. CASE Video
    BY <2>2 DEF Video, Refuse, Silent, Unlinked, Draw, Drawn, DropOldText,
          TextInFuture, ShowText, NoTextYet, PushBare, Pushed, Queued, Shows, Fits,
          Checking
  <2> QED
    BY <2>1, <2>2
<1>2. AgreedInv'
  BY NextAgreedInv
<1>3. sinkcaps' = sinkcaps /\ sinkcaps # NoCaps
  BY <1>1 DEF PushFrame, AgreedInv
<1> DEFINE asked == overlay.reconfigure /\ overlay.composition # NoText
           done == IF asked THEN gst_base_text_overlay_negotiate(overlay, sinkcaps)
                   ELSE overlay
<1>4. CASE asked /\ done.reconfigure
  BY <1>1, <1>4 DEF PushFrame
<1>5. CASE ~(asked /\ done.reconfigure)
  <2>1. PadPush(done, IF done.composition = NoText THEN "bare"
                      ELSE IF done.attach THEN "attached" ELSE "blended")
    BY <1>1, <1>5 DEF PushFrame
  <2>2. DOMAIN done = OverlayFields /\ done.composition = overlay.composition
    BY NegotiateShape, NegotiateKeeps
  <2> HIDE DEF done
  <2>3. /\ overlay'.attach = done.attach /\ overlay'.caps = done.caps
        /\ overlay'.reconfigure = done.reconfigure
    BY <2>1, <2>2 DEF PadPush
  <2> DEFINE how == IF done.composition = NoText THEN "bare"
                    ELSE IF done.attach THEN "attached" ELSE "blended"
  <2>4. /\ how = "attached" => done.composition # NoText /\ done.attach
        /\ how = "blended" => done.composition # NoText /\ ~done.attach
    OBVIOUS
  <2> HIDE DEF how
  <2>5. PadPush(done, how)
    BY <2>1 DEF how
  <2>6. video'.sent \in {"attached", "blended"} => video'.sent = how /\ overlay'.accepted
    BY <2>2, <2>5 DEF PadPush
  <2>7. done.composition # NoText => ~done.reconfigure
    BY <1>5, <2>2 DEF done
  <2> QED
    BY <1>2, <1>3, <2>3, <2>4, <2>6, <2>7 DEF AgreedInv
<1> QED
  BY <1>4, <1>5

\* Whatever downstream changes, and whenever, a picture is attached only under
\* caps that announce it and that were taken, and painted in only under plain
\* caps of a format the element can draw.
THEOREM SentAsAnnounced == Spec => AttachedAsAnnounced
<1>1. Shape /\ AgreedInv /\ [Next]_vars =>
        [video.pc = "push" /\ video'.pc = "pushed" =>
           /\ video'.sent = "attached" => overlay'.caps = "feature" /\ overlay'.accepted
           /\ video'.sent = "blended" => overlay'.caps = "plain" /\ sinkcaps.handled]_vars
  BY PushAgreed
<1> QED
  BY <1>1, InitAgreedInv, NextAgreedInv, ShapeHolds, PTL DEF Spec, AttachedAsAnnounced

-----------------------------------------------------------------------------
(* A text is drawn into the frames it overlaps, and no others.             *)

TimesOf(s) ==
  s \in [defined : BOOLEAN, start : Nat, stop : 0..NONE, base : Nat, position : Int]

TimesOfText(t) == t.start \in Int /\ t.dur \in Int

\* The running time of a text is its time, in every segment of the stream.
AllContinue == \A s \in TextSegments : s.base = s.start

TimesInv ==
  /\ TimesOf(overlay.segment) /\ TimesOf(overlay.text_segment)
  /\ overlay.text_segment.base = overlay.text_segment.start
  /\ overlay.text_buffer = NoText \/ TimesOfText(overlay.text_buffer)
  /\ text.pc \in {"wait", "woken"} => TimesOfText(text.brings)
  /\ text.pc = "copy" => text.brings \in TextSegments
  /\ video.start \in Int /\ video.stop \in Int
  /\ video.clip_start \in Int /\ video.clip_stop \in Int

\* A text that is to leave the slot has ended by the end of the frame in hand,
\* however the segment of the text has changed since this was found; and the
\* segment of the frame in hand does not change.
SlotInv ==
  /\ app = "ready" => video.pc = "idle"
  /\ video.pc # "idle" => video.clip_stop = Least(video.stop, overlay.segment.stop)
  /\ video.pc = "idle" => ~video.pop
  /\ video.pop /\ Stamped(video.drawn) =>
       LET to == FrameEnd(overlay, video) IN
       video.drawn.start + video.drawn.dur =< to \/ NONE =< to

LEMMA RunningInt ==
  ASSUME NEW s, TimesOf(s), NEW t \in Int
  PROVE  Running(s, t) \in Int
  BY OverlayAssumption DEF Running, TimesOf

LEMMA RunningText ==
  ASSUME NEW s, TimesOf(s), s.base = s.start, NEW t \in Int
  PROVE  Running(s, t) = NONE \/ (Running(s, t) = t /\ t =< NONE)
  BY OverlayAssumption DEF Running, TimesOf

LEMMA NewSegmentTimes ==
  ASSUME NEW defined \in BOOLEAN
  PROVE  TimesOf(NewSegment(defined)) /\ NewSegment(defined).base = NewSegment(defined).start
  BY OverlayAssumption DEF NewSegment, TimesOf

LEMMA InitTimes == Init => TimesInv /\ SlotInv
<1> SUFFICES ASSUME Init PROVE TimesInv /\ SlotInv
  OBVIOUS
<1>1. PICK has_text, linked \in BOOLEAN : overlay = NewOverlay(has_text, linked)
  BY DEF Init
<1>2. /\ overlay.segment = NewSegment(TRUE) /\ overlay.text_segment = NewSegment(TRUE)
      /\ overlay.text_buffer = NoText
  BY <1>1 DEF NewOverlay
<1>3. video = NewVideo /\ text = NewTextThread /\ app = "paused"
  BY DEF Init
<1>4. TimesInv
  <2>1. /\ TimesOf(overlay.segment) /\ TimesOf(overlay.text_segment)
        /\ overlay.text_segment.base = overlay.text_segment.start
    BY <1>2, NewSegmentTimes
  <2>2. /\ video.start \in Int /\ video.stop \in Int
        /\ video.clip_start \in Int /\ video.clip_stop \in Int
    BY <1>3 DEF NewVideo
  <2>3. text.pc = "idle"
    BY <1>3 DEF NewTextThread
  <2> QED
    BY <1>2, <2>1, <2>2, <2>3 DEF TimesInv
<1>5. SlotInv
  BY <1>3 DEF SlotInv, NewVideo
<1> QED
  BY <1>4, <1>5

\* Steps that take no time from anywhere.
LEMMA TimesKept ==
  ASSUME TimesInv,
         UNCHANGED <<overlay.segment, overlay.text_segment,
                     video.start, video.stop, video.clip_start, video.clip_stop>>,
         overlay'.text_buffer \in {NoText, overlay.text_buffer},
         text'.pc \in {"wait", "woken", "copy"} =>
           /\ text'.brings = text.brings
           /\ text'.pc = text.pc \/ (text'.pc \in {"wait", "woken"} /\ text.pc \in {"wait", "woken"})
  PROVE  TimesInv'
  BY DEF TimesInv, TimesOf, TimesOfText

\* Steps that leave the decision about the text alone, or make none.
LEMMA SlotKept ==
  ASSUME SlotInv,
         app' = "ready" => video'.pc = "idle",
         video'.pc # "idle" =>
           video.pc # "idle" /\ UNCHANGED <<video.clip_stop, video.stop, overlay.segment>>,
         video'.pc = "idle" => ~video'.pop,
         video'.pop => video.pop /\ UNCHANGED <<overlay.segment, video.stop, video.drawn>>
  PROVE  SlotInv'
  BY DEF SlotInv, FrameEnd, Stamped, Running

\* A broadcast wakes, and leaves the rest of the two threads.
LEMMA WokenTimes ==
  ASSUME Shape
  PROVE  /\ \A f \in VideoFields \ {"pc"} : WokenVideo(video)[f] = video[f]
         /\ WokenVideo(video).pc = IF video.pc = "wait" THEN "check" ELSE video.pc
         /\ WokenText(text).brings = text.brings
         /\ WokenText(text).pc = IF text.pc = "wait" THEN "woken" ELSE text.pc
  BY DEF Shape, VideoFields, TextFields, NewVideo, NewTextThread, WokenVideo, WokenText

LEMMA WokenKeeps ==
  ASSUME Shape, TimesInv, SlotInv, Broadcast,
         overlay'.text_buffer \in {NoText, overlay.text_buffer},
         UNCHANGED <<overlay.segment, overlay.text_segment>>, app' = "ready" => app = "ready"
  PROVE  TimesInv' /\ SlotInv'
<1>1. /\ \A f \in VideoFields \ {"pc"} : video'[f] = video[f]
      /\ video'.pc = IF video.pc = "wait" THEN "check" ELSE video.pc
      /\ text'.brings = text.brings
      /\ text'.pc = IF text.pc = "wait" THEN "woken" ELSE text.pc
  BY WokenTimes DEF Broadcast
<1>2. UNCHANGED <<video.start, video.stop, video.clip_start, video.clip_stop,
                  video.pop, video.drawn>>
  <2>1. {"start", "stop", "clip_start", "clip_stop", "pop", "drawn"} \subseteq VideoFields \ {"pc"}
    BY DEF VideoFields, NewVideo
  <2> QED
    BY <1>1, <2>1
<1>3. TimesInv'
  BY <1>1, <1>2, TimesKept
<1>4. SlotInv'
  BY <1>1, <1>2, SlotKept DEF SlotInv
<1> QED
  BY <1>3, <1>4

\* A text comes into the slot.
LEMMA PutKeeps ==
  ASSUME Shape, TimesInv, SlotInv, NEW t, PutText(t), TimesOfText(t), app' = app
  PROVE  TimesInv' /\ SlotInv'
<1>1. /\ UNCHANGED overlay.segment /\ overlay'.text_buffer = t
      /\ overlay'.text_segment = [overlay.text_segment EXCEPT
           !.position = IF t.start # NONE THEN t.start ELSE @]
  BY DEF PutText, Shape, OverlayFields, NewOverlay
<1>2. TimesOf(overlay.text_segment) /\ overlay.text_segment.base = overlay.text_segment.start
  BY DEF TimesInv
<1>3. TimesOf(overlay'.text_segment) /\ overlay'.text_segment.base = overlay'.text_segment.start
  BY <1>1, <1>2 DEF TimesOf, TimesOfText
<1>4. video' = [WokenVideo(video) EXCEPT !.overtaken = video.pc \in {"draw", "drawn"}]
  BY DEF PutText
<1>5. /\ UNCHANGED <<video.start, video.stop, video.clip_start, video.clip_stop,
                     video.pop, video.drawn>>
      /\ video'.pc = IF video.pc = "wait" THEN "check" ELSE video.pc
  BY <1>4 DEF WokenVideo, Shape, VideoFields, NewVideo
<1>6. text'.pc = "idle"
  BY DEF PutText, NewTextThread
<1>7. TimesInv'
  BY <1>1, <1>3, <1>5, <1>6 DEF TimesInv
<1>8. SlotInv'
  BY <1>1, <1>5, SlotKept DEF SlotInv
<1> QED
  BY <1>7, <1>8

LEMMA ShowTextDecides ==
  ASSUME Shape, TimesInv, SlotInv, ShowText
  PROVE  TimesInv' /\ SlotInv'
<1> DEFINE t == overlay.text_buffer
<1>1. /\ t # NoText /\ UNCHANGED <<app, text, overlay.segment, overlay.text_segment, t>>
      /\ video'.pc = "push" /\ video'.drawn = t /\ video'.pop = NotNeeded(overlay, video, t)
      /\ UNCHANGED <<video.start, video.stop, video.clip_start, video.clip_stop>>
      /\ video.pc # "idle"
  BY ShowTextDraws DEF ShowText, Queued, Shows, Fits, Checking, Shape, OverlayFields,
                       NewOverlay, VideoFields, NewVideo
<1>2. TimesInv'
  BY <1>1, TimesKept
<1>3. ASSUME video'.pop, Stamped(t)
      PROVE  LET to == FrameEnd(overlay, video) IN t.start + t.dur =< to \/ NONE =< to
  <2>1. TextEnd(overlay, t) =< FrameEnd(overlay, video)
    BY <1>1, <1>3 DEF NotNeeded
  <2>2. t.start + t.dur \in Int /\ FrameEnd(overlay, video) \in Int
    BY <1>1, RunningInt DEF TimesInv, TimesOfText, FrameEnd
  <2>3. TextEnd(overlay, t) \in {NONE, t.start + t.dur}
    BY <2>2, RunningText DEF TimesInv, TextEnd
  <2> QED
    BY <2>1, <2>3
<1>4. FrameEnd(overlay', video') = FrameEnd(overlay, video)
  BY <1>1 DEF FrameEnd, Running
<1>5. app' = "ready" => FALSE
  BY <1>1 DEF SlotInv
<1> QED
  BY <1>1, <1>2, <1>3, <1>4, <1>5 DEF SlotInv

LEMMA VideoTimes == Shape /\ TimesInv /\ SlotInv /\ Video => TimesInv' /\ SlotInv'
<1> SUFFICES ASSUME Shape, TimesInv, SlotInv, Video PROVE TimesInv' /\ SlotInv'
  OBVIOUS
<1> USE DEF Shape, OverlayFields, VideoFields, NewOverlay, NewVideo
<1>1. CASE ShowText
  BY <1>1, ShowTextDecides
<1>2. CASE Refuse \/ Pushed
  <2>1. /\ video'.pc = "idle" /\ ~video'.pop /\ UNCHANGED app
        /\ video'.start = 0 /\ video'.stop = 0 /\ video'.clip_start = 0 /\ video'.clip_stop = 0
    BY <1>2 DEF Refuse, Pushed, Returns
  <2>2. /\ UNCHANGED <<overlay.segment, overlay.text_segment>>
        /\ overlay'.text_buffer \in {NoText, overlay.text_buffer}
    BY <1>2 DEF Refuse, Pushed
  <2>3. text' = text \/ text' = WokenText(text)
    BY <1>2 DEF Refuse, Pushed
  <2>4. text'.brings = text.brings /\ text'.pc \in {text.pc, IF text.pc = "wait" THEN "woken" ELSE text.pc}
    BY <2>3, WokenTimes
  <2>5. TimesInv'
    BY <2>1, <2>2, <2>4 DEF TimesInv
  <2>6. SlotInv'
    BY <2>1, SlotKept
  <2> QED
    BY <2>5, <2>6
<1>3. CASE Unlinked
  <2>1. /\ video.pc = "check" /\ video'.pc \in {"bare", "draw"} /\ UNCHANGED <<app, text>>
        /\ UNCHANGED <<overlay.segment, overlay.text_segment, overlay.text_buffer>>
    BY <1>3, UnlinkedStep
  <2>2. UNCHANGED <<video.start, video.stop, video.clip_start, video.clip_stop,
                    video.pop, video.drawn>>
    BY <1>3 DEF Unlinked
  <2>3. TimesInv'
    BY <2>1, <2>2, TimesKept
  <2>4. SlotInv'
    BY <2>1, <2>2, SlotKept DEF SlotInv
  <2> QED
    BY <2>3, <2>4
<1>4. CASE DropOldText
  <2>1. /\ UNCHANGED <<app, video, overlay.segment, overlay.text_segment>>
        /\ overlay'.text_buffer = NoText /\ text' = WokenText(text)
    BY <1>4 DEF DropOldText
  <2>2. text'.brings = text.brings /\ text'.pc = IF text.pc = "wait" THEN "woken" ELSE text.pc
    BY <2>1, WokenTimes
  <2>3. TimesInv'
    BY <2>1, <2>2, TimesKept
  <2>4. SlotInv'
    BY <2>1, SlotKept DEF SlotInv
  <2> QED
    BY <2>3, <2>4
<1>5. CASE Silent \/ Draw \/ Drawn \/ TextInFuture \/ NoTextYet \/ PushBare \/ PushFrame
  <2>1. /\ UNCHANGED <<video.start, video.stop, video.clip_start, video.clip_stop,
                       video.pop, video.drawn>>
        /\ video.pc # "idle" /\ video'.pc # "idle" /\ UNCHANGED <<app, text>>
    <3>1. CASE Silent \/ TextInFuture \/ NoTextYet
      BY <3>1 DEF Silent, TextInFuture, NoTextYet, Goes, Queued, Shows, Fits, Checking
    <3>2. CASE Draw
      BY <3>2 DEF Draw, Goes
    <3>3. CASE Drawn
      BY <3>3 DEF Drawn, Goes
    <3>4. CASE PushBare
      BY <3>4 DEF PushBare, PadPush
    <3>5. CASE PushFrame
      <4>1. PICK how : video' = [video EXCEPT !.pc = "pushed", !.sent = how]
        BY <3>5, Zenon DEF PushFrame, PadPush
      <4>2. video.pc = "push" /\ UNCHANGED <<app, text>>
        BY <3>5 DEF PushFrame
      <4> QED
        BY <4>1, <4>2
    <3> QED
      BY <1>5, <3>1, <3>2, <3>3, <3>4, <3>5
  <2>3. UNCHANGED <<overlay.segment, overlay.text_segment, overlay.text_buffer>>
    <3>1. CASE PushFrame
      <4>1. \A f \in OverlayFields \ {"attach", "caps", "accepted", "reconfigure"} :
              overlay'[f] = overlay[f]
        BY <3>1, NegotiateKeeps, NegotiateShape DEF PushFrame, PadPush
      <4> QED
        BY <4>1
    <3>2. CASE Draw
      BY <3>2, DrawDoes
    <3> QED
      BY <1>5, <3>1, <3>2 DEF Silent, Drawn, TextInFuture, NoTextYet, PushBare, PadPush
  <2>4. TimesInv'
    BY <2>1, <2>3, TimesKept
  <2>5. SlotInv'
    BY <2>1, <2>3, SlotKept DEF SlotInv
  <2> QED
    BY <2>4, <2>5
<1> QED
  BY <1>1, <1>2, <1>3, <1>4, <1>5 DEF Video

LEMMA TextTimes ==
  ASSUME AllContinue
  PROVE  Shape /\ TimesInv /\ SlotInv /\ Text => TimesInv' /\ SlotInv'
<1> SUFFICES ASSUME Shape, TimesInv, SlotInv, Text PROVE TimesInv' /\ SlotInv'
  OBVIOUS
<1> USE DEF Shape, OverlayFields, VideoFields, TextFields, NewOverlay, NewVideo, NewTextThread
<1>1. CASE TextWoken
  <2>1. CASE PutText(text.brings)
    BY <1>1, <2>1, PutKeeps DEF TextWoken, TimesInv
  <2>2. CASE UNCHANGED <<overlay, video>>
    <3>1. /\ app' = app
          /\ text'.pc \in {"wait", "woken", "copy"} =>
               text'.brings = text.brings /\ text'.pc = "wait" /\ text.pc = "woken"
      BY <1>1, <2>2 DEF TextWoken, PutText
    <3>2. TimesInv'
      BY <2>2, <3>1, TimesKept
    <3>3. SlotInv'
      BY <2>2, <3>1, SlotKept DEF SlotInv
    <3> QED
      BY <3>2, <3>3
  <2> QED
    BY <1>1, <2>1, <2>2 DEF TextWoken
<1>2. CASE CopySegment
  <2>1. /\ UNCHANGED <<app, video, overlay.segment, overlay.text_buffer>>
        /\ overlay'.text_segment \in TextSegments /\ text'.pc = "tell"
    BY <1>2 DEF CopySegment, TimesInv
  <2>2. TimesOf(overlay'.text_segment) /\ overlay'.text_segment.base = overlay'.text_segment.start
    BY <2>1, OverlayAssumption DEF AllContinue, TimesOf
  <2>3. TimesInv'
    BY <2>1, <2>2 DEF TimesInv
  <2>4. SlotInv'
    BY <2>1, SlotKept DEF SlotInv
  <2> QED
    BY <2>3, <2>4
<1>3. CASE Tell
  <2>1. /\ video' = WokenVideo(video) /\ UNCHANGED <<app, overlay>> /\ text'.pc = "idle"
    BY <1>3 DEF Tell
  <2>2. /\ UNCHANGED <<video.start, video.stop, video.clip_start, video.clip_stop,
                       video.pop, video.drawn>>
        /\ video'.pc = IF video.pc = "wait" THEN "check" ELSE video.pc
    BY <2>1 DEF WokenVideo
  <2>3. TimesInv'
    BY <2>1, <2>2, TimesKept
  <2>4. SlotInv'
    BY <2>1, <2>2, SlotKept DEF SlotInv
  <2> QED
    BY <2>3, <2>4
<1> QED
  BY <1>1, <1>2, <1>3 DEF Text

LEMMA ClippedTimes ==
  ASSUME NEW b \in Texts, NEW name, NEW s, TimesOf(s)
  PROVE  TimesOfText(Clipped([start |-> b.start, dur |-> b.dur, name |-> name], s))
<1> DEFINE t == [start |-> b.start, dur |-> b.dur, name |-> name]
           start == IF t.start = NONE THEN NONE ELSE Greatest(t.start, s.start)
           dur == IF t.dur = NONE \/ t.start = NONE THEN t.dur
                  ELSE Least(t.start + t.dur, s.stop) - start
<1>1. b.start \in Int /\ b.dur \in Int /\ NONE \in Int /\ s.start \in Int /\ s.stop \in Int
  BY OverlayAssumption DEF TimesOf
<1>2. start \in Int /\ dur \in Int
  BY <1>1 DEF Greatest, Least
<1>3. Clipped(t, s).start = start /\ Clipped(t, s).dur = dur
  BY DEF Clipped
<1> HIDE DEF start, dur
<1> QED
  BY <1>2, <1>3 DEF TimesOfText

LEMMA FrameKeeps ==
  ASSUME Shape, TimesInv, SlotInv, NEW f \in Frames, VideoChain(f)
  PROVE  TimesInv' /\ SlotInv'
<1> DEFINE s == overlay.segment
           end == End(f.start, f.dur)
           stop == IF end = NONE THEN f.start + Period ELSE end
<1>1. /\ UNCHANGED <<app, overlay, text>> /\ app # "ready"
      /\ video' = [NewVideo EXCEPT !.pc = "check", !.start = f.start, !.stop = stop,
                                   !.clip_start = Greatest(f.start, s.start),
                                   !.clip_stop = Least(stop, s.stop),
                                   !.overtaken = video.overtaken]
  BY DEF VideoChain, Active
<1>2. f.start \in Int /\ f.dur \in Int /\ NONE \in Int /\ Period \in Int
  BY OverlayAssumption
<1>3. s.start \in Int /\ s.stop \in Int
  BY <1>2 DEF TimesInv, TimesOf
<1>4. stop \in Int
  BY <1>2 DEF End
<1>5. Greatest(f.start, s.start) \in Int /\ Least(stop, s.stop) \in Int
  BY <1>2, <1>3, <1>4 DEF Greatest, Least
<1> HIDE DEF stop, s
<1>6. /\ video'.start = f.start /\ video'.stop = stop
      /\ video'.clip_start = Greatest(f.start, s.start) /\ video'.clip_stop = Least(stop, s.stop)
      /\ video'.pc = "check" /\ ~video'.pop
  BY <1>1 DEF NewVideo
<1>7. TimesInv'
  BY <1>1, <1>2, <1>4, <1>5, <1>6 DEF TimesInv
<1>8. SlotInv'
  BY <1>1, <1>6 DEF SlotInv, s
<1> QED
  BY <1>7, <1>8

LEMMA ArrivalsTimes ==
  Shape /\ TimesInv /\ SlotInv /\ Arrivals => TimesInv' /\ SlotInv'
<1> SUFFICES ASSUME Shape, TimesInv, SlotInv, Arrivals PROVE TimesInv' /\ SlotInv'
  OBVIOUS
<1> USE DEF Shape, OverlayFields, VideoFields, TextFields, NewOverlay, NewVideo, NewTextThread
<1>1. ASSUME NEW f \in Frames, VideoChain(f) PROVE TimesInv' /\ SlotInv'
  BY <1>1, FrameKeeps
<1>2. ASSUME NEW b \in Texts, TextChain(b) PROVE TimesInv' /\ SlotInv'
  <2> DEFINE t == Clipped([start |-> b.start, dur |-> b.dur, name |-> spent.texts],
                          overlay.text_segment)
  <2>1. TimesOfText(t)
    BY ClippedTimes DEF TimesInv
  <2>2. app' = app /\ (PutText(t) \/ (text' = [pc |-> "wait", brings |-> t] /\ UNCHANGED <<overlay, video>>))
    BY <1>2 DEF TextChain
  <2> HIDE DEF t
  <2>3. CASE PutText(t)
    BY <2>1, <2>2, <2>3, PutKeeps
  <2>4. CASE text' = [pc |-> "wait", brings |-> t] /\ UNCHANGED <<overlay, video>>
    <3>1. TimesInv'
      BY <2>1, <2>4 DEF TimesInv
    <3>2. SlotInv'
      BY <2>2, <2>4, SlotKept DEF SlotInv
    <3> QED
      BY <3>1, <3>2
  <2> QED
    BY <2>2, <2>3, <2>4
<1>3. ASSUME NEW c \in Caps, VideoCaps(c) PROVE TimesInv' /\ SlotInv'
  <2> DEFINE sized == [overlay EXCEPT !.need_render = @ \/ c.size # overlay.size,
                                      !.size = c.size]
  <2>1. DOMAIN sized = OverlayFields
    OBVIOUS
  <2>2. \A f \in OverlayFields \ {"attach", "caps", "accepted", "reconfigure"} :
          overlay'[f] = sized[f]
    <3>1. overlay' = gst_base_text_overlay_negotiate(sized, c)
      BY <1>3 DEF VideoCaps
    <3> HIDE DEF sized, OverlayFields
    <3> QED
      BY <2>1, <3>1, NegotiateKeeps
  <2>3. UNCHANGED <<overlay.segment, overlay.text_segment, overlay.text_buffer>>
    <3>1. \A f \in OverlayFields \ {"need_render", "size"} : sized[f] = overlay[f]
      OBVIOUS
    <3>2. {"segment", "text_segment", "text_buffer"}
            \subseteq OverlayFields \ {"need_render", "size", "attach", "caps",
                                       "accepted", "reconfigure"}
      OBVIOUS
    <3> HIDE DEF sized, OverlayFields
    <3> QED
      BY <2>2, <3>1, <3>2
  <2>4. UNCHANGED <<app, video, text>>
    BY <1>3 DEF VideoCaps
  <2>5. TimesInv'
    BY <2>3, <2>4, TimesKept
  <2>6. SlotInv'
    BY <2>3, <2>4, SlotKept DEF SlotInv
  <2> QED
    BY <2>5, <2>6
<1>4. ASSUME NEW s \in Segments, VideoSegment(s) PROVE TimesInv' /\ SlotInv'
  <2>1. /\ UNCHANGED <<app, video, text, overlay.text_segment, overlay.text_buffer>>
        /\ overlay'.segment = s /\ video.pc = "idle"
    BY <1>4 DEF VideoSegment, VideoIdle
  <2>2. TimesOf(s)
    BY OverlayAssumption DEF TimesOf
  <2>3. TimesInv'
    BY <2>1, <2>2 DEF TimesInv
  <2>4. SlotInv'
    BY <2>1, SlotKept DEF SlotInv
  <2> QED
    BY <2>3, <2>4
<1>5. CASE VideoFlushStop
  <2>1. /\ UNCHANGED <<app, video, text, overlay.text_segment, overlay.text_buffer>>
        /\ overlay'.segment = NewSegment(TRUE) /\ video.pc = "idle"
    BY <1>5 DEF VideoFlushStop
  <2>2. TimesInv'
    BY <2>1, NewSegmentTimes DEF TimesInv
  <2>3. SlotInv'
    BY <2>1, SlotKept DEF SlotInv
  <2> QED
    BY <2>2, <2>3
<1>6. ASSUME NEW s \in TextSegments, TextSegment(s) PROVE TimesInv' /\ SlotInv'
  <2>1. /\ UNCHANGED <<app, video, overlay.segment, overlay.text_segment, overlay.text_buffer>>
        /\ text'.pc = "copy" /\ text'.brings \in TextSegments
    BY <1>6 DEF TextSegment
  <2>2. TimesInv'
    BY <2>1 DEF TimesInv
  <2>3. SlotInv'
    BY <2>1, SlotKept DEF SlotInv
  <2> QED
    BY <2>2, <2>3
<1>7. ASSUME NEW end \in Gaps, Gap(end) PROVE TimesInv' /\ SlotInv'
  <2>1. /\ UNCHANGED <<app, video, overlay.segment, overlay.text_buffer>>
        /\ overlay'.text_segment = [overlay.text_segment EXCEPT !.position = end]
        /\ text'.pc = "tell"
    BY <1>7 DEF Gap
  <2>2. TimesOf(overlay.text_segment) /\ overlay.text_segment.base = overlay.text_segment.start
    BY DEF TimesInv
  <2>3. TimesOf(overlay'.text_segment) /\ overlay'.text_segment.base = overlay'.text_segment.start
    BY <2>1, <2>2, OverlayAssumption DEF TimesOf
  <2>4. TimesInv'
    BY <2>1, <2>3 DEF TimesInv
  <2>5. SlotInv'
    BY <2>1, SlotKept DEF SlotInv
  <2> QED
    BY <2>4, <2>5
<1>8. CASE VideoEos \/ Reconfigure
  <2>1. UNCHANGED <<app, video, text, overlay.segment, overlay.text_segment, overlay.text_buffer>>
    BY <1>8 DEF VideoEos, Reconfigure
  <2>2. TimesInv'
    BY <2>1, TimesKept
  <2>3. SlotInv'
    BY <2>1, SlotKept DEF SlotInv
  <2> QED
    BY <2>2, <2>3
<1>9. CASE VideoFlushStart \/ TextEos \/ TextFlushStart
  <2>1. /\ Broadcast /\ app' = app
        /\ UNCHANGED <<overlay.segment, overlay.text_segment, overlay.text_buffer>>
    BY <1>9 DEF VideoFlushStart, TextEos, TextFlushStart
  <2> QED
    BY <2>1, WokenKeeps
<1>10. CASE TextFlushStop
  <2>1. /\ Broadcast /\ app' = app /\ text.pc = "idle"
        /\ overlay'.segment = overlay.segment /\ overlay'.text_buffer = NoText
        /\ overlay'.text_segment = NewSegment(TRUE)
    BY <1>10 DEF TextFlushStop, TextAtRest
  <2>2. /\ UNCHANGED <<video.start, video.stop, video.clip_start, video.clip_stop,
                       video.pop, video.drawn>>
        /\ video'.pc = IF video.pc = "wait" THEN "check" ELSE video.pc
        /\ text'.pc = "idle"
    BY <2>1 DEF Broadcast, WokenVideo, WokenText
  <2>3. TimesInv'
    BY <2>1, <2>2, NewSegmentTimes DEF TimesInv
  <2>4. SlotInv'
    BY <2>1, <2>2, SlotKept DEF SlotInv
  <2> QED
    BY <2>3, <2>4
<1> QED
  BY <1>1, <1>2, <1>3, <1>4, <1>5, <1>6, <1>7, <1>8, <1>9, <1>10 DEF Arrivals

LEMMA ApplicationTimes ==
  Shape /\ TimesInv /\ SlotInv /\ (Application \/ StateChange) => TimesInv' /\ SlotInv'
<1> SUFFICES ASSUME Shape, TimesInv, SlotInv, Application \/ StateChange
             PROVE  TimesInv' /\ SlotInv'
  OBVIOUS
<1> USE DEF Shape, OverlayFields, VideoFields, TextFields, NewOverlay, NewVideo, NewTextThread
<1>1. CASE TextPadLink \/ SetProperty \/ Deactivate \/ Stopped
  <2>1. /\ UNCHANGED <<video, text, overlay.segment, overlay.text_segment, overlay.text_buffer>>
        /\ app' = "ready" => video.pc = "idle"
    BY <1>1 DEF TextPadLink, SetProperty, Deactivate, Stopped, SlotInv
  <2>2. TimesInv'
    BY <2>1, TimesKept
  <2>3. SlotInv'
    BY <2>1, SlotKept DEF SlotInv
  <2> QED
    BY <2>2, <2>3
<1>2. CASE TextPadUnlink
  <2>1. /\ UNCHANGED <<app, video, text, overlay.segment, overlay.text_buffer>>
        /\ overlay'.text_segment = NewSegment(FALSE)
    BY <1>2 DEF TextPadUnlink
  <2>2. TimesInv'
    BY <2>1, NewSegmentTimes DEF TimesInv
  <2>3. SlotInv'
    BY <2>1, SlotKept DEF SlotInv
  <2> QED
    BY <2>2, <2>3
<1>3. CASE Stop
  <2>1. /\ Broadcast /\ app' = "stopping"
        /\ UNCHANGED <<overlay.segment, overlay.text_segment>> /\ overlay'.text_buffer = NoText
    BY <1>3 DEF Stop
  <2> QED
    BY <2>1, WokenKeeps
<1>4. CASE Start
  <2>1. /\ UNCHANGED <<video, text, overlay.text_buffer>> /\ video.pc = "idle" /\ app' = "paused"
        /\ overlay'.segment = NewSegment(TRUE) /\ overlay'.text_segment = NewSegment(TRUE)
    BY <1>4 DEF Start, SlotInv
  <2>2. TimesInv'
    BY <2>1, NewSegmentTimes DEF TimesInv
  <2>3. SlotInv'
    BY <2>1, SlotKept DEF SlotInv
  <2> QED
    BY <2>2, <2>3
<1> QED
  BY <1>1, <1>2, <1>3, <1>4 DEF Application, StateChange

LEMMA NextTimes ==
  ASSUME AllContinue
  PROVE  Shape /\ TimesInv /\ SlotInv /\ [Next]_vars => TimesInv' /\ SlotInv'
<1>1. TimesInv /\ SlotInv /\ UNCHANGED vars => TimesInv' /\ SlotInv'
  BY DEF vars, TimesInv, SlotInv, Stamped, FrameEnd, Running
<1> QED
  BY <1>1, VideoTimes, TextTimes, ArrivalsTimes, ApplicationTimes DEF Next

\* What is decided when a frame and the text of the slot are at hand.
LEMMA DecidedByOverlap ==
  ASSUME Shape, PictureInv, TimesInv, Next, overlay.text_buffer # NoText,
         Stamped(overlay.text_buffer), Decides, video'.pc \in {"push", "bare"}
  PROVE  LET t == overlay.text_buffer IN
         /\ video'.drawn = t => /\ TextStart(overlay, t) < FrameEnd(overlay, video)
                                /\ FrameStart(overlay, video) < TextEnd(overlay, t)
         /\ video'.drawn # t => FrameEnd(overlay, video) =< TextStart(overlay, t)
<1> USE DEF Shape, OverlayFields, VideoFields, NewOverlay, NewVideo
<1> DEFINE t == overlay.text_buffer
<1>1. video.pc = "check" /\ overlay.text_linked /\ ~overlay.silent
  BY DEF Decides, Checking
<1>2. TextInFuture \/ ShowText
  <2>1. Video
    BY <1>1, OthersMoveVideo DEF Next
  <2>2. ~Refuse /\ ~Silent /\ ~Unlinked /\ ~NoTextYet /\ ~DropOldText
    BY <1>1 DEF Refuse, Returns, Silent, Fits, Unlinked, Shows, NoTextYet, DropOldText
  <2>3. ~Draw /\ ~Drawn /\ ~PushBare /\ ~PushFrame /\ ~Pushed
    BY <1>1 DEF Draw, Drawn, PushBare, PushFrame, Pushed
  <2> QED
    BY <2>1, <2>2, <2>3 DEF Video
<1>3. /\ TextStart(overlay, t) \in Int /\ TextEnd(overlay, t) \in Int
      /\ FrameStart(overlay, video) \in Int /\ FrameEnd(overlay, video) \in Int
  BY RunningInt DEF TimesInv, TimesOfText, TextStart, TextEnd, FrameStart, FrameEnd
<1>4. CASE TextInFuture
  <2>1. InFuture(overlay, video, t)
    BY <1>4 DEF TextInFuture
  <2>2. video'.drawn = NoText
    BY <1>1, <1>4 DEF TextInFuture, Goes, PictureInv
  <2> QED
    BY <2>1, <2>2 DEF InFuture
<1>5. CASE ShowText
  <2>1. ~TooOld(overlay, video, t) /\ ~InFuture(overlay, video, t)
    BY <1>5 DEF ShowText
  <2>2. video'.drawn = t
    BY <1>5 DEF ShowText
  <2>3. /\ ~(TextEnd(overlay, t) =< FrameStart(overlay, video))
        /\ ~(FrameEnd(overlay, video) =< TextStart(overlay, t))
    BY <2>1 DEF TooOld, InFuture
  <2> QED
    BY <1>3, <2>2, <2>3
<1> QED
  BY <1>2, <1>4, <1>5

\* The text that was drawn leaves the slot after its end.
LEMMA LeavesAfterItsEnd ==
  ASSUME TimesInv, SlotInv, Pushed, overlay.text_buffer # NoText,
         overlay'.text_buffer = NoText, video.drawn = overlay.text_buffer,
         Stamped(overlay.text_buffer), TextEnd(overlay, overlay.text_buffer) # NONE
  PROVE  TextEnd(overlay, overlay.text_buffer) =< FrameEnd(overlay, video)
<1> DEFINE t == overlay.text_buffer
           to == FrameEnd(overlay, video)
<1>1. video.pop
  BY DEF Pushed
<1>2. t.start + t.dur =< to \/ NONE =< to
  BY <1>1 DEF SlotInv
<1>3. t.start + t.dur \in Int /\ to \in Int /\ NONE \in Int
  BY RunningInt, OverlayAssumption DEF TimesInv, TimesOfText, FrameEnd
<1>4. TextEnd(overlay, t) = t.start + t.dur /\ t.start + t.dur =< NONE
  BY <1>3, RunningText DEF TimesInv, TextEnd
<1> HIDE DEF t, to
<1> QED
  BY <1>2, <1>3, <1>4 DEF t, to

\* Where the running time of a text is its time, as in a stream that begins at
\* zero and goes on through its segments, a text is drawn into those frames it
\* overlaps, and leaves the slot only once it has ended: whatever segments,
\* gaps, links and flushes come while it is drawn and pushed without the lock.
\* A frame that reaches over the end of its segment loses no text that is due.
THEOREM TextsAreShown ==
  ASSUME \A s \in TextSegments : s.base = s.start
  PROVE  Spec => ShownWhileItLasts
<1> DEFINE Shown ==
     LET t == overlay.text_buffer
         starts == Running(overlay.text_segment, t.start)
         ends == Running(overlay.text_segment, t.start + t.dur)
         from == Running(overlay.segment, video.clip_start)
         to == Running(overlay.segment, video.clip_stop)
         begins == video.start = video.clip_start
         whole == begins /\ video.stop = video.clip_stop
         Overlap == starts < to /\ from < ends
     IN  t # NoText /\ Stamped(t) /\ begins /\ NONE \notin {starts, ends} =>
           /\ Decides /\ video'.pc \in {"push", "bare"} =>
                /\ Overlap => video'.drawn = t
                /\ whole /\ video'.drawn = t => Overlap
           /\ DropOldText => ends =< from
           /\ whole /\ video.drawn = t /\ Pushed /\ overlay'.text_buffer = NoText =>
                ends =< to
<1>1. AllContinue
  BY DEF AllContinue
<1>2. Shape /\ PictureInv /\ TimesInv /\ SlotInv /\ [Next]_vars => [Shown]_vars
  <2> SUFFICES ASSUME Shape, PictureInv, TimesInv, SlotInv, Next PROVE Shown
    OBVIOUS
  <2> DEFINE t == overlay.text_buffer
             starts == Running(overlay.text_segment, t.start)
             ends == Running(overlay.text_segment, t.start + t.dur)
             from == Running(overlay.segment, video.clip_start)
             to == Running(overlay.segment, video.clip_stop)
             begins == video.start = video.clip_start
             whole == begins /\ video.stop = video.clip_stop
             Overlap == starts < to /\ from < ends
  <2>1. SUFFICES ASSUME t # NoText, Stamped(t), begins, NONE \notin {starts, ends}
                 PROVE  /\ Decides /\ video'.pc \in {"push", "bare"} =>
                             /\ Overlap => video'.drawn = t
                             /\ whole /\ video'.drawn = t => Overlap
                        /\ DropOldText => ends =< from
                        /\ whole /\ video.drawn = t /\ Pushed /\ overlay'.text_buffer = NoText =>
                             ends =< to
    OBVIOUS
  <2>2. /\ starts = TextStart(overlay, t) /\ ends = TextEnd(overlay, t)
        /\ from = FrameStart(overlay, video)
        /\ video.stop = video.clip_stop => to = FrameEnd(overlay, video)
    BY <2>1 DEF TextStart, TextEnd, FrameStart, FrameEnd
  <2>3. starts \in Int /\ ends \in Int /\ from \in Int /\ to \in Int /\ NONE \in Int
    BY <2>1, RunningInt, OverlayAssumption DEF TimesInv, TimesOfText
  <2>4. starts < NONE /\ ends # NONE
    BY <2>1, <2>3, RunningText DEF TimesInv, TimesOfText
  <2> HIDE DEF starts, ends, from, to
  <2>5. ASSUME Decides, video'.pc \in {"push", "bare"}
        PROVE  /\ Overlap => video'.drawn = t
               /\ whole /\ video'.drawn = t => Overlap
    <3>1. /\ video'.drawn = t => starts < FrameEnd(overlay, video) /\ from < ends
          /\ video'.drawn # t => FrameEnd(overlay, video) =< starts
      BY <2>1, <2>2, <2>5, DecidedByOverlap
    <3>2. CASE video.stop = video.clip_stop
      BY <2>2, <2>3, <3>1, <3>2
    <3>3. CASE video.stop # video.clip_stop
      <4>1. video.clip_stop = Least(video.stop, overlay.segment.stop)
        BY <2>5 DEF Decides, Checking, SlotInv
      <4>2. ~ (video.stop =< overlay.segment.stop)
        <5>1. video.stop \in Int /\ overlay.segment.stop \in Int
          BY <2>3 DEF TimesInv, TimesOf
        <5> QED
          BY <3>3, <4>1, <5>1 DEF Least
      <4>3. FrameEnd(overlay, video) = NONE
        BY <4>2 DEF FrameEnd, Running
      <4> QED
        BY <2>3, <2>4, <3>1, <3>3, <4>3
    <3> QED
      BY <3>2, <3>3
  <2>6. ASSUME DropOldText PROVE ends =< from
    <3>1. TooOld(overlay, video, t)
      BY <2>6 DEF DropOldText
    <3> QED
      BY <2>2, <3>1 DEF TooOld
  <2>7. ASSUME whole, video.drawn = t, Pushed, overlay'.text_buffer = NoText
        PROVE  ends =< to
    BY <2>1, <2>2, <2>4, <2>7, LeavesAfterItsEnd
  <2> QED
    BY <2>5, <2>6, <2>7
<1>3. Shape /\ TimesInv /\ SlotInv /\ [Next]_vars => TimesInv' /\ SlotInv'
  BY <1>1, NextTimes
<1>4. Spec => [][Shown]_vars
  <2> HIDE DEF Shown
  <2> QED
    BY <1>2, <1>3, InitTimes, InitPictureInv, NextPictureInv, ShapeHolds, PTL DEF Spec
<1> QED
  BY <1>4 DEF ShownWhileItLasts

=============================================================================
