------------------------------ MODULE UV4l2Src ------------------------------
(***************************************************************************)
(* The camera source (src/uv4l2src/uv4l2src.c).  The thread that changes   *)
(* the pipeline's state calls start, unlock and stop; the streaming task   *)
(* calls create, which waits for the next frame's time and then for the    *)
(* driver.  MediaStream makes a new element for every start.               *)
(*                                                                         *)
(* External: GstBaseSrc, which calls create with its live lock held, calls *)
(* unlock without it, takes it before stop, and does not call stop after a *)
(* start that failed; and the V4L2 driver, which lets one open file have   *)
(* the buffers, and gives EBUSY to others.                                 *)
(***************************************************************************)
EXTENDS Integers, Sequences, Functions

CONSTANTS
  Granted,      \* how many buffers VIDIOC_REQBUFS may give
  SECOND,       \* units of time in a second
  Rate,         \* the frames per second, where they are given
  MaxTime,      \* bound: the clock of one element
  MaxStarts     \* bound: the elements that are started

\* The element has room for four buffers and does not check.
ASSUME SourceAssumption ==
  /\ Granted \subseteq 1..4
  /\ SECOND \in Nat \ {0} /\ Rate \in Nat \ {0} /\ Rate =< SECOND
  /\ MaxTime \in Nat /\ MaxStarts \in Nat

VARIABLES
  app,         \* the thread that changes states: "down", "running", "unlocked"
  task,        \* where the streaming task is in create
  src,         \* struct _GstUV4l2Src, and the locals of create
  drv,         \* the device
  now,         \* the clock, from the element's base time on
  opened,      \* the descriptors that elements have opened and not closed
  mapped,      \* the buffers that elements have mapped and not unmapped
  failed,      \* history: a start has failed after it had opened the device
  woken,       \* history: unlock came during this wait, or before it
  last,        \* history: the end of the last frame that was handed on
  starts

device == <<drv, opened, mapped, failed>>
vars == <<app, task, src, device, now, woken, last, starts>>

\* The frame that time t belongs to, and the time of frame n; both round
\* down (gst_util_uint64_scale).
FrameAt(t) == (t * Rate) \div SECOND
TimeOf(n) == (n * SECOND) \div Rate

\* rate_numerator is 0 where MediaStream was told no rate: it tells each of
\* its elements the same.  rate_denominator is 1.
SrcAtRate(fps) ==
  [rate_numerator |-> fps, fd |-> FALSE, buf_count |-> 0, is_capture |-> FALSE, clock_id |-> FALSE,
   frame_number |-> 0, index |-> 0,
   buf_time |-> 0, buf_dur |-> 0, unscheduled |-> FALSE]

NewSrc == SrcAtRate(src.rate_numerator)

\* GST_CLOCK_TIME_NONE: nothing is said of when the frame ends.
NoDuration == 0

NoDevice ==
  [owner |-> "none", queued |-> {}, filled |-> <<>>, streaming |-> FALSE,
   gone |-> FALSE]

Init ==
  /\ app = "down" /\ task = "ready" /\ drv = NoDevice
  /\ src \in {SrcAtRate(0), SrcAtRate(Rate)}
  /\ now = 0 /\ opened = 0 /\ mapped = 0 /\ failed = FALSE
  /\ woken = FALSE /\ last = 0 /\ starts = 0

(***************************************************************************)
(* start: READY to PAUSED.                                                 *)
(***************************************************************************)

NewElement ==
  /\ app = "down" /\ starts < MaxStarts /\ starts' = starts + 1
  /\ task' = "ready" /\ now' = 0 /\ woken' = FALSE /\ last' = 0

\* A start that fails ends the element: it is not stopped.
StartOpenFails ==
  /\ NewElement /\ src' = NewSrc
  /\ UNCHANGED <<app, device>>

\* No capture device, the wrong format, or no buffers to be had.
StartRefused ==
  /\ NewElement /\ src' = [NewSrc EXCEPT !.fd = TRUE]
  /\ opened' = opened + 1 /\ failed' = TRUE
  /\ UNCHANGED <<app, drv, mapped>>

\* With the buffers granted, the i-th cannot be queried, mapped or queued.
\* Only the second undoes the maps before it; the third leaves its own.
StartBuffersFail(count, i, step) ==
  /\ NewElement /\ drv.owner = "none" /\ ~drv.gone
  /\ src' = [NewSrc EXCEPT !.fd = TRUE, !.buf_count = count]
  /\ opened' = opened + 1 /\ failed' = TRUE
  /\ drv' = [drv EXCEPT !.owner = "lost"]
  /\ mapped' = mapped + [query |-> i - 1, map |-> 0, queue |-> 1][step]
  /\ UNCHANGED app

StartOk(count) ==
  /\ NewElement /\ drv.owner = "none" /\ ~drv.gone
  /\ src' = [NewSrc EXCEPT !.fd = TRUE, !.buf_count = count]
  /\ opened' = opened + 1 /\ mapped' = mapped + count
  /\ drv' = [drv EXCEPT !.owner = "src", !.queued = 0..(count - 1)]
  /\ app' = "running"
  /\ UNCHANGED failed

Start ==
  \/ StartOpenFails \/ StartRefused
  \/ \E count \in Granted :
       \/ StartOk(count)
       \/ \E i \in 1..count, step \in {"query", "map", "queue"} :
            StartBuffersFail(count, i, step)

(***************************************************************************)
(* create, in the streaming task.                                          *)
(***************************************************************************)

\* A frame for this period is out: the next one has to wait for its time.
CreateWaits ==
  /\ app # "down" /\ task = "ready" /\ src.rate_numerator # 0
  /\ FrameAt(now) = src.frame_number
  /\ TimeOf(FrameAt(now) + 1) < MaxTime
  /\ src' = [src EXCEPT !.buf_time = TimeOf(FrameAt(now) + 1),
                        !.buf_dur = SECOND \div Rate]
  /\ task' = "id"
  /\ UNCHANGED <<app, device, now, woken, last, starts>>

\* Mutant: the frame lasts for a whole period.
CreateAtOnce_WholePeriod ==
  /\ app # "down" /\ task = "ready" /\ src.rate_numerator # 0
  /\ FrameAt(now) # src.frame_number /\ now < MaxTime
  /\ src' = [src EXCEPT !.frame_number = FrameAt(now), !.buf_time = now,
                        !.buf_dur = SECOND \div Rate]
  /\ task' = "capture"
  /\ UNCHANGED <<app, device, now, woken, last, starts>>

\* It is late already, and lasts until the next one is due.
CreateAtOnce ==
  /\ app # "down" /\ task = "ready" /\ src.rate_numerator # 0
  /\ FrameAt(now) # src.frame_number /\ now < MaxTime
  /\ src' = [src EXCEPT !.frame_number = FrameAt(now), !.buf_time = now,
                        !.buf_dur = TimeOf(FrameAt(now) + 1) - now]
  /\ task' = "capture"
  /\ UNCHANGED <<app, device, now, woken, last, starts>>

\* Without a rate no frame waits, and none has a length; the number is set to
\* -1, and nobody looks at it.
CreateUnnumbered ==
  /\ app # "down" /\ task = "ready" /\ src.rate_numerator = 0 /\ now < MaxTime
  /\ src' = [src EXCEPT !.buf_time = now, !.buf_dur = NoDuration]
  /\ task' = "capture"
  /\ UNCHANGED <<app, device, now, woken, last, starts>>

SetClockId ==
  /\ task = "id" /\ task' = "wait"
  /\ src' = [src EXCEPT !.clock_id = TRUE, !.unscheduled = FALSE]
  /\ UNCHANGED <<app, device, now, woken, last, starts>>

\* gst_clock_id_wait returns: the answer is settled here.
WaitEnds ==
  /\ task = "wait" /\ (src.unscheduled \/ now >= src.buf_time)
  /\ task' = IF src.unscheduled THEN "unscheduled" ELSE "waited"
  /\ UNCHANGED <<app, src, device, now, woken, last, starts>>

\* Mutant: what the wait returned is not looked at.
ClearClockId_Anyway ==
  /\ task \in {"waited", "unscheduled"} /\ task' = "capture"
  /\ src' = [src EXCEPT !.clock_id = FALSE, !.frame_number = @ + 1]
  /\ UNCHANGED <<app, device, now, woken, last, starts>>

\* A wait that unlock ended makes create return FLUSHING, and the task pause.
ClearClockId ==
  /\ task \in {"waited", "unscheduled"}
  /\ task' = IF task = "waited" THEN "capture" ELSE "paused"
  /\ src' = [src EXCEPT !.clock_id = FALSE,
                        !.frame_number = IF task = "waited" THEN @ + 1 ELSE @]
  /\ UNCHANGED <<app, device, now, woken, last, starts>>

\* do_video_capture: the first time it starts the stream; later it first
\* gives back the buffer it has.
StreamOn ==
  /\ task = "capture" /\ ~src.is_capture /\ ~drv.gone
  /\ task' = "dequeue"
  /\ src' = [src EXCEPT !.is_capture = TRUE, !.index = 0]
  /\ drv' = [drv EXCEPT !.streaming = TRUE]
  /\ UNCHANGED <<app, opened, mapped, failed, now, woken, last, starts>>

AtDriver == drv.queued \cup Range(drv.filled)

\* Mutant: the buffer is not given back.
Requeue_Forgets ==
  /\ task = "capture" /\ src.is_capture /\ ~drv.gone
  /\ task' = "dequeue"
  /\ UNCHANGED <<app, src, device, now, woken, last, starts>>

Requeue ==
  /\ task = "capture" /\ src.is_capture /\ ~drv.gone
  /\ src.index \notin AtDriver
  /\ task' = "dequeue" /\ drv' = [drv EXCEPT !.queued = @ \cup {src.index}]
  /\ UNCHANGED <<app, src, opened, mapped, failed, now, woken, last, starts>>

\* VIDIOC_QBUF fails when the driver has that buffer already, as after a
\* VIDIOC_DQBUF that failed.
RequeueRefused ==
  /\ task = "capture" /\ src.is_capture
  /\ drv.gone \/ src.index \in AtDriver
  /\ task' = "blank"
  /\ UNCHANGED <<app, src, device, now, woken, last, starts>>

\* Mutant: the buffer is given back at once.
Dequeue_Requeues ==
  /\ task = "dequeue" /\ ~drv.gone /\ drv.filled # <<>>
  /\ task' = "copy"
  /\ src' = [src EXCEPT !.index = Head(drv.filled)]
  /\ drv' = [drv EXCEPT !.filled = Tail(@), !.queued = @ \cup {Head(drv.filled)}]
  /\ UNCHANGED <<app, opened, mapped, failed, now, woken, last, starts>>

\* VIDIOC_DQBUF waits for the driver to fill a buffer.
Dequeue ==
  /\ task = "dequeue" /\ ~drv.gone /\ drv.filled # <<>>
  /\ task' = "copy"
  /\ src' = [src EXCEPT !.index = Head(drv.filled)]
  /\ drv' = [drv EXCEPT !.filled = Tail(@)]
  /\ UNCHANGED <<app, opened, mapped, failed, now, woken, last, starts>>

\* VIDIOC_STREAMON or VIDIOC_DQBUF fails: an error is posted, and the frame
\* is handed on as it is.  A device that is gone may also give EIO for ever,
\* and the loop goes on: then no step is taken.
CaptureFails ==
  /\ task \in {"capture", "dequeue"}
  /\ task' = "blank"
  /\ UNCHANGED <<app, src, device, now, woken, last, starts>>

\* create returns OK with its frame.  The clock is finer than a capture.
HandOn ==
  /\ task \in {"copy", "blank"} /\ now > src.buf_time
  /\ task' = "ready" /\ last' = src.buf_time + src.buf_dur
  /\ UNCHANGED <<app, src, device, now, woken, starts>>

Create ==
  \/ CreateWaits \/ CreateAtOnce \/ CreateUnnumbered \/ SetClockId \/ WaitEnds \/ ClearClockId
  \/ StreamOn \/ Requeue \/ RequeueRefused \/ Dequeue \/ HandOn

(***************************************************************************)
(* unlock and stop.                                                        *)
(***************************************************************************)

\* unlock: before the base class waits for its live lock.
Unlock ==
  /\ app = "running" /\ app' = "unlocked"
  /\ src' = IF src.clock_id THEN [src EXCEPT !.unscheduled = TRUE] ELSE src
  /\ woken' = (task = "wait")
  /\ UNCHANGED <<task, device, now, last, starts>>

\* Mutant: the descriptor stays open.
Stop_KeepsFd ==
  /\ app = "unlocked" /\ task \in {"ready", "paused"} /\ app' = "down"
  /\ drv' = [drv EXCEPT !.streaming = FALSE]
  /\ mapped' = mapped - src.buf_count
  /\ UNCHANGED <<task, src, opened, failed, now, woken, last, starts>>

\* The live lock is free; stop closes the descriptor and unmaps the buffers.
Stop ==
  /\ app = "unlocked" /\ task \in {"ready", "paused"} /\ app' = "down"
  /\ opened' = opened - 1 /\ mapped' = mapped - src.buf_count
  /\ drv' = [NoDevice EXCEPT !.gone = drv.gone]
  /\ UNCHANGED <<task, src, failed, now, woken, last, starts>>

(***************************************************************************)
(* The camera and the clock.                                               *)
(***************************************************************************)

Fill ==
  /\ drv.streaming /\ ~drv.gone
  /\ \E i \in drv.queued :
       drv' = [drv EXCEPT !.queued = @ \ {i}, !.filled = Append(@, i)]
  /\ UNCHANGED <<app, task, src, opened, mapped, failed, now, woken, last, starts>>

Unplug ==
  /\ ~drv.gone /\ drv' = [drv EXCEPT !.gone = TRUE]
  /\ UNCHANGED <<app, task, src, opened, mapped, failed, now, woken, last, starts>>

Tick ==
  /\ app # "down" /\ now =< MaxTime /\ now' = now + 1
  /\ UNCHANGED <<app, task, src, device, woken, last, starts>>

Next == Start \/ Create \/ CaptureFails \/ Unlock \/ Stop \/ Fill \/ Unplug \/ Tick

\* The task and the camera go on, time passes, and the live lock, which the
\* task gives up between two calls of create, is had in the end.
Fairness ==
  WF_vars(Create) /\ WF_vars(Fill) /\ WF_vars(Tick) /\ SF_vars(Stop)

Spec == Init /\ [][Next]_vars
FairSpec == Spec /\ Fairness

(***************************************************************************)
(* Properties.                                                             *)
(***************************************************************************)

SrcType ==
  [rate_numerator : {0, Rate}, fd : BOOLEAN, buf_count : 0..4,
   is_capture : BOOLEAN, clock_id : BOOLEAN,
   frame_number : Nat, index : 0..3, buf_time : Nat, buf_dur : Nat,
   unscheduled : BOOLEAN]

DeviceType ==
  [owner : {"none", "src", "lost"}, queued : SUBSET (0..3), filled : Seq(0..3),
   streaming : BOOLEAN, gone : BOOLEAN]

\* Every variable has its type: in particular nothing is closed or unmapped
\* more often than it was opened or mapped.
TypeOK ==
  /\ app \in {"down", "running", "unlocked"}
  /\ task \in {"ready", "id", "wait", "waited", "unscheduled", "capture",
               "dequeue", "copy", "blank", "paused"}
  /\ src \in SrcType /\ drv \in DeviceType
  /\ now \in 0..(MaxTime + 1) /\ last \in Nat /\ starts \in 0..MaxStarts
  /\ opened \in Nat /\ mapped \in Nat
  /\ failed \in BOOLEAN /\ woken \in BOOLEAN

\* A frame is copied from a buffer the driver does not write to, and every
\* buffer but that one is with the driver: none is lost or queued twice.
BuffersAccounted ==
  drv.owner = "src" =>
    /\ task = "copy" => src.index \notin AtDriver
    /\ (0..(src.buf_count - 1)) \ {src.index} \subseteq AtDriver
    /\ \A j, k \in DOMAIN drv.filled : drv.filled[j] = drv.filled[k] => j = k

\* The frames handed on follow each other in time and do not overlap, at a
\* rate that does not divide the second and however late create is called.
\* Without a rate no frame has a length, and their times do not go back.
FramesFollow ==
  [][(task \in {"copy", "blank"} /\ task' = "ready")
       => src.buf_time >= last]_vars

\* unlock ends a wait for the clock: that call of create does not go on to
\* the device, where unlock could not reach it.
UnlockWakes == woken => task \in {"wait", "unscheduled", "paused"}

\* An element that was stopped leaves the device free for the next one: no
\* buffer mapped, no descriptor open; only a start that failed does.
CleanStop ==
  (app = "down" /\ ~failed) =>
    opened = 0 /\ mapped = 0 /\ drv.owner = "none"

\* A stream that is being stopped stops, as long as the camera is there: the
\* one wait unlock cannot end is ended by the camera's next frame.
StopReturns == (app = "unlocked") ~> (app = "down" \/ drv.gone)
=============================================================================
