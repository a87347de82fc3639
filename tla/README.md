# Verification of ubox-publisher

ubox-publisher runs on a small Linux box: it takes video from a camera or an
RTSP source and audio from ALSA or a test source, overlays a clock, encodes,
muxes to FLV and publishes to an RTMP server. It is controlled over a Unix
datagram socket with JSON requests. This directory holds TLA+ modules translated
from its source, TLC configurations that check them on small instances, and
theorems about them checked by TLAPS.

Paths below are relative to the repository; `MediaStream.cpp:545` is line 545 of
`src/MediaStream.cpp`.

```
 main ──┐ 'q', command line             ┌─ run thread ─ GStreamer pipeline
        ├─> ControlHandler ─> MediaStream ─ loop_run ─┤  v4l2src ─ overlay ─ enc ─┐
 ctl  ──┘   (streamMutex)               └─ run thread │  alsasrc ─ enc ─────── flvmux ─ rtmpsink
  │ UnixDomainService::Wait                            (one after another)
 clients
```

Contents: [inventory](#1-inventory), [modules and code](#2-modules-and-code),
[runs](#3-runs-bounds-and-what-they-show),
[fairness](#4-fairness), [proofs](#5-proofs),
[where code and comments disagree](#6-where-the-code-and-its-comments-disagree),
[what is not modelled](#7-what-is-not-modelled), [plan](#8-plan).

## 1. Inventory

### MediaStream — `src/MediaStream.cpp`, `include/MediaStream.h`
*State.* Flags `mQuit`, `mRestart`, `mEnd`, `mFinish`; `mErrorMsg`, `mBitrate`,
`mPipeline`, `mElements`; the thread of `loop_run` and the detached threads of
`run`. None of the members has a lock.
*Operations.* `Open`, `SetBitrate`, `GetStatus`, `Close`, the destructor;
`loop_run` (spawn, watch, cancel), `run` (set up, poll the bus, tear down),
`setupPipeline`, the `pad-added` callback.
*Hard.* Four kinds of thread on unprotected members; a watchdog that cancels a
thread it cannot join; `pthread_cancel` takes effect only at a cancellation
point, so a thread given up may go on; a pipeline that is rebuilt while a bitrate
is being set.
*Correct when* at most one run works on the object; nothing touches a deleted
object or another run's pipeline; a run that ends releases its pipeline; only a
blocked teardown is cancelled; a stream that gives up says why; `Close` returns;
a pipeline that fails is started again.

### ControlHandler — `src/ControlHandler.cpp`
*State.* `streamMutex`, `streamOpened`, `stream`. *Operations.* `StartStream`,
`StopStream`, `SetBitrate`, `GetBitrate`, `GetStatus`, each from either thread.
*Hard.* The flag, the pointer and the object's state say the same thing three
times; `GetStatus` takes no lock. *Correct when* the three agree whenever nobody
is inside, and MediaStream sees its methods in a legal order.

### RemoteService and main — `src/RemoteService.cpp`, `src/main.cpp`
*State.* `rpc_server`, the control thread. *Operations.* start, `run`, `quit`,
join, destructors. *Hard.* Both threads call `UnixDomainService::Close` on one
object; quitting before the service is registered. *Correct when* quitting ends
the program, and at its end the stream is closed and the thread gone.

### UnixDomainService — `src/UnixDomainService.cpp`
*State.* `srvFD`; in `Wait` the sender's address and its length, kept from one
request to the next. *Operations.* `Open`, `Wait`, `Close`, packing and
unpacking. *Hard.* Stale address and length; clients that leave before their
answer, do not read, or have no address; empty datagrams. *Correct when* a reply
reaches the client that asked, once, in order, and no client stops the service
for others by leaving.

### uflvmux — `uflv/gstflvmux.c`
*State.* The mux (state, `first_timestamp`, `last_dts`, `byte_count`, `index`,
`new_tags`) and its pads (codec, codec data, times). *Operations.* pad request
and release, caps, tags, flush and start, `aggregate` with header, tags, end and
rewritten header. *Hard.* Two streams that start, stop and stall independently;
32-bit milliseconds; pushes that fail midway; an index that must fit a space
reserved before its length is known. *Correct when* a stream begins with one
header that announces what follows, times never go back, presentation is kept,
index entries point at their tags, and a silent pad does not stop the other.

### uv4l2src — `uv4l2src/uv4l2src.c`
*State.* Descriptor, mapped buffers, the buffer held, frame number, `clock_id`.
*Operations.* `start`, `create`, `unlock`, `stop`. *Hard.* `unlock` races the
wait in `create`; failures in the middle of `start`; a camera that is unplugged;
a rate that does not divide the second. *Correct when* buffers are neither lost
nor queued twice, frames follow each other in time, a wait that is unlocked
ends, and a stopped element leaves the device free.

### uflvdemux — `uflv/gstflvdemux.c`
*State.* A parser state machine over an adapter, or over offsets in pull mode;
pads, segment, index, `no_more_pads`, pending seeks. *Operations.* chain, loop,
seek in both modes, flush, end, queries. *Hard.* Streams discovered while data
flows; 32-bit times that wrap; a seek that must first build an index; a flush
between two parser states. *Correct when* every stream gets its frames once and in the order of the file,
or is told of a discontinuity; the index points at tags; a seek that was taken
takes effect, skips nothing that was asked for and does not stop playback; what
was asked for has been played when the end is announced, in reverse as well.
Registered by the plugin of the mux; no pipeline of the publisher contains it.

### index and memindex — `uflv/gstindex.c`, `uflv/gstmemindex.c`
*State.* Writers and their ids; associations sorted by value per format.
*Operations.* add id, add association, look up exact, before and after. *Hard.*
Insertion out of order and of duplicates, lookups at the ends. *Correct when* a
lookup for a seek finds an entry at or before its target. Filters, groups,
resolvers and object entries are used by nobody.

### uclockoverlay — `uclockoverlay/gstbasetextoverlay.c`, `gstclockoverlay.c`
*State.* Two pads with segment, flush and end flags, one text buffer slot, a lock
and a condition. *Operations.* video chain, text chain, flush, end, state change.
*Hard.* The video chain waits for text and text for video under one condition;
flushes and ends of either pad must wake the other. *Correct when* no thread
waits without a reason, a text is drawn exactly into the frames it overlaps, the
text chosen is the one drawn, and a picture goes out as the caps say. The text
pad exists only in a subclass that asks for one; the clock has none, so this
program uses one half of it.

### Not ours
`third_party/cjson` (a JSON parser), `third_party/tinylog` (a logger),
`test/unixsocket_cli.cpp` and the scripts.

Each of the 40 places where this code can go wrong in a way a unit test would
hardly reach is listed, by line, under `hazards` in `PROJECT.json`, with the
properties that cover it. Some are only named here: every start of a v4l2
pipeline opens the device and never closes it (`MediaStream.cpp:214`);
`uv4l2src` returns FLUSHING without releasing its buffer and its reference to
the clock (`uv4l2src.c:309`), and has room for four buffers where
`VIDIOC_REQBUFS` may grant more (line 578).

## 2. Modules and code

| Module | Models | Extended by |
|---|---|---|
| `StreamSession` | what a stream promises its caller, without threads | |
| `MediaStream` | `MediaStream.cpp`, refines `StreamSession` | `MCMediaStream`, `MediaStream_proofs` |
| `ControlPlane` | `ControlHandler.cpp`, `RemoteService.cpp`, `main.cpp`, `UnixDomainService::Close` | `RemoteService_proofs` |
| `UnixDomainService` | `UnixDomainService::Wait` and its clients | `MCUnixDomainService`, `RemoteService_proofs` |
| `FlvMux` | `uflv/gstflvmux.c` | `MCFlvMux`, `FlvMux_proofs` |
| `UV4l2Src` | `uv4l2src/uv4l2src.c` and the driver | `UV4l2Src_proofs` |
| `MemIndex` | `uflv/gstmemindex.c`, `uflv/gstindex.c` as the demuxer uses them | `FlvTags` |
| `FlvTags` | what `uflv/gstflvdemux.c` does with a tag, in either mode | `FlvDemux`, `FlvDemuxPull`, `FlvTags_proofs` |
| `FlvDelivery` | what the demuxer promises downstream | |
| `FlvDemux` | the demuxer in push mode, refines `FlvDelivery` | `MCFlvDemux`, `FlvDemux_proofs` |
| `FlvDemuxPull` | the demuxer in pull mode, refines `FlvDelivery` | `MCFlvDemuxPull`, `FlvDemuxPull_proofs` |
| `TextOverlay` | `uclockoverlay/gstbasetextoverlay.c`, `gstclockoverlay.c` | `MCTextOverlay`, `TextOverlay_proofs` |

**MediaStream.** `owner` is the caller's place in the life of the object, `loop`,
`i` and `cur` are `loop_run` and its locals, `pc[r]` is the place of run thread
`r`. Members keep their names; `mErrorMsg` is reduced to whether it is empty, a
pipeline to its life (`none`, `bin`, `full` with elements in it, `freed`), an
encoder to its bitrate. An action is the code between two accesses to shared
members that another thread can tell apart; `setupPipeline` is eight of them. A
run's name is also the name of its pipeline, so `mPipeline # r` in an action of
`r` says that the thread works on a pipeline that is not its own. `faults`
collects such misuse. `late` becomes true when something of a cancelled thread
acts: cancellation is deferred, so the model lets a cancelled thread die at any
point, hang for ever, or go on.

**ControlPlane and MediaStream.** `ControlPlane` sees the stream object only
through `obj`, which takes the values of `owner` in `MediaStream`. That the
handler's two callers never produce another order of calls is `OwnerProtocol`;
`MediaStream` takes that order as its environment. In return `StopJoin` relies on
`CloseReturns`. The two modules meet in these properties and are not composed in
one state space.

**UnixDomainService.** An address is a short sequence of bytes, empty for an
unbound client. `recvfrom` is modelled by what it does: it copies at most
`fromLength` bytes and sets `fromLength` to the whole length. A datagram is a
sender, a number and one of the kinds `Wait` tells apart: empty, unreadable, a
request. `Send`, `Read` and `Leave` are the clients. What a handler does with a
request belongs to `ControlPlane`. Its specification is called `ServiceSpec`, so that
one module can be about both.

**FlvMux.** `mux` is `struct GstUFlvMux` with what has been pushed (`out`) and
rewritten (`file`); `pad[p]` is `struct GstUFlvMuxPad` with the queue of the base
class. One call of `aggregate` is one step: arrivals during the call commute with
it, because pads are read once and caps are handled by the same task. A refusal
downstream is modelled by `room`, the pushes it still takes in this call. A
chunk counts as one byte; the bytes of a tag are not modelled, only its kind,
stream, times and buffer. Running times come in units of which `MSECOND` make a
millisecond, so rounding shows. `GST_CLOCK_TIME_NONE` is -1, which is how the
code reads it after the cast to a signed type. The branch for "no input streams"
of `gst_flv_mux_aggregate` is not there: the base class does not call a muxer
without pads.

**UV4l2Src.** `task` is the place in `create`, `app` that of the thread that
changes states, `drv` the driver with its queue of filled buffers. The base
class's live lock is a guard: `Stop` needs the task between two calls. The rate is
zero where MediaStream was given none: then frames are neither numbered nor waited
for, and have no length (`CreateUnnumbered`). `opened`
and `mapped` are resources of the process, which survive an element.

**FlvTags and MemIndex.** A file is a header and a sequence of tags, each of
three units: type and size, the rest, and the size again. Offsets count units, so
a parser that loses its place is seen to. A tag has the kinds of content the
parsers tell apart: a codec whose packets need a configuration of their own, one
that needs none, one that is unknown; a frame, a configuration, the end of a
sequence, or nothing. `pad[p]` is what `struct GstUFlvDemux` holds per stream,
and `out` in it what downstream of that pad has seen since the last flush. A
helper takes the record and returns the next one, as the functions do with the
element; `ret` in it is the flow. The index is the sequence of its entries in the
order they were added; `Search` and `Walk` are the lookup in the balanced tree
and the walk along the list to a key unit. The table in the metadata is added in
one go (`AddTags`): its entries are of different positions, so that none of them
depends on one that was added just before.

**FlvDemux.** `chain` is the place of the streaming thread in
`gst_flv_demux_chain`, at one of the points where the application's thread, in
`gst_flv_demux_handle_seek_push`, can come in between; `request` is what they
share. `adapter` is the part of the file that is held and not yet parsed.
Upstream serves byte ranges, in chunks of any size, and may be moved by a seek
in bytes. `past` records what cannot be told from the state and the properties
set apart.

**FlvDemuxPull.** `task` is the place in `gst_flv_demux_loop`, `app` that of the
application's thread in `gst_flv_demux_handle_seek_pull`, before it takes the
stream lock or after it is done with it (in between it is one step, as the task
cannot run). `section` is `from_offset` and `to_offset`. The flushing of the
pads may begin between any two statements of the task: a step that finds
`flushing` set may have pulled before, so each pull then has both outcomes.

**TextOverlay.** `video` and `text` are the two threads with their locals,
`overlay` is `struct _GstBaseUTextOverlay`. What a thread does between taking the
lock and giving it up, or waiting, is one action. Links, properties, text
segments and the drawing of a text that is not from the pad change what the lock
protects without holding it and take steps of their own. A picture is the text it
shows. What a drawing makes depends on fonts, pads and the size of the video and is
a choice (`Images`): a picture, a line one pixel wide, for which `set_composition`
drops the picture there was, or nothing, where `render_pangocairo` returns before it
gets there. `rendering` is history: what was drawn last and what came of it.
`sent` tells whether it was attached to the frame, painted into it, or
neither.

`PROJECT.json` maps each definition to the lines it stands for.

## 3. Runs, bounds and what they show

| Run | Configuration | Checks |
|---|---|---|
| media_stream | `MCMediaStream.cfg` | who touches what, what is released, what is reported |
| media_stream_live | `MCMediaStreamLive.cfg` | Close returns, pipelines restart, refinement of `StreamSession` |
| media_stream_deadlock | `MCMediaStreamDeadlock.cfg` | violation, see section 6 |
| control_plane | `ControlPlane.cfg` | consistency of the handler, order of calls, clean exit |
| service_replies | `MCUnixDomainService.cfg` | who gets which reply, who is answered, what ends the loop |
| service_strangers | `MCUnixDomainServiceReply.cfg` | violation, see section 6 |
| mux_stream | `MCFlvMux.cfg` | a live stream: header, codec data, no starvation |
| mux_output | `MCFlvMuxOutput.cfg` | tag times, index, rewritten header, duration |
| camera | `UV4l2Src.cfg` | buffers, frame times, stop |
| demux_push | `MCFlvDemux.cfg` | index, seeks, end, refinement of `FlvDelivery` |
| demux_pull | `MCFlvDemuxPull.cfg` | seeks, what is played, refinement of `FlvDelivery` |
| overlay | `MCTextOverlay.cfg` | waits, which text is drawn, how it is sent, stop |

Each property has one mutant in `PROJECT.json`: a definition of the model
changed the way a slip in the code would change it, under which the same run
finds the property violated. The operators marked "Mutant" in the modules are
for this only; no specification uses them.

### MediaStream
* **Three run slots** in `media_stream`, two in `media_stream_live`. Three are
  the run that works, the one given up before it, and one older; slots of runs
  that are gone or given up are used again, so the number of restarts is not
  bounded, only how many old runs are followed at once. Runs are
  interchangeable, hence the symmetry; the liveness run has none.
* **`HangPolls = 1`** instead of 25: the counter only delays the cancel, and two
  polls are enough for a run to end before, between and after them.
* **`HangAt = {stop, unref}`**: GStreamer may block for ever in the teardown. A
  `setupPipeline` that blocks is not allowed, because then the watchdog does not
  count (`mFinish` is still false) and `Close` does not return; the hazard list
  says so.
* **`UpToLate`** stops the safety run after the first act of a cancelled run. From
  there on two threads share members, or use freed memory, and the code promises
  nothing; every safety property says `~late` for the same reason. That act
  itself is reached, and the refinement run goes on past it: the abstract session
  then becomes void until a new object is made.
* **`New` forgets** the threads of the object before: they keep to that object's
  memory.

What the runs show: only two kinds of misuse remain before `late`: a `SetBitrate`
when the member points to no pipeline, or to one that was released, and a cancel
of a thread that just ended (section 6). `BitrateAgrees` needs its exception: an encoder made between
the two steps of `SetBitrate` keeps the old bitrate, and the client's next
identical request is dropped as unchanged. `DeadStreamReports` and
`PipelineReleased` need theirs for a failed `addSource`, which stores no error
and keeps the empty bin.

### ControlPlane
No constants and no bounds; requests and status calls repeat for ever. It shows
that `GetStatus` may call a deleted stream only beside a `StartStream` of main's
own (a stream named on the command line), and that `q` ends the program once the
service is registered. Before that `quit` does nothing and main waits until the
service ends for another reason; `QuitReturns` speaks of the other case.

### UnixDomainService
Three clients, two with addresses of equal length and one unbound; four datagrams
in all; sockets that hold one datagram. One datagram in a socket is the smallest
that can be full; two requests are needed for a stale address to be used and for
an order to exist, and four let two clients do both. A reply to the wrong client
needs an unbound (or shorter-named) client before it (`StrangersOnlyIfMisled`).
`Answered` says that each single datagram gets its answer, with the exceptions
the code has.

### FlvMux
Eight milliseconds fill the clock (`U32 = 8`), two units make a millisecond, the
index has two entries, and two or three buffers arrive. That puts the wrap, the
signed limit, the rounding and an index with more entries than fit within reach
of three buffers. `mux_stream` uses one kind of buffer, since it asks about
order and not about times, with every refusal downstream, pads that come and go
and one flush (`FewTags` keeps new tags to one after the header). `mux_output` is
two instances in one (`StreamOrFile`): streams whose pads stay and whose buffers
vary in time, across a flush (`OnlyTimes`), and files to their end (`OnlyFile`).
Each pad queues one buffer: aggregate takes one at a time and only looks at the
first.

### UV4l2Src
Ten units to the second and three frames per second: the rate does not divide
the second, as 30 does not divide 10^9, and both roundings happen; or there is no
rate at all. The clock runs one unit past a second, after which frame times repeat their pattern. It is
finer than a capture: `HandOn` needs it to have moved on, since a capture takes
longer than a nanosecond. Two elements are started, so the second meets what the
first left. The driver grants one to three buffers (the code has room for four
and does not check, which is an assumption here and a hazard in the list).

The run shows what the exceptions in its properties say. A start that fails after
the buffers were granted leaves the device open and owned: every later start of
the process gets `EBUSY`, and MediaStream will retry for ever. A device that
answers `EIO` keeps `create` in its loop, out of reach of `unlock`; MediaStream's
watchdog is what ends that. After one failed `VIDIOC_DQBUF` every later
`VIDIOC_QBUF` is refused and blank frames go out until the application acts on
the error that was posted.

### FlvDemux and FlvDemuxPull
Files of three to six tags, each for a case that comments in the MC modules name: an index at the end or the start, none, one that
cannot be made past an unknown tag; audio alone; a configuration that is missing,
late, or comes again; times that turn back by less and by more than the threshold
or pass the largest (`U32 = 16`, the thresholds four and six); a stream that comes
too late; metadata that comes late; packets without a frame. Chunks are of one to
three units, which is from less than a tag to more than one. Two seeks, or one
and a restart, are what it takes for one to overtake another; their targets lie
before and after what the index reaches. In push mode the instance is in two parts
(`Scenario`): files that are sought in, of which downstream takes everything, and
files that are not, with every refusal. In pull mode downstream may refuse at any
time. The scan threshold (`INDEX_AHEAD`) and the margin in reverse (`PAST_STOP`)
are one millisecond instead of ten and two seconds.

What the exceptions in the properties say of push mode: the application's thread
writes the request without the stream lock, so that chain may meet a seek that is
not complete, serve one twice or read one that is gone (`null_seek`); a seek that
is refused because upstream cannot seek leaves the state behind; `building_index`
is never reset, so that a second seek that needs an index waits for a chunk that
may not come; a seek without a flush leaves the parser in the middle of a tag, and
so does one to where playback already is, which sets the state and keeps the bytes
(`stayed`). `DeliversInOrder` gives the order up only once such bytes were parsed as
what they are not or chain met a seek that was not done with (`~Calm`). Where the
times of a stream turn back by the threshold, downstream is given later ones, and the
index holds the time that was given (`TurnsBack` in `IndexTrue`).

And of pull mode. A seek without a flush to where playback already is moves
nothing and leaves the state SEEK, so that an older seek that waits for the scan
is made after it (`stayed`). When the pull of the header fails because of a
flush, `index_max_pos` is 0, and the next scan stops at once. In reverse,
the end of the file in the first section ends playback, for a pull that fails is
not the end of a section, and so does a section without a frame, for
`gst_flv_demux_seek_to_prev_keyframe` takes it for the last. A pad that would
come after an end was announced is not made any more. A seek past a configuration
that was scanned and never parsed leaves the frames after it without one, and they
are dropped; the files begin with their configuration, so this is not a case of
the run.

### TextOverlay
Two frames out of two, one without a duration, and two texts out of three, which end
with a frame, within one, and never. Two units are a
frame. Three events (segments, gaps, ends, flushes, links, properties, captions,
a start) come at any place, which is a flush and something beside it. The two halves of the element do not meet
(`OneOrTheOther`): where there is no text pad, as in the clock, the run varies
what is negotiated with downstream; where there is one, what arrives on it. The text
segment of the instance continues the running time of the one before, as a
segment of a stream does; that of the video begins after one frame's start and ends
before the other's end, and in the segment the element begins with both are whole.
The video has two sizes: in one a text may have no room, in the other it may be a
line.

Observations of the run, each an exception in a property: a frame that reaches out
of its segment is compared with its times from before clipping, which have no running
time: over the start, a text that is due is dropped (`begins`), over the end, a text
is drawn too early or dropped too soon (`whole`); a text that has no room is not
drawn and `need_render` is cleared nevertheless, so that the picture of the text
before stays and goes out with the frames that follow; a text is taken out
of the slot after the push, when another may have come; a new text segment while a
text waits can put it into the future for good; unlinking the text pad, `silent`
and `wait-text` wake nobody; while a text that is not from the pad is drawn without
the lock, `need_render` can be set and then be cleared unseen, which the clock
survives because it compares its text; a SEGMENT does not end `video_eos`; a
flush that ends between the flags of `PAUSED_TO_READY` and the deactivation of
the pads lets a thread wait again.

## 4. Fairness

* **MediaStream**: weak fairness of `loop_run`, of each run thread outside
  `HangAt`, and of the owner's second steps (the join in `Close`, the store in
  `SetBitrate`): the operating system runs threads and their sleeps end. Nobody
  has to open, close or set anything. The bus loop has no fairness while the
  stream is not quitting, since nothing makes a message arrive; it looks at
  `mQuit` every 200 ms. A cancelled thread need not die.
* **ControlPlane**: weak fairness of each thread. A lock is held over a bounded
  number of steps and each thread asks for it once per call, so weak fairness is
  enough. No request, `q` or failure has to happen.
* **UnixDomainService**: weak fairness of the service, and of a client's reading,
  as the test client reads after each request. Without the latter `sendto` blocks
  for ever and one client stops the service for all.
* **FlvMux**: weak fairness of `aggregate`, the only task of the base class; on a
  live pipeline its timeout fires because the clock goes on.
* **UV4l2Src**: weak fairness of `create`, of a camera that is there, and of the
  clock; strong fairness of `Stop`, which competes for the live lock with a task
  that lets go of it between two calls. Failures are never forced.
* **TextOverlay**: weak fairness of the two threads and of a state change that
  has begun. Nothing has to arrive.
* **FlvDemux**, **FlvDemuxPull**: none. What they promise is stated of the moment
  playback ends or both threads are at rest.

## 5. Proofs

**`MediaStream_proofs`** holds for any set of runs, any `HangPolls`, any bitrates
and any `HangAt`; it assumes `RunsAssumption` (`NoRun` is not a run) and
`PollsAssumption` (`HangPolls` is a natural number).

* `TypeCorrect`: `TypeOK` with a bound that relates `i` to the place of the loop
  is inductive.
* `SingleRun`, `StaleUseNever`, `PipelinesReleased`, `HealthySpared` follow from
  one inductive invariant, `Safe`. `OneLiveRun` alone is not inductive: that
  `LoopSpawn` starts no second run depends on `mEnd` having been set by *this*
  run, hence `CurAlone` (`cur` is the only live run, `mEnd` implies it is gone,
  and a loop about to cancel, or a set `mFinish`, implies it is in its teardown).
  `LoopExists` ties the thread of `loop_run` to the owner, so that a deleted
  object has none; `PipelineOwned` says `mPipeline` names the live run after
  setup began, `ElementsOwned` and `PipelineFilled` say whose elements are where.
  All but the first are under `~late`.
* `BitrateKept` adds `BitrateInv`, which also speaks of the moment between the
  two steps of `SetBitrate` and of an encoder that is not yet in its pipeline.
* `DeathReported` adds `DeadInv`: at every place of a run that may lead
  `loop_run` to leave an open stream, either a restart has been asked for or
  there is an error or an empty bin.
* `StreamImplementsSession`: initial states map to initial states, and each
  action maps to one step of `StreamSession` or a stutter. The worker of the
  session is a function of the state only while there is at most one live run
  (`WorkerIsCur`), so the refinement rests on `Safe`.

**`FlvMux_proofs`** holds for any buffers, `MSECOND`, `U32`, `MAX_INDEX_ENTRIES`
and bounds; it assumes `MuxAssumption`.

* `MuxTypeCorrect`: the clamp, the subtraction modulo `U32` and partial pushes
  keep every time within 32 bits and every record in its type. One lemma per
  helper, one per action.
* `IndexSpace`: the rewritten index is never longer than `MAX_INDEX_ENTRIES`
  (lemma `IndexLenBound`, integer division), and the space left is either none
  or enough for a filler, for an index of any length.
* `TagsForward`, `TagsInTime`, `IndexPointsAtTags`, `DurationIsEnough` and
  `HeaderBeforeMedia` follow from one inductive invariant, `OutputInv`. None of the
  five properties is inductive: that the next tag is not before the last one
  depends on `last_dts`, which is the time of the last tag and not before any
  other, and that its time is its own depends on `first_timestamp` and on what
  waits in the queue not being before what was taken (`DataInv`, `QueueInv`). An
  index entry is right because `byte_count` is what has been pushed since the
  header, also when a push is refused midway; the duration because it is taken
  from the pads whose tags are out (`FileInv`).
* `MuxAssumption` asks for a clock of at least two milliseconds. With a clock of
  one, every time is 0 and `TimesKept` is false; `guint32` has 2^32.

**`RemoteService_proofs`** is about the two modules of the service. `ControlPlane` has
no constants; what the proofs add to its run is the argument.

* `HandlerAgrees`, `StaleNeedsMain`, `EndIsClean` and `OwnerKeepsOrder` follow from
  `ControlInv`. It says who holds `streamMutex` (exactly the thread whose place is
  between the lock and the unlock of a method, `MutexInv`), what the flag, the
  pointer and the object are at each of those places (`PlaceInv`), and that they
  agree when nobody is inside (`HandlerInv`). The property says the last of these
  only, and is inductive only with the others. `EndInv` orders the end of main
  after the join; `StatusInv` says why `GetStatus`, which takes no lock, is safe as
  long as the control thread is alone.

What it says of `UnixDomainService` holds for any clients, addresses and bounds; it
assumes `AddrAssumption` (no two clients are bound to one address, and each fits
in `sockaddr_un`) and `BoundAssumption`.

* `ServiceTypeCorrect`: in particular no address is longer than the buffer.
* `StrangersOnlyMisled`, from `ReplyInv`: while `recvfrom` has had room for every
  address, the bytes and the length that are kept when `Wait` comes to reply are
  the sender's (`AddressTrue`). The property alone says nothing of that moment.
* `RepliesKeptApart`: where all clients have addresses of one length, as those of
  the test client, `RepliesToSender`, which fails in general (section 6), holds.

**`UV4l2Src_proofs`** holds for any rate and unit of time and any grant of one to
four buffers (`SourceAssumption`; the code does not check for more).

* `SourceTypeCorrect`, from `TypeOK` and `Held`: what an element closes and unmaps
  it has opened and mapped, so the counts do not become negative.
* `UnlockEndsTheWait`, from `WaitInv`: who waits for the clock has stored its id.
* `StopIsClean`, from `CleanInv`, which also counts what a running element holds.
* `BuffersNeverLost`, from `BufferInv`: of the device of a running element, what
  is not queued or filled is the buffer `index` names, and only when `is_capture`
  says there is one; a filled buffer is not queued and is not filled twice. The
  property states the count only; it is inductive only with who has which.
* `FramesNeverOverlap`, from `FollowInv`: the frame that is made lies in its own
  period, although frame numbers and times are both rounded down. It rests on
  lemmas about the two roundings (`FrameAt`, `TimeOf`). Without a rate the times of
  the frames follow the clock.

**`TextOverlay_proofs`** holds for any frames, texts, segments, caps and peers; it
assumes `OverlayAssumption`. There is no type invariant: `Shape`, that the records
keep their fields, is enough, with the times of segments, texts and frames
(`TimesInv`) for the last of the theorems.

* `NobodyForgotten`, from `WaitInv`: while the video waits nothing has come that it
  waits for, or the text thread is about to tell it. It holds without the property
  `wait-text`, which may be set and reset while a thread waits.
* `ChosenTextIsDrawn`, from `PictureInv`: unless `need_render` is set, what was drawn
  last is the clock's last text, or the text in the slot, and the picture that is kept
  is what came of that drawing.
* `SentAsAnnounced`, from `AgreedInv`: unless a negotiation is due, the last one
  fits the caps of the video.
* `TextsAreShown`, from `TimesInv` and `SlotInv`: a text that is to leave the slot
  has ended by the end of the frame in hand, which has to survive the push, when
  the lock is not held and segments, gaps, links and flushes of the text come. Its
  hypothesis is that the running time of a text is its time, as in a stream that
  begins at zero and continues through its segments. It is needed: a text segment
  that moves a text which is just being drawn to a later running time makes it
  leave the slot too soon, and TLC finds this for a segment from 0 with base 2.
  `SlotInv` also says that the segment of the frame in hand does not change, so that
  a frame that is cut at its end is known to reach past the segment, where its end has
  no running time and counts as later than any text.

**`FlvTags_proofs`** has two theorems about the index and the lemmas that both modes
of the demuxer need. `LookupBefore` and `LookupAfter` say what
`gst_mem_index_get_assoc_entry` gives of any index whose entries were added in order:
nothing only when no entry is on the wanted side, never an entry on the other side,
and a key unit unless the walk of the list came to its end. They also say which key
units are passed over: a near hit gives the oldest entry of a value and an exact one
the newest, so that, with two video tags of one time, BEFORE may pass over the key
frame of the nearest earlier time when it is the second, and AFTER one of the very
time looked for when it is the first. The order is needed: an index built out of
order breaks both, which is the hazard at `gstmemindex.c:379`. The lemmas: that what
the lookup returns is an entry of the index or none (`SearchIn`, `WalkIn`), that
entries added point at tags, that each parser keeps the type of the demuxer's record,
and what a tag does to the pads (`MediaDoes`): a pad that lost its place says so in
its next buffer, and a frame is dropped only
before its configuration, of a stream that came too late, or when it is damaged.
Where a least element is needed (`Min` of a set of integers, the
first tag of a kind), it comes from `LeastNumber`, which says for a set what
induction says for a property and so needs no operator as a parameter.

**`FlvDemux_proofs`** holds for any files, chunks of any size, any seeks and answers of
upstream and downstream, widths of the clock and thresholds; the assumptions are those
of `FlvTags` and `FlvDemux` on their constants. There is no bound on seeks and restarts
in it. One lemma per action says what the action does (`ChainDoes`, `ServeSeekDoes`,
...); the four invariants below are proved on top of these, again action by action.

* `PushTypes`, from `PushInv`: the types, and where the two threads are. While chain
  runs it holds a chunk whose end is where upstream is (`ChainInv`), and only the
  flush of a seek of the application's thread makes the pads flush (`AppInv`), which
  also says what such a seek can still have in hand at each of its places.
* `IndexIsTrue`, from `IndexInv`. `IndexTrue` alone says nothing of the next entry: it
  is right because `cur_tag_offset` is where the tag at hand begins, which needs the
  offset to be that of the adapter (`Counted` in `OffsetInv`), also when upstream moves
  or a chunk is met in state SEEK at the start of a file (`Swallowed`); and because the
  time that is added up for a stream is that of a frame that was before (`TimeInv`).
* `FirstSeekAnswered`, from `AnsweredInv`: up to the moment when upstream is moved
  chain reads on from the start of the file (`WayInv`), chain has met the request or
  will with the next chunk (`MeetInv`), and as long as the event is there upstream has
  something to send that chain waits for (`AnswerInv`, one line for each place where
  chain may stand: the start of the file, the last four bytes, the last tag).
* `PushDelivers`: the initial states map to initial states of `FlvDelivery` and every
  step to one of its steps or a stutter, from `DeliverInv` and `IndexInv`. A stream
  that goes on without a mark (`GoesOn`) got the last frame behind the adapter's
  position, no frame of it lies in between, and the bytes at hand are those the
  parser's state stands for (`OrderInv`); only a pad that got a buffer and has its
  configuration is without a mark (`StreamInv`); and an upstream that cannot seek
  never has chain take its bytes for the last four of the file (`FixedInv`). The
  hypothesis `Settled` is the one of `PullDelivers` below; the files of `demux_push`
  in which seeks are made satisfy it (`PushFilesSettled`).

**`FlvDemuxPull_proofs`** holds for any files, seeks, answers of downstream, widths
of the clock and thresholds; the assumptions are those of `FlvTags` and
`FlvDemuxPull` on their constants.

* `PullTypes`: `TypeOK` with 20 fields of the demuxer and 13 of each pad.
* `LastSeekCounts`, from `SeekInv`: the pads flush only until the seek that began
  it has the stream lock (`FlushInv`); a task that does not run has been told to
  halt by a seek that will start it again, or has ended by itself (`HaltInv`); the
  seek asked for last is in the application's thread, in the request, or made
  (`AskedInv`). The property speaks only of the moments when both threads are at
  rest.
* `PullDelivers`: the initial states map to initial states of `FlvDelivery` and
  every step to one of its steps or a stutter. `PlaceInv` says where in the file
  the task stands: at the start of a tag, or past its type with `offset`,
  `cur_tag_offset` and the state of the parser in agreement; and that the index
  holds starts of tags, without which a seek would land between two. `StreamInv`
  says what the next buffer of a pad can be (`NextInv`): the frame after the last
  one delivered, or one that is marked.
* `PullDelivers` has a hypothesis, `Settled`: each stream has one codec, and a file
  whose video needs a configuration has no aspect ratio in its metadata. It is not
  there for the proof: for a change of caps, `gst_flv_demux_parse_tag_video` drops
  `video_codec_data` (line 1642) after the packet at hand was accepted; this packet
  goes out, the frames after it are dropped until the next configuration, and the
  first one then has no DISCONT. TLC finds it for a configuration, a frame, metadata
  with an aspect ratio, two frames, another configuration and a frame. The files of
  `demux_pull` satisfy the hypothesis, which the run evaluates
  (`PullFilesSettled`).

**Only model-checked**: liveness (`CloseReturns`, `Restarts`, `QuitReturns`,
`Answered`, `NoStarvation`, both `StopReturns`), which TLAPS does not do for
fairness and ENABLED; of the demuxer, `EndAfterLast` and `SeekSkipsNothing`, which
depend on where the lookup in the index leads, with its walk along the entries in the
order they were added, and on which frames a tag before them has hidden; and
`PlaysAll`, which sums up whole passes over the file in `past.played`. No module
declares a RECURSIVE operator.

## 6. Where the code and its comments disagree

* **`CancelledIsDeadlocked`** (`MediaStream.cpp:543`, "th is deadlock"): a run
  whose teardown ends after the watchdog's last look at `mEnd` is cancelled
  although it is no deadlocked thread but none at all; it was detached, so its
  handle is invalid.
* **`RepliesToSender`** (`UnixDomainService.cpp:83`): `fromLength` is set once,
  before the loop, but `recvfrom` takes it as the room for the address and
  overwrites it. After a client without an address it is zero, the next sender's
  address is not stored, and the length that is then set makes the old bytes
  count: the reply goes to the client before. The test client takes whatever it
  receives as its answer.

The usage text gives defaults of 24 and 60 frames per second (`main.cpp:19`), but both
are 0 (line 44): without `-f` and `-F` the camera has no rate, which is the half of
the `camera` run in which frames have no length.

Two comments in the mux are about what the model also shows, without a run of
their own. "The timestamp will get wrapped" (`gstflvmux.c:1738`): the clamp to
`last_dts` at line 1080 runs on the wrapped value, so that from the wrap on (49.7
days of running time) every tag has the same time, which `NeverBackwards` allows
and `TimesKept` excepts. "Either a video keyframe or if there is no video pad"
(`gstflvmux.c:1403`): the test leaves out only video delta units, so beside a
video every audio buffer takes a place in the index.

## 7. What is not modelled

* Of the demuxer: SEGMENT seeks and seeks with a stop; an upstream that handles
  TIME itself, to which seeks are passed on; a magic that is not FLV (`strict` is
  never set, so it is ignored); queries, group ids and tag lists. Rate, width and
  channels of audio are folded into its codec. A table of times and filepositions
  is taken to be right, as a wrong one makes the demuxer seek wherever it says.
* Of the index: what nobody uses (filters, groups, resolvers, object entries).
* Of the overlay: pixels, positions and fonts, the format of the time, caps
  queries, a composition that comes from upstream with the frame, and the size of
  the window.
* Of the camera: `create` without a clock (`uv4l2src.c:277`). GStreamer gives a
  pipeline one before it plays.
* The layout of the pipeline (`setupPipeline` and the `add*` functions choose
  elements by input type): reduced to "elements are made, added, linked, or one
  of these fails".
* The fields and formats of requests, the bytes of FLV tags and metadata, codec
  data itself: data that no property tells apart.
* GStreamer's base classes, V4L2, sockets and threads: only as the code uses
  them; such definitions are marked external in the map.
* cJSON and tinylog (third party), the test scripts, command-line parsing and
  logging.
* Reference counts and memory; the leaks met on the way are named in section 1.

## 8. Plan

Done, in this order: `MediaStream` with `StreamSession` and its proofs,
`ControlPlane`, `UnixDomainService`, `FlvMux` with its first proofs, `UV4l2Src`;
then `MemIndex`, `FlvTags` and the demuxer in both modes with `FlvDelivery`,
`TextOverlay`, and the proofs of the service, the camera and the overlay; then the
proofs of `ControlPlane`, of what `FlvMux` writes, and of the demuxer in both modes.

What would come next:

1. `PipelineGraph`: which elements `setupPipeline` makes and links for each input
   and configuration, what each failure leaves behind, the descriptors opened.
2. `FlvMux`'s output as the input of `FlvDemux` (what is written is read back with
   the same order and times); `ControlPlane` with an INSTANCE of `MediaStream`'s
   owner, if its state space allows.
3. Theorems: `EndAfterLast` and `SeekSkipsNothing`, from what `Search` and `Walk`
   return in an index whose entries are right (`IndexIsTrue`); `PlaysAll` for playback
   forwards, from an invariant that nothing wanted lies between the offset sought and
   what has been played.
