----------------------------- MODULE MediaStream -----------------------------
(***************************************************************************)
(* One MediaStream object (src/src/MediaStream.cpp) and the three kinds of *)
(* thread that share its unprotected members:                              *)
(*                                                                         *)
(*   owner   the caller of Open, SetBitrate, Close and of the destructor;  *)
(*           ControlHandler serialises these calls with its streamMutex,   *)
(*           so one program counter stands for all callers;                *)
(*   loop    the thread of loop_run, which spawns one detached run after   *)
(*           another and watches the teardown of each;                     *)
(*   r       a run thread: it builds a pipeline, polls its bus and tears   *)
(*           it down.  A run's name also names the pipeline it creates.    *)
(*                                                                         *)
(* Each action is the code between two accesses to shared members that     *)
(* another thread could tell apart.  A run that pthread_cancel has hit may *)
(* die, may hang for ever, or may go on (cancellation is deferred to the   *)
(* next cancellation point); the history variable late says that one went  *)
(* on, or that a streaming thread of its abandoned pipeline called back.   *)
(***************************************************************************)
EXTENDS Naturals

CONSTANTS Runs,       \* slots for run threads, and names of their pipelines
          NoRun,      \* a pipeline pointer that is not initialised
          HangPolls,  \* 25 in the code: polls of mFinish before the cancel
          Bitrates,   \* bitrates a client asks for
          HangAt      \* places of a run where GStreamer may block for ever

ASSUME RunsAssumption == NoRun \notin Runs
ASSUME PollsAssumption == HangPolls \in Nat

VARIABLES
  owner,      \* where the caller is in the life of the object
  br,         \* SetBitrate's argument between its two steps
  mQuit, mRestart, mEnd, mFinish,   \* the flags the threads talk through
  mErrorMsg,  \* TRUE when the message is not empty
  mBitrate,
  mPipeline,  \* the run whose pipeline the member points to
  mElements,  \* the runs that have pushed elements since the last clear
  loop, i, cur,   \* loop_run: place, poll counter, the run it watches (h)
  pc,         \* where each run is; "gone" when its thread does not exist
  cancelled,  \* runs that pthread_cancel has been called for
  pipe,       \* each run's pipeline object
  enc,        \* the bitrate each pipeline's encoder has been given
  overlap,    \* history: mPipeline's encoder was made inside a SetBitrate
  late,       \* history: something of a cancelled run has acted
  faults      \* history: kinds of misuse that have happened

ownerVars == <<owner, br>>
loopVars == <<loop, i, cur>>
flags == <<mQuit, mRestart, mEnd, mFinish>>
data == <<mErrorMsg, mBitrate, mPipeline, mElements>>
gst == <<pipe, enc, overlap>>
vars == <<ownerVars, loopVars, flags, data, gst, pc, cancelled, late, faults>>

OwnerPlaces == {"none", "new", "open", "setbr", "join", "closed"}
LoopPlaces == {"none", "check", "spawn", "wait", "cancel", "done"}
Building == {"start", "setup", "build", "add", "link"}
Playing == {"bus", "poll"}
Teardown == {"stop", "unref", "end"}
Failing == {"dead", "failed", "rearm"}
RunPlaces == {"gone", "finish"} \cup Building \cup Playing \cup Teardown
               \cup Failing
Faults == {"stream", "pipeline", "elements", "bitrate", "cancel"}

TypeOK ==
  /\ owner \in OwnerPlaces
  /\ br \in Bitrates
  /\ mQuit \in BOOLEAN /\ mRestart \in BOOLEAN
  /\ mEnd \in BOOLEAN /\ mFinish \in BOOLEAN
  /\ mErrorMsg \in BOOLEAN
  /\ mBitrate \in Bitrates
  /\ mPipeline \in Runs \cup {NoRun}
  /\ mElements \in SUBSET Runs
  /\ loop \in LoopPlaces
  /\ i \in 0..(HangPolls + 1)
  /\ cur \in Runs \cup {NoRun}
  /\ pc \in [Runs -> RunPlaces]
  /\ cancelled \in [Runs -> BOOLEAN]
  /\ pipe \in [Runs -> {"none", "bin", "full", "freed"}]
  /\ enc \in [Runs -> Bitrates]
  /\ overlap \in BOOLEAN
  /\ late \in BOOLEAN
  /\ faults \in SUBSET Faults

\* No object yet.  The members the constructor does not set hold anything.
Init ==
  /\ owner = "none"
  /\ \E b \in Bitrates : br = b /\ enc = [r \in Runs |-> b]
  /\ mQuit \in BOOLEAN /\ mRestart \in BOOLEAN /\ mBitrate \in Bitrates
  /\ mEnd = FALSE /\ mFinish = FALSE /\ mErrorMsg = FALSE
  /\ mPipeline = NoRun /\ mElements = {}
  /\ loop = "none" /\ i = 0 /\ cur = NoRun
  /\ pc = [r \in Runs |-> "gone"]
  /\ cancelled = [r \in Runs |-> FALSE]
  /\ pipe = [r \in Runs |-> "none"]
  /\ overlap = FALSE /\ late = FALSE /\ faults = {}

-----------------------------------------------------------------------------
(* The owner: constructor, Open, SetBitrate, Close, destructor.            *)

\* Threads abandoned by an earlier object keep to the memory of that object,
\* so a new object forgets them (the bound on how long they are followed).
New ==
  /\ owner = "none"
  /\ owner' = "new"
  /\ mEnd' = FALSE /\ mFinish' = FALSE /\ mErrorMsg' = FALSE
  /\ mPipeline' = NoRun /\ mElements' = {}
  /\ pc' = [r \in Runs |-> "gone"]
  /\ cancelled' = [r \in Runs |-> FALSE]
  /\ pipe' = [r \in Runs |-> "none"]
  /\ overlap' = FALSE /\ late' = FALSE /\ faults' = {}
  /\ UNCHANGED <<br, mQuit, mRestart, mBitrate, enc, loopVars>>

Open(b) ==
  /\ owner = "new"
  /\ owner' = "open"
  /\ mBitrate' = b
  /\ mQuit' = FALSE /\ mRestart' = TRUE
  /\ loop' = "check"
  /\ UNCHANGED <<br, mEnd, mFinish, mErrorMsg, mPipeline, mElements, i, cur,
                 gst, pc, cancelled, late, faults>>

\* setInputType knows no such device; ControlHandler deletes the object.
OpenFails ==
  /\ owner = "new"
  /\ owner' = "none"
  /\ UNCHANGED <<br, loopVars, flags, data, gst, pc, cancelled, late, faults>>

\* The encoder is found, and given the bitrate, while its pipeline holds it.
SetBitrate(b) ==
  /\ owner = "open" /\ b # mBitrate
  /\ mPipeline \in Runs /\ pipe[mPipeline] = "full"
  /\ enc' = [enc EXCEPT ![mPipeline] = b]
  /\ owner' = "setbr" /\ br' = b
  /\ UNCHANGED <<loopVars, flags, data, pipe, overlap, pc, cancelled,
                 late, faults>>

\* mPipeline does not point to a pipeline: not yet, or no longer.
SetBitrateDangling(b) ==
  /\ owner = "open" /\ b # mBitrate
  /\ mPipeline \in Runs => pipe[mPipeline] = "freed"
  /\ faults' = faults \cup {"bitrate"}
  /\ UNCHANGED <<ownerVars, loopVars, flags, data, gst, pc, cancelled, late>>

\* Mutant: the member is not updated.
SetBitrateStore_Lost ==
  /\ owner = "setbr" /\ owner' = "open"
  /\ UNCHANGED <<br, loopVars, flags, data, gst, pc, cancelled, late, faults>>

SetBitrateStore ==
  /\ owner = "setbr"
  /\ owner' = "open" /\ mBitrate' = br
  /\ UNCHANGED <<br, loopVars, flags, mErrorMsg, mPipeline, mElements, gst,
                 pc, cancelled, late, faults>>

Close ==
  /\ owner = "open"
  /\ owner' = "join" /\ mQuit' = TRUE
  /\ UNCHANGED <<br, loopVars, mRestart, mEnd, mFinish, data, gst, pc,
                 cancelled, late, faults>>

CloseJoin ==
  /\ owner = "join" /\ loop = "done"
  /\ owner' = "closed" /\ loop' = "none"
  /\ UNCHANGED <<br, i, cur, flags, data, gst, pc, cancelled, late, faults>>

Delete ==
  /\ owner = "closed"
  /\ owner' = "none"
  /\ UNCHANGED <<br, loopVars, flags, data, gst, pc, cancelled, late, faults>>

-----------------------------------------------------------------------------
(* loop_run: the watchdog thread.                                          *)

\* Mutant: mQuit is not looked at.
LoopCheck_IgnoresQuit ==
  /\ loop = "check" /\ loop' = IF mRestart THEN "spawn" ELSE "done"
  /\ UNCHANGED <<ownerVars, i, cur, flags, data, gst, pc, cancelled,
                 late, faults>>

LoopCheck ==
  /\ loop = "check"
  /\ loop' = IF ~mQuit /\ mRestart THEN "spawn" ELSE "done"
  /\ UNCHANGED <<ownerVars, i, cur, flags, data, gst, pc, cancelled,
                 late, faults>>

\* The slot of a run that is gone or abandoned is used again, never the one
\* mPipeline still names (a bound: with n slots, n - 1 old runs are followed).
LoopSpawn(r) ==
  /\ loop = "spawn"
  /\ r # mPipeline /\ (pc[r] = "gone" \/ cancelled[r])
  /\ loop' = "wait" /\ i' = 0 /\ cur' = r
  /\ mFinish' = FALSE /\ mEnd' = FALSE
  /\ pc' = [pc EXCEPT ![r] = "start"]
  /\ cancelled' = [cancelled EXCEPT ![r] = FALSE]
  /\ pipe' = [pipe EXCEPT ![r] = "none"]
  /\ UNCHANGED <<ownerVars, mQuit, mRestart, data, enc, overlap, late, faults>>

\* What the mutants of LoopPoll have in common.
Polling(counts, limit, after) ==
  /\ loop = "wait"
  /\ IF mEnd
       THEN loop' = "check" /\ i' = i
       ELSE /\ counts
            /\ i' = i + 1
            /\ loop' = IF i' > limit THEN after ELSE "wait"
  /\ UNCHANGED <<ownerVars, cur, flags, data, gst, pc, cancelled,
                 late, faults>>

\* Mutants: the thread is not cancelled; polls are never counted.
LoopPoll_NoCancel == Polling(mFinish, HangPolls, "check")
LoopPoll_NoCount == Polling(FALSE, HangPolls, "cancel")

\* One turn of the loop that waits for mEnd, counting once mFinish is set.
LoopPoll ==
  /\ loop = "wait"
  /\ IF mEnd
       THEN loop' = "check" /\ i' = i
       ELSE /\ mFinish
            /\ i' = i + 1
            /\ loop' = IF i' > HangPolls THEN "cancel" ELSE "wait"
  /\ UNCHANGED <<ownerVars, cur, flags, data, gst, pc, cancelled,
                 late, faults>>

\* "th is deadlock": pthread_cancel(h).  The detached thread may have ended
\* since mEnd was read; h then names no thread.
LoopCancel ==
  /\ loop = "cancel"
  /\ loop' = "check"
  /\ cancelled' = [cancelled EXCEPT ![cur] = TRUE]
  /\ faults' = IF pc[cur] = "gone" THEN faults \cup {"cancel"} ELSE faults
  /\ UNCHANGED <<ownerVars, i, cur, flags, data, gst, pc, late>>

-----------------------------------------------------------------------------
(* run, setupPipeline and handleErrorMessage: the pipeline threads.        *)

\* r moves from one place to another, touching the object as it does so.
Move(r, from, to) ==
  /\ pc[r] = from
  /\ pc' = [pc EXCEPT ![r] = to]
  /\ late' = (late \/ cancelled[r])
  /\ UNCHANGED <<ownerVars, loopVars, mQuit, mBitrate, cancelled>>

\* The misuse in a step of r: the object is deleted, or a shared member
\* (its own says which) does not hold what r put there.
Misuse(kinds) ==
  faults' = faults \cup kinds \cup (IF owner = "none" THEN {"stream"} ELSE {})

\* What r does with mPipeline is done to another run's pipeline.
StalePipeline(r) == IF mPipeline = r THEN {} ELSE {"pipeline"}

\* gst_object_unref(mPipeline)
Unreferenced == [p \in Runs |-> IF p = mPipeline THEN "freed" ELSE pipe[p]]

RunStart(r) ==
  /\ Move(r, "start", "setup")
  /\ mRestart' = FALSE
  /\ Misuse({})
  /\ UNCHANGED <<mEnd, mFinish, mErrorMsg, mPipeline, mElements, gst>>

SetupNew(r) ==
  /\ Move(r, "setup", "build")
  /\ mPipeline' = r
  /\ pipe' = [pipe EXCEPT ![r] = "bin"]
  /\ Misuse({})
  /\ UNCHANGED <<mRestart, mEnd, mFinish, mErrorMsg, mElements, enc, overlap>>

\* addSource < 0: the pipeline is not released and no error is stored.
SetupSourceFails(r) ==
  /\ Move(r, "build", "dead")
  /\ Misuse({})
  /\ UNCHANGED <<mRestart, mEnd, mFinish, data, gst>>

\* addSource to addRTMPSink: the elements, the encoder with mBitrate.
SetupElements(r) ==
  /\ Move(r, "build", "add")
  /\ mElements' = mElements \cup {r}
  /\ enc' = [enc EXCEPT ![r] = mBitrate]
  /\ overlap' = (owner = "setbr")
  /\ Misuse({})
  /\ UNCHANGED <<mRestart, mEnd, mFinish, mErrorMsg, mPipeline, pipe>>

\* Everything in mElements is added to mPipeline.
SetupAdd(r) ==
  /\ Move(r, "add", "link")
  /\ pipe' = [pipe EXCEPT ![r] = "full"]
  /\ Misuse(StalePipeline(r) \cup
            (IF mElements = {r} THEN {} ELSE {"elements"}))
  /\ UNCHANGED <<mRestart, mEnd, mFinish, data, enc, overlap>>

SetupLinkFails(r) ==
  /\ Move(r, "link", "dead")
  /\ mErrorMsg' = TRUE
  /\ pipe' = Unreferenced
  /\ Misuse(StalePipeline(r))
  /\ UNCHANGED <<mRestart, mEnd, mFinish, mPipeline, mElements, enc, overlap>>

SetupPlays(r) ==
  /\ Move(r, "link", "bus")
  /\ Misuse(StalePipeline(r))
  /\ UNCHANGED <<mRestart, mEnd, mFinish, data, gst>>

\* PLAYING is refused: the error, if the bus has one, is stored.
SetupPlayFails(r) ==
  /\ Move(r, "link", "failed")
  /\ mErrorMsg' \in {mErrorMsg, TRUE}
  /\ pipe' = Unreferenced
  /\ Misuse(StalePipeline(r))
  /\ UNCHANGED <<mRestart, mEnd, mFinish, mPipeline, mElements, enc, overlap>>

BusFails(r) ==
  /\ Move(r, "bus", "failed")
  /\ pipe' = Unreferenced
  /\ Misuse(StalePipeline(r))
  /\ UNCHANGED <<mRestart, mEnd, mFinish, data, enc, overlap>>

BusOpens(r) ==
  /\ Move(r, "bus", "poll")
  /\ Misuse(StalePipeline(r))
  /\ UNCHANGED <<mRestart, mEnd, mFinish, data, gst>>

\* One turn of the bus loop: nothing for 200 ms, an error, the end of the
\* stream, a fall from PLAYING (with an error on the bus or not), or a
\* message that changes nothing; then the loop's condition.
Poll(r) ==
  /\ \E out \in {"quiet", "error", "eos", "fall", "other"} :
       /\ mErrorMsg' \in CASE out = "quiet" -> {FALSE}
                          [] out = "error" -> {TRUE}
                          [] out = "fall"  -> {mErrorMsg, TRUE}
                          [] OTHER         -> {mErrorMsg}
       /\ mRestart' = (mRestart \/ out \in {"error", "eos", "fall"})
  /\ Move(r, "poll", IF mRestart' \/ mQuit THEN "finish" ELSE "poll")
  /\ Misuse({})
  /\ UNCHANGED <<mEnd, mFinish, mPipeline, mElements, gst>>

\* The watchdog counts from here; mElements.clear() follows at once, and no
\* thread is starved for HangPolls polls in between.
Finish(r) ==
  /\ Move(r, "finish", "stop")
  /\ mFinish' = TRUE
  /\ mElements' = {}
  /\ Misuse({})
  /\ UNCHANGED <<mRestart, mEnd, mErrorMsg, mPipeline, gst>>

\* Mutant: the elements of the failed pipeline stay.
ClearElements_Skipped(r, from, to) ==
  /\ Move(r, from, to)
  /\ Misuse({})
  /\ UNCHANGED <<mRestart, mEnd, mFinish, data, gst>>

\* mElements.clear() when the pipeline did not come up.
ClearElements(r, from, to) ==
  /\ Move(r, from, to)
  /\ mElements' = {}
  /\ Misuse({})
  /\ UNCHANGED <<mRestart, mEnd, mFinish, mErrorMsg, mPipeline, gst>>

\* set_state to PAUSED, then to NULL: either may block.
Stop(r) ==
  /\ Move(r, "stop", "unref")
  /\ Misuse(StalePipeline(r))
  /\ UNCHANGED <<mRestart, mEnd, mFinish, data, gst>>

\* Mutant: the reference is kept.
Unref_Leaks(r) ==
  /\ Move(r, "unref", "end")
  /\ Misuse(StalePipeline(r))
  /\ UNCHANGED <<mRestart, mEnd, mFinish, data, gst>>

\* The reference that is dropped is the one mPipeline holds now.
Unref(r) ==
  /\ Move(r, "unref", "end")
  /\ pipe' = Unreferenced
  /\ Misuse(StalePipeline(r))
  /\ UNCHANGED <<mRestart, mEnd, mFinish, data, enc, overlap>>

\* Mutant: mRestart stays FALSE.
Rearm_Dropped(r) ==
  /\ Move(r, "rearm", "end")
  /\ Misuse({})
  /\ UNCHANGED <<mRestart, mEnd, mFinish, data, gst>>

\* A pipeline that did not start, or has no bus, is tried again.
Rearm(r) ==
  /\ Move(r, "rearm", "end")
  /\ mRestart' = TRUE
  /\ Misuse({})
  /\ UNCHANGED <<mEnd, mFinish, data, gst>>

\* Mutant: mRestart is reset at the end of the run instead of its start.
End_ResetsRestart(r) ==
  /\ Move(r, "end", "gone")
  /\ mEnd' = TRUE /\ mRestart' = FALSE
  /\ Misuse({})
  /\ UNCHANGED <<mFinish, data, gst>>

End(r) ==
  /\ Move(r, "end", "gone")
  /\ mEnd' = TRUE
  /\ Misuse({})
  /\ UNCHANGED <<mRestart, mFinish, data, gst>>

\* The cancelled thread unwinds at a cancellation point.
Die(r) ==
  /\ cancelled[r] /\ pc[r] # "gone"
  /\ pc' = [pc EXCEPT ![r] = "gone"]
  /\ UNCHANGED <<ownerVars, loopVars, flags, data, gst, cancelled,
                 late, faults>>

\* pad-added, called by a streaming thread of r's pipeline, looks for depay
\* in the pipeline the member points to.
OnRtspPadAdded(r) ==
  /\ pipe[r] = "full"
  /\ pc[r] \in Playing \cup {"finish", "stop"} \/ cancelled[r]
  /\ late' = (late \/ cancelled[r])
  /\ Misuse(StalePipeline(r))
  /\ UNCHANGED <<ownerVars, loopVars, flags, data, gst, pc, cancelled>>

Setup(r) ==
  \/ RunStart(r) \/ SetupNew(r) \/ SetupSourceFails(r) \/ SetupElements(r)
  \/ SetupAdd(r) \/ SetupLinkFails(r) \/ SetupPlays(r) \/ SetupPlayFails(r)

RunStep(r) ==
  \/ Setup(r)
  \/ BusFails(r) \/ BusOpens(r) \/ Poll(r) \/ Finish(r)
  \/ ClearElements(r, "dead", "end")
  \/ ClearElements(r, "failed", "rearm")
  \/ Stop(r) \/ Unref(r) \/ Rearm(r) \/ End(r)

LoopStep == LoopCheck \/ LoopPoll \/ LoopCancel \/ \E r \in Runs : LoopSpawn(r)

OwnerStep ==
  \/ New \/ OpenFails \/ SetBitrateStore \/ Close \/ CloseJoin \/ Delete
  \/ \E b \in Bitrates : Open(b) \/ SetBitrate(b) \/ SetBitrateDangling(b)

Next ==
  \/ OwnerStep
  \/ LoopStep
  \/ \E r \in Runs : RunStep(r) \/ Die(r) \/ OnRtspPadAdded(r)

\* The sleeps of loop_run and the calls of a run end, except GStreamer's at
\* HangAt.  Nothing makes the bus deliver a message, so a run leaves its bus
\* loop for certain only when it is told to quit.
RunsOn(r) ==
  /\ pc[r] \notin HangAt
  /\ pc[r] = "poll" => mQuit
  /\ RunStep(r)

Fairness ==
  /\ WF_vars(LoopStep)
  /\ WF_vars(CloseJoin) /\ WF_vars(SetBitrateStore)
  /\ \A r \in Runs : WF_vars(RunsOn(r))

Spec == Init /\ [][Next]_vars
FairSpec == Spec /\ Fairness

-----------------------------------------------------------------------------
(* Safety.  Every property but TypeOK speaks of the time before something  *)
(* of a cancelled run acts: after that the object's members are shared by  *)
(* two pipelines, or are freed memory, and the code promises nothing.      *)

Live == {r \in Runs : pc[r] # "gone" /\ ~cancelled[r]}

\* There is never a second run beside the one loop_run waits for, and none
\* at all while loop_run decides whether to go on, once it has left, and
\* after Close or the destructor: run uses the object without any lock.
OneLiveRun ==
  ~late => Live \subseteq (IF loop \in {"wait", "cancel"} THEN {cur} ELSE {})

\* No run touches a deleted object, works on the pipeline of another run or
\* links elements of another run; of all the misuse the model knows, only a
\* SetBitrate outside a pipeline's life and a late cancel remain.
NoStaleUse ==
  ~late => faults \subseteq {"bitrate", "cancel"}

\* When a run has ended, its pipeline has been released, unless the watchdog
\* gave it up; only a failed addSource leaves an empty pipeline behind.
PipelineReleased ==
  ~late => \A r \in Runs : pc[r] = "gone" /\ ~cancelled[r]
                              => pipe[r] \in {"none", "bin", "freed"}

\* Between two SetBitrate calls the encoder of the pipeline that runs has
\* the member's bitrate, across restarts; otherwise the test for a change in
\* SetBitrate would drop the client's next request.  The exception is an
\* encoder made while a SetBitrate was between its two steps.
BitrateAgrees ==
  ~late /\ owner = "open" /\ mPipeline \in Runs /\ ~overlap
    => (pipe[mPipeline] = "full" => enc[mPipeline] = mBitrate)

\* A stream that has stopped trying, unasked, reports an error: GetStatus is
\* all a client has to find out.  The exception is a failed addSource, whose
\* pipeline stays an empty bin.
DeadStreamReports ==
  ~late /\ owner = "open" /\ loop = "done"
    => mErrorMsg \/ pipe[mPipeline] = "bin"

\* "th is deadlock": a thread the watchdog cancels is blocked, so it has not
\* ended.  The code does not ensure it.
CancelledIsDeadlocked == ~late => "cancel" \notin faults

\* The watchdog never cancels a run that builds or plays.
WatchdogSparesHealthy ==
  [][\A r \in Runs : ~cancelled[r] /\ cancelled'[r]
        => late \/ pc[r] \in Teardown \cup {"gone"}]_vars

-----------------------------------------------------------------------------
(* Liveness, under FairSpec.                                               *)

\* Close returns although a teardown hangs in GStreamer.
CloseReturns == owner = "join" ~> owner = "closed" \/ late

\* A stream whose pipeline fails while it plays is started again.
Restarts ==
  \A r \in Runs : pc[r] = "finish" /\ ~mQuit
                    ~> loop = "spawn" \/ mQuit \/ late

-----------------------------------------------------------------------------
(* The promise to the caller.  The worker of the session is the one run    *)
(* that is alive and not cancelled; that is a function of the state only   *)
(* because OneLiveRun holds.                                               *)

SessionOf ==
  CASE owner \in {"open", "setbr"} -> "open"
    [] owner = "join" -> "closing"
    [] OTHER -> "none"

WorkerOf ==
  CASE loop = "spawn" -> "due"
    [] \E r \in Live : pc[r] \in Building -> "building"
    [] \E r \in Live : pc[r] \in Playing -> "playing"
    [] \E r \in Live : pc[r] \in {"finish"} \cup Teardown \cup Failing -> "stopping"
    [] OTHER -> "idle"

Session == INSTANCE StreamSession
             WITH session <- SessionOf, worker <- WorkerOf, void <- late

\* The threads, flags and watchdog implement the plain session.
ImplementsSession == Session!SessionSpec

=============================================================================
