-------------------------- MODULE MediaStream_proofs --------------------------
(***************************************************************************)
(* Proofs about MediaStream, for any slots, bitrates and watchdog limit.   *)
(*                                                                         *)
(* TypeInv is inductive by itself.  Safe, the inductive invariant of the   *)
(* safety properties, follows the one fact that makes them true: until     *)
(* something of a cancelled run acts, only cur, the run loop_run waits     *)
(* for, touches the object, and mEnd tells loop_run when cur has left.     *)
(***************************************************************************)
EXTENDS MediaStream, TLAPS

TypeInv == TypeOK /\ (loop = "wait" => i <= HangPolls)

-----------------------------------------------------------------------------
(* The parts of the inductive invariant.                                   *)

Waiting == loop \in {"wait", "cancel"}

\* loop_run exists between Open and the end of Close, which sets mQuit.
LoopExists ==
  /\ owner \in {"none", "new", "closed"} <=> loop = "none"
  /\ owner = "join" => mQuit

\* cur is the only live run; mEnd says that it has left, and a watchdog that
\* is about to cancel it has seen it in its teardown.
CurAlone ==
  /\ \A r \in Runs : pc[r] # "gone" /\ ~cancelled[r] => Waiting /\ r = cur
  /\ Waiting => cur \in Runs /\ ~cancelled[cur] /\ (mEnd => pc[cur] = "gone")
  /\ Waiting /\ (mFinish \/ loop = "cancel")
       => pc[cur] \in Teardown \cup {"gone"}

\* After setup the member points to the pipeline of the run that is live.
PipelineOwned ==
  /\ \A r \in Runs : pc[r] \notin {"gone", "start", "setup"} /\ ~cancelled[r]
                        => mPipeline = r
  /\ owner = "new" => mPipeline = NoRun

\* mElements holds nothing, or what cur has pushed and not yet cleared.
ElementsOwned ==
  /\ \/ mElements = {}
     \/ /\ loop = "wait" /\ mElements = {cur}
        /\ pc[cur] \in {"add", "link", "finish", "dead", "failed"} \cup Playing
  /\ Waiting /\ pc[cur] = "add" => mElements = {cur}

\* A pipeline holds its elements only while its run is between setup and
\* teardown, or has been cancelled there.
PipelineFilled ==
  \A r \in Runs : pipe[r] = "full"
     => cancelled[r] \/ pc[r] \in {"link", "finish", "stop", "unref"} \cup Playing

Safe ==
  /\ LoopExists
  /\ ~late => /\ CurAlone /\ PipelineOwned /\ ElementsOwned /\ PipelineFilled
              /\ NoStaleUse

IInv == TypeInv /\ Safe

-----------------------------------------------------------------------------
(* Type correctness.                                                       *)

\* Every action keeps every variable of MediaStream within its type.
LEMMA TypeStep == TypeInv /\ [Next]_vars => TypeInv'
<1> SUFFICES ASSUME TypeInv, [Next]_vars PROVE TypeInv'
  OBVIOUS
<1> USE RunsAssumption, PollsAssumption
<1> USE DEF TypeInv, TypeOK, OwnerPlaces, LoopPlaces, RunPlaces, Faults,
            Building, Playing, Teardown, Failing
<1>1. New => TypeInv'
  BY ZenonT(60) DEF New, ownerVars, loopVars, flags, data, gst
<1>2. OpenFails => TypeInv'
  BY DEF OpenFails, ownerVars, loopVars, flags, data, gst
<1>3. SetBitrateStore => TypeInv'
  BY DEF SetBitrateStore, ownerVars, loopVars, flags, data, gst
<1>4. Close => TypeInv'
  BY DEF Close, ownerVars, loopVars, flags, data, gst
<1>5. CloseJoin => TypeInv'
  BY DEF CloseJoin, ownerVars, loopVars, flags, data, gst
<1>6. Delete => TypeInv'
  BY DEF Delete, ownerVars, loopVars, flags, data, gst
<1>7. \A b \in Bitrates : Open(b) => TypeInv'
  BY DEF Open, ownerVars, loopVars, flags, data, gst
<1>8. \A b \in Bitrates : SetBitrate(b) => TypeInv'
  BY DEF SetBitrate, ownerVars, loopVars, flags, data, gst
<1>9. \A b \in Bitrates : SetBitrateDangling(b) => TypeInv'
  BY DEF SetBitrateDangling, ownerVars, loopVars, flags, data, gst
<1>10. LoopCheck => TypeInv'
  BY DEF LoopCheck, ownerVars, loopVars, flags, data, gst
<1>11. LoopPoll => TypeInv'
  BY DEF LoopPoll, ownerVars, loopVars, flags, data, gst
<1>12. LoopCancel => TypeInv'
  BY DEF LoopCancel, ownerVars, loopVars, flags, data, gst
<1>13. ASSUME NEW r \in Runs, LoopSpawn(r) PROVE TypeInv'
  <2>1. /\ i' = 0 /\ loop' = "wait" /\ cur' = r /\ ~mEnd' /\ ~mFinish'
        /\ pc' = [pc EXCEPT ![r] = "start"]
        /\ cancelled' = [cancelled EXCEPT ![r] = FALSE]
        /\ pipe' = [pipe EXCEPT ![r] = "none"]
        /\ UNCHANGED <<owner, br, mQuit, mRestart, mErrorMsg, mBitrate,
                       mPipeline, mElements, enc, overlap, late, faults>>
    BY <1>13 DEF LoopSpawn, ownerVars, data
  <2>2. mEnd' \in BOOLEAN /\ mFinish' \in BOOLEAN
    BY <1>13 DEF LoopSpawn
  <2>3. i' \in 0..(HangPolls + 1) /\ i' <= HangPolls
    BY <2>1
  <2> QED
    BY <2>1, <2>2, <2>3
<1>14. ASSUME NEW r \in Runs, RunStart(r) PROVE TypeInv'
  <2>1. mRestart' \in BOOLEAN
    BY <1>14 DEF RunStart
  <2> QED
    BY <1>14, <2>1 DEF RunStart, Move, Misuse, ownerVars, loopVars, data, gst
<1>15. \A r \in Runs : SetupNew(r) => TypeInv'
  BY DEF SetupNew, Move, Misuse, StalePipeline, Unreferenced, ownerVars, loopVars, flags, data, gst
<1>16. \A r \in Runs : SetupSourceFails(r) => TypeInv'
  BY DEF SetupSourceFails, Move, Misuse, StalePipeline, Unreferenced, ownerVars, loopVars, flags, data, gst
<1>17. \A r \in Runs : SetupElements(r) => TypeInv'
  BY DEF SetupElements, Move, Misuse, StalePipeline, Unreferenced, ownerVars, loopVars, flags, data, gst
<1>18. \A r \in Runs : SetupAdd(r) => TypeInv'
  BY DEF SetupAdd, Move, Misuse, StalePipeline, Unreferenced, ownerVars, loopVars, flags, data, gst
<1>19. \A r \in Runs : SetupLinkFails(r) => TypeInv'
  BY DEF SetupLinkFails, Move, Misuse, StalePipeline, Unreferenced, ownerVars, loopVars, flags, data, gst
<1>20. \A r \in Runs : SetupPlays(r) => TypeInv'
  BY DEF SetupPlays, Move, Misuse, StalePipeline, Unreferenced, ownerVars, loopVars, flags, data, gst
<1>21. \A r \in Runs : SetupPlayFails(r) => TypeInv'
  BY ZenonT(60) DEF SetupPlayFails, Move, Misuse, StalePipeline, Unreferenced, ownerVars, loopVars, flags, data, gst
<1>22. \A r \in Runs : BusFails(r) => TypeInv'
  BY DEF BusFails, Move, Misuse, StalePipeline, Unreferenced, ownerVars, loopVars, flags, data, gst
<1>23. \A r \in Runs : BusOpens(r) => TypeInv'
  BY DEF BusOpens, Move, Misuse, StalePipeline, Unreferenced, ownerVars, loopVars, flags, data, gst
<1>24. \A r \in Runs : Poll(r) => TypeInv'
  BY ZenonT(60) DEF Poll, Move, Misuse, StalePipeline, Unreferenced, ownerVars, loopVars, flags, data, gst
<1>25. \A r \in Runs : Finish(r) => TypeInv'
  BY DEF Finish, Move, Misuse, StalePipeline, Unreferenced, ownerVars, loopVars, flags, data, gst
<1>26. \A r \in Runs : ClearElements(r, "dead", "end") => TypeInv'
  BY DEF ClearElements, Move, Misuse, StalePipeline, Unreferenced, ownerVars, loopVars, flags, data, gst
<1>27. \A r \in Runs : ClearElements(r, "failed", "rearm") => TypeInv'
  BY DEF ClearElements, Move, Misuse, StalePipeline, Unreferenced, ownerVars, loopVars, flags, data, gst
<1>28. \A r \in Runs : Stop(r) => TypeInv'
  BY DEF Stop, Move, Misuse, StalePipeline, Unreferenced, ownerVars, loopVars, flags, data, gst
<1>29. \A r \in Runs : Unref(r) => TypeInv'
  BY DEF Unref, Move, Misuse, StalePipeline, Unreferenced, ownerVars, loopVars, flags, data, gst
<1>30. \A r \in Runs : Rearm(r) => TypeInv'
  BY DEF Rearm, Move, Misuse, StalePipeline, Unreferenced, ownerVars, loopVars, flags, data, gst
<1>31. \A r \in Runs : End(r) => TypeInv'
  BY DEF End, Move, Misuse, StalePipeline, Unreferenced, ownerVars, loopVars, flags, data, gst
<1>32. \A r \in Runs : Die(r) => TypeInv'
  BY DEF Die, ownerVars, loopVars, flags, data, gst
<1>33. \A r \in Runs : OnRtspPadAdded(r) => TypeInv'
  BY DEF OnRtspPadAdded, Misuse, StalePipeline, ownerVars, loopVars, flags, data, gst
<1>34. UNCHANGED vars => TypeInv'
  BY DEF vars, ownerVars, loopVars, flags, data, gst
<1> QED
  BY <1>1, <1>2, <1>3, <1>4, <1>5, <1>6, <1>7, <1>8, <1>9, <1>10, <1>11, <1>12, <1>13, <1>14, <1>15, <1>16, <1>17, <1>18, <1>19, <1>20, <1>21, <1>22, <1>23, <1>24, <1>25, <1>26, <1>27, <1>28, <1>29, <1>30, <1>31, <1>32, <1>33, <1>34 DEF Next, OwnerStep, LoopStep, RunStep, Setup

LEMMA InitType == Init => TypeInv
<1>1. ASSUME Init PROVE TypeInv
  <2>1. PICK b \in Bitrates : br = b /\ enc = [r \in Runs |-> b]
    BY <1>1 DEF Init
  <2>2. mEnd \in BOOLEAN /\ mFinish \in BOOLEAN /\ mErrorMsg \in BOOLEAN
        /\ overlap \in BOOLEAN /\ late \in BOOLEAN
    BY <1>1 DEF Init
  <2>3. pc \in [Runs -> RunPlaces] /\ cancelled \in [Runs -> BOOLEAN]
    BY <1>1 DEF Init, RunPlaces
  <2> QED
    BY <1>1, <2>1, <2>2, <2>3, PollsAssumption
       DEF Init, TypeInv, TypeOK, OwnerPlaces, LoopPlaces, Faults
<1> QED
  BY <1>1

\* Every variable of a media stream keeps its type, whatever the threads do.
THEOREM TypeCorrect == Spec => []TypeOK
<1>1. TypeInv => TypeOK
  BY DEF TypeInv
<1> QED
  BY <1>1, InitType, TypeStep, PTL DEF Spec

-----------------------------------------------------------------------------
(* Safety until something of a cancelled run acts.                         *)

\* A step of a run that has not been cancelled is a step of cur, of an object
\* that exists.
LEMMA ActorIsCur ==
  ASSUME TypeInv, Safe, ~late, NEW r \in Runs, pc[r] # "gone", ~cancelled[r]
  PROVE  r = cur /\ Waiting /\ owner \notin {"none", "new", "closed"}
BY DEF Safe, CurAlone, LoopExists, Waiting

\* The owner's actions.
LEMMA SafeOwner == TypeInv /\ Safe /\ OwnerStep => Safe'
<1> SUFFICES ASSUME TypeInv, Safe, OwnerStep PROVE Safe'
  OBVIOUS
<1> USE DEF TypeInv, TypeOK, Safe, LoopExists, CurAlone, Waiting, Teardown,
            Playing, PipelineOwned, ElementsOwned, PipelineFilled, NoStaleUse
<1>1. CASE New
  BY <1>1 DEF New, ownerVars, loopVars, flags, data, gst
<1>2. CASE OpenFails
  BY <1>2 DEF OpenFails, ownerVars, loopVars, flags, data, gst
<1>3. CASE SetBitrateStore
  BY <1>3 DEF SetBitrateStore, ownerVars, loopVars, flags, data, gst
<1>4. CASE Close
  BY <1>4 DEF Close, ownerVars, loopVars, flags, data, gst
<1>5. CASE CloseJoin
  BY <1>5 DEF CloseJoin, ownerVars, loopVars, flags, data, gst
<1>6. CASE Delete
  BY <1>6 DEF Delete, ownerVars, loopVars, flags, data, gst
<1>7. ASSUME NEW b \in Bitrates, Open(b) PROVE Safe'
  BY <1>7 DEF Open, ownerVars, loopVars, flags, data, gst
<1>8. ASSUME NEW b \in Bitrates, SetBitrate(b) PROVE Safe'
  BY <1>8 DEF SetBitrate, ownerVars, loopVars, flags, data, gst
<1>9. ASSUME NEW b \in Bitrates, SetBitrateDangling(b) PROVE Safe'
  BY <1>9 DEF SetBitrateDangling, ownerVars, loopVars, flags, data, gst
<1> QED
  BY <1>1, <1>2, <1>3, <1>4, <1>5, <1>6, <1>7, <1>8, <1>9 DEF OwnerStep

\* The actions of loop_run.
LEMMA SafeLoop == TypeInv /\ Safe /\ LoopStep => Safe'
<1> SUFFICES ASSUME TypeInv, Safe, LoopStep PROVE Safe'
  OBVIOUS
<1> USE DEF TypeInv, TypeOK, Safe, LoopExists, CurAlone, Waiting, Teardown,
            Playing, PipelineOwned, ElementsOwned, PipelineFilled, NoStaleUse
<1>1. CASE LoopCheck
  BY <1>1 DEF LoopCheck, ownerVars, loopVars, flags, data, gst
<1>2. CASE LoopPoll
  BY <1>2 DEF LoopPoll, ownerVars, loopVars, flags, data, gst
<1>3. CASE LoopCancel
  BY <1>3 DEF LoopCancel, ownerVars, loopVars, flags, data, gst
<1>4. ASSUME NEW r \in Runs, LoopSpawn(r) PROVE Safe'
  BY <1>4 DEF LoopSpawn, ownerVars, loopVars, flags, data, gst
<1> QED
  BY <1>1, <1>2, <1>3, <1>4 DEF LoopStep

\* The actions of a run, one of which may be the first of a cancelled run.
LEMMA SafeRun ==
  ASSUME TypeInv, Safe, NEW r \in Runs,
         RunStep(r) \/ Die(r) \/ OnRtspPadAdded(r)
  PROVE  Safe'
<1> USE DEF TypeInv, TypeOK, Safe, LoopExists, CurAlone, Waiting, Teardown,
            Playing, PipelineOwned, ElementsOwned, PipelineFilled, NoStaleUse
<1>1. CASE RunStart(r)
  BY <1>1, ActorIsCur DEF RunStart, Move, Misuse, StalePipeline, Unreferenced, ownerVars, loopVars, flags, data, gst
<1>2. CASE SetupNew(r)
  BY <1>2, ActorIsCur DEF SetupNew, Move, Misuse, StalePipeline, Unreferenced, ownerVars, loopVars, flags, data, gst
<1>3. CASE SetupSourceFails(r)
  BY <1>3, ActorIsCur DEF SetupSourceFails, Move, Misuse, StalePipeline, Unreferenced, ownerVars, loopVars, flags, data, gst
<1>4. CASE SetupElements(r)
  BY <1>4, ActorIsCur DEF SetupElements, Move, Misuse, StalePipeline, Unreferenced, ownerVars, loopVars, flags, data, gst
<1>5. CASE SetupAdd(r)
  BY <1>5, ActorIsCur DEF SetupAdd, Move, Misuse, StalePipeline, Unreferenced, ownerVars, loopVars, flags, data, gst
<1>6. CASE SetupLinkFails(r)
  BY <1>6, ActorIsCur DEF SetupLinkFails, Move, Misuse, StalePipeline, Unreferenced, ownerVars, loopVars, flags, data, gst
<1>7. CASE SetupPlays(r)
  BY <1>7, ActorIsCur DEF SetupPlays, Move, Misuse, StalePipeline, Unreferenced, ownerVars, loopVars, flags, data, gst
<1>8. CASE SetupPlayFails(r)
  BY <1>8, ActorIsCur DEF SetupPlayFails, Move, Misuse, StalePipeline, Unreferenced, ownerVars, loopVars, flags, data, gst
<1>9. CASE BusFails(r)
  BY <1>9, ActorIsCur DEF BusFails, Move, Misuse, StalePipeline, Unreferenced, ownerVars, loopVars, flags, data, gst
<1>10. CASE BusOpens(r)
  BY <1>10, ActorIsCur DEF BusOpens, Move, Misuse, StalePipeline, Unreferenced, ownerVars, loopVars, flags, data, gst
<1>11. CASE Poll(r)
  BY <1>11, ActorIsCur DEF Poll, Move, Misuse, StalePipeline, Unreferenced, ownerVars, loopVars, flags, data, gst
<1>12. CASE Finish(r)
  BY <1>12, ActorIsCur DEF Finish, Move, Misuse, StalePipeline, Unreferenced, ownerVars, loopVars, flags, data, gst
<1>13. CASE ClearElements(r, "dead", "end")
  BY <1>13, ActorIsCur DEF ClearElements, Move, Misuse, StalePipeline, Unreferenced, ownerVars, loopVars, flags, data, gst
<1>14. CASE ClearElements(r, "failed", "rearm")
  BY <1>14, ActorIsCur DEF ClearElements, Move, Misuse, StalePipeline, Unreferenced, ownerVars, loopVars, flags, data, gst
<1>15. CASE Stop(r)
  BY <1>15, ActorIsCur DEF Stop, Move, Misuse, StalePipeline, Unreferenced, ownerVars, loopVars, flags, data, gst
<1>16. CASE Unref(r)
  BY <1>16, ActorIsCur DEF Unref, Move, Misuse, StalePipeline, Unreferenced, ownerVars, loopVars, flags, data, gst
<1>17. CASE Rearm(r)
  BY <1>17, ActorIsCur DEF Rearm, Move, Misuse, StalePipeline, Unreferenced, ownerVars, loopVars, flags, data, gst
<1>18. CASE End(r)
  BY <1>18, ActorIsCur DEF End, Move, Misuse, StalePipeline, Unreferenced, ownerVars, loopVars, flags, data, gst
<1>19. CASE Die(r)
  BY <1>19 DEF Die, ownerVars, loopVars, flags, data, gst
<1>20. CASE OnRtspPadAdded(r)
  BY <1>20, ActorIsCur DEF OnRtspPadAdded, Misuse, StalePipeline, ownerVars, loopVars, flags, data, gst
<1> QED
  BY <1>1, <1>2, <1>3, <1>4, <1>5, <1>6, <1>7, <1>8, <1>9, <1>10, <1>11, <1>12, <1>13, <1>14, <1>15, <1>16, <1>17, <1>18, <1>19, <1>20 DEF RunStep, Setup

\* No action of any thread breaks the invariant.
LEMMA SafeStep == TypeInv /\ Safe /\ [Next]_vars => Safe'
<1>1. Safe /\ UNCHANGED vars => Safe'
  BY DEF Safe, LoopExists, CurAlone, Waiting, PipelineOwned, ElementsOwned,
         PipelineFilled, NoStaleUse, vars, ownerVars, loopVars, flags, data, gst
<1> QED
  BY <1>1, SafeOwner, SafeLoop, SafeRun DEF Next

LEMMA InitSafe == Init => Safe
BY DEF Init, Safe, LoopExists, CurAlone, Waiting, PipelineOwned, ElementsOwned,
       PipelineFilled, NoStaleUse

\* The inductive invariant holds in every reachable state.
LEMMA Invariance == Spec => [](TypeInv /\ Safe)
BY InitType, InitSafe, TypeStep, SafeStep, PTL DEF Spec

\* Until something of a cancelled run acts: no deleted object, pipeline of
\* another run or element of another run is ever touched by a run.
THEOREM StaleUseNever == Spec => []NoStaleUse
<1>1. Safe => NoStaleUse
  BY DEF Safe, NoStaleUse
<1> QED
  BY <1>1, Invariance, PTL

\* loop_run never lets two runs work on the object, and leaves none behind
\* when it ends, so none is there when Close has returned.
THEOREM SingleRun == Spec => []OneLiveRun
<1>1. Safe => OneLiveRun
  BY DEF Safe, OneLiveRun, CurAlone, Waiting, Live
<1> QED
  BY <1>1, Invariance, PTL

\* A pipeline outlives its run only when the watchdog gave the run up.
THEOREM PipelinesReleased == Spec => []PipelineReleased
<1>1. TypeInv /\ Safe => PipelineReleased
  BY DEF TypeInv, TypeOK, Safe, PipelineReleased, PipelineFilled, Playing
<1> QED
  BY <1>1, Invariance, PTL

\* Only a run in its teardown, or one that has just ended, is cancelled.
THEOREM HealthySpared == Spec => WatchdogSparesHealthy
<1> DEFINE Spared == \A r \in Runs : ~cancelled[r] /\ cancelled'[r]
                        => late \/ pc[r] \in Teardown \cup {"gone"}
<1>1. TypeInv /\ Safe /\ [Next]_vars => [Spared]_vars
  <2> SUFFICES ASSUME TypeInv, Safe, Next PROVE Spared
    OBVIOUS
  <2> USE DEF TypeInv, TypeOK
  <2>1. CASE LoopCancel
    BY <2>1 DEF LoopCancel, Safe, CurAlone, Waiting
  <2>2. CASE LoopCheck \/ LoopPoll
    BY <2>2 DEF LoopCheck, LoopPoll
  <2>3. ASSUME NEW r \in Runs, LoopSpawn(r) PROVE Spared
    BY <2>3 DEF LoopSpawn
  <2>4. CASE OwnerStep
    BY <2>4 DEF OwnerStep, New, Open, OpenFails, SetBitrate, SetBitrateStore,
                SetBitrateDangling, Close, CloseJoin, Delete
  <2>5. ASSUME NEW r \in Runs, RunStep(r) \/ Die(r) \/ OnRtspPadAdded(r)
        PROVE  UNCHANGED cancelled
    BY <2>5 DEF RunStep, Setup, Die, OnRtspPadAdded, Move, RunStart, SetupNew,
      SetupSourceFails, SetupElements, SetupAdd, SetupLinkFails, SetupPlays,
      SetupPlayFails, BusFails, BusOpens, Poll, Finish, ClearElements, Stop,
      Unref, Rearm, End
  <2> QED
    BY <2>1, <2>2, <2>3, <2>4, <2>5 DEF Next, LoopStep
<1> QED
  BY <1>1, Invariance, PTL DEF Spec, WatchdogSparesHealthy

-----------------------------------------------------------------------------
(* The bitrate, and the error of a stream that is dead.                    *)

\* An encoder that has been made outside a SetBitrate has the member's
\* bitrate, or the one that SetBitrate is about to store.
BitrateInv ==
  ~late /\ ~overlap /\ mPipeline \in Runs =>
    LET made == ~cancelled[mPipeline] /\ pc[mPipeline] = "add" IN
    /\ owner = "setbr" => ~made
    /\ made \/ pipe[mPipeline] = "full" =>
         /\ owner = "open" => enc[mPipeline] = mBitrate
         /\ owner = "setbr" => enc[mPipeline] = br

\* Why loop_run may leave an open stream: nobody asked for a restart, and the
\* pipeline could not be linked (an error is stored) or has no source.
NoHope == mErrorMsg \/ (mPipeline \in Runs /\ pipe[mPipeline] = "bin")

DeadInv ==
  owner \in {"open", "setbr"} =>
    /\ ~mQuit
    /\ ~late =>
       /\ loop = "check" => mRestart \/ NoHope
       /\ loop = "done" => NoHope
       /\ Waiting /\ pc[cur] \in {"finish", "stop", "unref"} => mRestart
       /\ Waiting /\ pc[cur] = "build" => NoHope
       /\ Waiting /\ pc[cur] \in {"dead", "end", "gone"} => mRestart \/ NoHope

\* No action breaks the agreement on the bitrate.
LEMMA BitrateStep == TypeInv /\ Safe /\ BitrateInv /\ [Next]_vars => BitrateInv'
<1> SUFFICES ASSUME TypeInv, Safe, BitrateInv, [Next]_vars PROVE BitrateInv'
  OBVIOUS
<1> USE DEF TypeInv, TypeOK, Safe, LoopExists, CurAlone, Waiting, Teardown,
            Playing, PipelineOwned, PipelineFilled, BitrateInv
<1>1. CASE New
  BY <1>1 DEF New, ownerVars, loopVars, flags, data, gst
<1>2. CASE OpenFails
  BY <1>2 DEF OpenFails, ownerVars, loopVars, flags, data, gst
<1>3. CASE SetBitrateStore
  BY <1>3 DEF SetBitrateStore, ownerVars, loopVars, flags, data, gst
<1>4. CASE Close
  BY <1>4 DEF Close, ownerVars, loopVars, flags, data, gst
<1>5. CASE CloseJoin
  BY <1>5 DEF CloseJoin, ownerVars, loopVars, flags, data, gst
<1>6. CASE Delete
  BY <1>6 DEF Delete, ownerVars, loopVars, flags, data, gst
<1>7. CASE LoopCheck
  BY <1>7 DEF LoopCheck, ownerVars, loopVars, flags, data, gst
<1>8. CASE LoopPoll
  BY <1>8 DEF LoopPoll, ownerVars, loopVars, flags, data, gst
<1>9. CASE LoopCancel
  BY <1>9 DEF LoopCancel, ownerVars, loopVars, flags, data, gst
<1>10. ASSUME NEW b \in Bitrates, Open(b) PROVE BitrateInv'
  BY <1>10, RunsAssumption DEF Open, ownerVars, loopVars, flags, data, gst
<1>11. ASSUME NEW b \in Bitrates, SetBitrate(b) PROVE BitrateInv'
  BY <1>11 DEF SetBitrate, ownerVars, loopVars, flags, data, gst
<1>12. ASSUME NEW b \in Bitrates, SetBitrateDangling(b) PROVE BitrateInv'
  BY <1>12 DEF SetBitrateDangling, ownerVars, loopVars, flags, data, gst
<1>13. ASSUME NEW r \in Runs, LoopSpawn(r) PROVE BitrateInv'
  BY <1>13 DEF LoopSpawn, ownerVars, loopVars, flags, data, gst
<1>14. ASSUME NEW r \in Runs, RunStep(r) \/ Die(r) \/ OnRtspPadAdded(r)
      PROVE  BitrateInv'
  <2>1. CASE RunStart(r)
    BY <2>1, ActorIsCur DEF RunStart, Move, Unreferenced, ownerVars, loopVars, flags, data, gst
  <2>2. CASE SetupNew(r)
    BY <2>2, ActorIsCur DEF SetupNew, Move, Unreferenced, ownerVars, loopVars, flags, data, gst
  <2>3. CASE SetupSourceFails(r)
    BY <2>3, ActorIsCur DEF SetupSourceFails, Move, Unreferenced, ownerVars, loopVars, flags, data, gst
  <2>4. CASE SetupElements(r)
    BY <2>4, ActorIsCur DEF SetupElements, Move, Unreferenced, ownerVars, loopVars, flags, data, gst
  <2>5. CASE SetupAdd(r)
    BY <2>5, ActorIsCur DEF SetupAdd, Move, Unreferenced, ownerVars, loopVars, flags, data, gst
  <2>6. CASE SetupLinkFails(r)
    BY <2>6, ActorIsCur DEF SetupLinkFails, Move, Unreferenced, ownerVars, loopVars, flags, data, gst
  <2>7. CASE SetupPlays(r)
    BY <2>7, ActorIsCur DEF SetupPlays, Move, Unreferenced, ownerVars, loopVars, flags, data, gst
  <2>8. CASE SetupPlayFails(r)
    BY <2>8, ActorIsCur DEF SetupPlayFails, Move, Unreferenced, ownerVars, loopVars, flags, data, gst
  <2>9. CASE BusFails(r)
    BY <2>9, ActorIsCur DEF BusFails, Move, Unreferenced, ownerVars, loopVars, flags, data, gst
  <2>10. CASE BusOpens(r)
    BY <2>10, ActorIsCur DEF BusOpens, Move, Unreferenced, ownerVars, loopVars, flags, data, gst
  <2>11. CASE Poll(r)
    BY <2>11, ActorIsCur DEF Poll, Move, Unreferenced, ownerVars, loopVars, flags, data, gst
  <2>12. CASE Finish(r)
    BY <2>12, ActorIsCur DEF Finish, Move, Unreferenced, ownerVars, loopVars, flags, data, gst
  <2>13. CASE ClearElements(r, "dead", "end")
    BY <2>13, ActorIsCur DEF ClearElements, Move, Unreferenced, ownerVars, loopVars, flags, data, gst
  <2>14. CASE ClearElements(r, "failed", "rearm")
    BY <2>14, ActorIsCur DEF ClearElements, Move, Unreferenced, ownerVars, loopVars, flags, data, gst
  <2>15. CASE Stop(r)
    BY <2>15, ActorIsCur DEF Stop, Move, Unreferenced, ownerVars, loopVars, flags, data, gst
  <2>16. CASE Unref(r)
    BY <2>16, ActorIsCur DEF Unref, Move, Unreferenced, ownerVars, loopVars, flags, data, gst
  <2>17. CASE Rearm(r)
    BY <2>17, ActorIsCur DEF Rearm, Move, Unreferenced, ownerVars, loopVars, flags, data, gst
  <2>18. CASE End(r)
    BY <2>18, ActorIsCur DEF End, Move, Unreferenced, ownerVars, loopVars, flags, data, gst
  <2>19. CASE Die(r)
    BY <2>19 DEF Die, ownerVars, loopVars, flags, data, gst
  <2>20. CASE OnRtspPadAdded(r)
    BY <2>20 DEF OnRtspPadAdded, ownerVars, loopVars, flags, data, gst
  <2> QED
    BY <1>14, <2>1, <2>2, <2>3, <2>4, <2>5, <2>6, <2>7, <2>8, <2>9, <2>10, <2>11, <2>12, <2>13, <2>14, <2>15, <2>16, <2>17, <2>18, <2>19, <2>20 DEF RunStep, Setup
<1>15. CASE UNCHANGED vars
  BY <1>15 DEF vars, ownerVars, loopVars, flags, data, gst
<1> QED
  BY <1>1, <1>2, <1>3, <1>4, <1>5, <1>6, <1>7, <1>8, <1>9, <1>10, <1>11, <1>12, <1>13, <1>14, <1>15 DEF Next, OwnerStep, LoopStep

\* No action lets an open stream die without a reason.
LEMMA DeadStep == TypeInv /\ Safe /\ DeadInv /\ [Next]_vars => DeadInv'
<1> SUFFICES ASSUME TypeInv, Safe, DeadInv, [Next]_vars PROVE DeadInv'
  OBVIOUS
<1> USE DEF TypeInv, TypeOK, Safe, LoopExists, CurAlone, Waiting, Teardown,
            Playing, PipelineOwned, PipelineFilled, DeadInv, NoHope
<1>1. CASE New
  BY <1>1 DEF New, ownerVars, loopVars, flags, data, gst
<1>2. CASE OpenFails
  BY <1>2 DEF OpenFails, ownerVars, loopVars, flags, data, gst
<1>3. CASE SetBitrateStore
  BY <1>3 DEF SetBitrateStore, ownerVars, loopVars, flags, data, gst
<1>4. CASE Close
  BY <1>4 DEF Close, ownerVars, loopVars, flags, data, gst
<1>5. CASE CloseJoin
  BY <1>5 DEF CloseJoin, ownerVars, loopVars, flags, data, gst
<1>6. CASE Delete
  BY <1>6 DEF Delete, ownerVars, loopVars, flags, data, gst
<1>7. CASE LoopCheck
  BY <1>7 DEF LoopCheck, ownerVars, loopVars, flags, data, gst
<1>8. CASE LoopPoll
  BY <1>8 DEF LoopPoll, ownerVars, loopVars, flags, data, gst
<1>9. CASE LoopCancel
  BY <1>9 DEF LoopCancel, ownerVars, loopVars, flags, data, gst
<1>10. ASSUME NEW b \in Bitrates, Open(b) PROVE DeadInv'
  BY <1>10 DEF Open, ownerVars, loopVars, flags, data, gst
<1>11. ASSUME NEW b \in Bitrates, SetBitrate(b) PROVE DeadInv'
  BY <1>11 DEF SetBitrate, ownerVars, loopVars, flags, data, gst
<1>12. ASSUME NEW b \in Bitrates, SetBitrateDangling(b) PROVE DeadInv'
  BY <1>12 DEF SetBitrateDangling, ownerVars, loopVars, flags, data, gst
<1>13. ASSUME NEW r \in Runs, LoopSpawn(r) PROVE DeadInv'
  BY <1>13 DEF LoopSpawn, ownerVars, loopVars, flags, data, gst
<1>14. ASSUME NEW r \in Runs, RunStep(r) \/ Die(r) \/ OnRtspPadAdded(r)
      PROVE  DeadInv'
  <2>1. CASE RunStart(r)
    BY <2>1, ActorIsCur DEF RunStart, Move, Unreferenced, ownerVars, loopVars, flags, data, gst
  <2>2. CASE SetupNew(r)
    BY <2>2, ActorIsCur DEF SetupNew, Move, Unreferenced, ownerVars, loopVars, flags, data, gst
  <2>3. CASE SetupSourceFails(r)
    BY <2>3, ActorIsCur DEF SetupSourceFails, Move, Unreferenced, ownerVars, loopVars, flags, data, gst
  <2>4. CASE SetupElements(r)
    BY <2>4, ActorIsCur DEF SetupElements, Move, Unreferenced, ownerVars, loopVars, flags, data, gst
  <2>5. CASE SetupAdd(r)
    BY <2>5, ActorIsCur DEF SetupAdd, Move, Unreferenced, ownerVars, loopVars, flags, data, gst
  <2>6. CASE SetupLinkFails(r)
    BY <2>6, ActorIsCur DEF SetupLinkFails, Move, Unreferenced, ownerVars, loopVars, flags, data, gst
  <2>7. CASE SetupPlays(r)
    BY <2>7, ActorIsCur DEF SetupPlays, Move, Unreferenced, ownerVars, loopVars, flags, data, gst
  <2>8. CASE SetupPlayFails(r)
    BY <2>8, ActorIsCur DEF SetupPlayFails, Move, Unreferenced, ownerVars, loopVars, flags, data, gst
  <2>9. CASE BusFails(r)
    BY <2>9, ActorIsCur DEF BusFails, Move, Unreferenced, ownerVars, loopVars, flags, data, gst
  <2>10. CASE BusOpens(r)
    BY <2>10, ActorIsCur DEF BusOpens, Move, Unreferenced, ownerVars, loopVars, flags, data, gst
  <2>11. CASE Poll(r)
    BY <2>11, ActorIsCur DEF Poll, Move, Unreferenced, ownerVars, loopVars, flags, data, gst
  <2>12. CASE Finish(r)
    BY <2>12, ActorIsCur DEF Finish, Move, Unreferenced, ownerVars, loopVars, flags, data, gst
  <2>13. CASE ClearElements(r, "dead", "end")
    BY <2>13, ActorIsCur DEF ClearElements, Move, Unreferenced, ownerVars, loopVars, flags, data, gst
  <2>14. CASE ClearElements(r, "failed", "rearm")
    BY <2>14, ActorIsCur DEF ClearElements, Move, Unreferenced, ownerVars, loopVars, flags, data, gst
  <2>15. CASE Stop(r)
    BY <2>15, ActorIsCur DEF Stop, Move, Unreferenced, ownerVars, loopVars, flags, data, gst
  <2>16. CASE Unref(r)
    BY <2>16, ActorIsCur DEF Unref, Move, Unreferenced, ownerVars, loopVars, flags, data, gst
  <2>17. CASE Rearm(r)
    BY <2>17, ActorIsCur DEF Rearm, Move, Unreferenced, ownerVars, loopVars, flags, data, gst
  <2>18. CASE End(r)
    BY <2>18, ActorIsCur DEF End, Move, Unreferenced, ownerVars, loopVars, flags, data, gst
  <2>19. CASE Die(r)
    BY <2>19 DEF Die, ownerVars, loopVars, flags, data, gst
  <2>20. CASE OnRtspPadAdded(r)
    BY <2>20 DEF OnRtspPadAdded, ownerVars, loopVars, flags, data, gst
  <2> QED
    BY <1>14, <2>1, <2>2, <2>3, <2>4, <2>5, <2>6, <2>7, <2>8, <2>9, <2>10, <2>11, <2>12, <2>13, <2>14, <2>15, <2>16, <2>17, <2>18, <2>19, <2>20 DEF RunStep, Setup
<1>15. CASE UNCHANGED vars
  BY <1>15 DEF vars, ownerVars, loopVars, flags, data, gst
<1> QED
  BY <1>1, <1>2, <1>3, <1>4, <1>5, <1>6, <1>7, <1>8, <1>9, <1>10, <1>11, <1>12, <1>13, <1>14, <1>15 DEF Next, OwnerStep, LoopStep

\* The encoder has the member's bitrate across restarts, unless it was made
\* while a SetBitrate was between its two steps.
THEOREM BitrateKept == Spec => []BitrateAgrees
<1>1. Init => BitrateInv
  BY RunsAssumption DEF Init, BitrateInv
<1>2. BitrateInv => BitrateAgrees
  BY DEF BitrateInv, BitrateAgrees
<1> QED
  BY <1>1, <1>2, Invariance, BitrateStep, PTL DEF Spec

\* An open stream that has stopped trying says so, unless its source failed.
THEOREM DeathReported == Spec => []DeadStreamReports
<1>1. Init => DeadInv
  BY DEF Init, DeadInv
<1>2. DeadInv => DeadStreamReports
  BY DEF DeadInv, NoHope, DeadStreamReports
<1> QED
  BY <1>1, <1>2, Invariance, DeadStep, PTL DEF Spec

-----------------------------------------------------------------------------
(* The stream implements StreamSession.                                    *)

Phase(place) ==
  CASE place \in Building -> "building"
    [] place \in Playing -> "playing"
    [] place = "gone" -> "idle"
    [] OTHER -> "stopping"

WorkerNow == IF loop = "spawn" THEN "due"
             ELSE IF Waiting THEN Phase(pc[cur]) ELSE "idle"

MapsToCur == WorkerOf = WorkerNow

\* The session's worker is what the run that loop_run waits for does.
LEMMA WorkerIsCur == TypeInv /\ Safe /\ ~late => MapsToCur
<1> SUFFICES ASSUME TypeInv, Safe, ~late PROVE WorkerOf = WorkerNow
  BY DEF MapsToCur
<1> USE DEF WorkerNow
<1>1. Live = IF Waiting /\ pc[cur] # "gone" THEN {cur} ELSE {}
  BY DEF Safe, CurAlone, Live
<1>2. CASE ~Waiting
  BY <1>1, <1>2 DEF WorkerOf
<1>3. CASE Waiting /\ pc[cur] = "gone"
  BY <1>1, <1>3 DEF WorkerOf, Phase, Waiting, Building, Playing
<1>4. CASE Waiting /\ pc[cur] # "gone"
  <2>1. Live = {cur} /\ cur \in Runs /\ pc[cur] \in RunPlaces
    BY <1>1, <1>4 DEF TypeInv, TypeOK, Safe, CurAlone
  <2> QED
    BY <1>4, <2>1 DEF WorkerOf, Phase, Waiting, RunPlaces, Building, Playing,
                      Teardown, Failing
<1> QED
  BY <1>2, <1>3, <1>4

\* The same in the next state.
LEMMA WorkerIsCurNext == TypeInv' /\ Safe' /\ ~late' => MapsToCur'
BY WorkerIsCur, PTL

LEMMA SessionTypes ==
  SessionOf' \in Session!SessionStates /\ WorkerOf' \in Session!WorkerStates
BY DEF SessionOf, WorkerOf, Session!SessionStates, Session!WorkerStates

\* A step before anything of a cancelled run has acted, and not the first
\* such act, is a step of the session or leaves it as it is.
LEMMA SessionQuiet ==
  ASSUME TypeInv, Safe, TypeInv', Safe', [Next]_vars, ~late, ~late'
  PROVE  [Session!SessionNext]_Session!sessionVars
<1> DEFINE Goal == [Session!SessionNext]_Session!sessionVars
<1>1. WorkerOf = WorkerNow /\ WorkerOf' = WorkerNow'
  BY WorkerIsCur, WorkerIsCurNext DEF MapsToCur
<1> USE <1>1 DEF TypeInv, TypeOK, Safe, LoopExists, CurAlone, WorkerNow,
    Waiting, Phase, SessionOf, Building, Playing, Teardown,
    Session!SessionNext, Session!sessionVars, Session!SessionTo,
    Session!WorkerTo, Session!OpenSession, Session!AskToClose,
    Session!EndSession, Session!Schedule, Session!Begin, Session!Play,
    Session!Fall, Session!Leave
<1>2. CASE New
  BY <1>2 DEF New, ownerVars, loopVars, flags, data, gst
<1>3. CASE OpenFails
  BY <1>3 DEF OpenFails, ownerVars, loopVars, flags, data, gst
<1>4. CASE SetBitrateStore
  BY <1>4 DEF SetBitrateStore, ownerVars, loopVars, flags, data, gst
<1>5. CASE Close
  BY <1>5 DEF Close, ownerVars, loopVars, flags, data, gst
<1>6. CASE CloseJoin
  BY <1>6 DEF CloseJoin, ownerVars, loopVars, flags, data, gst
<1>7. CASE Delete
  BY <1>7 DEF Delete, ownerVars, loopVars, flags, data, gst
<1>8. CASE LoopCheck
  BY <1>8 DEF LoopCheck, OwnerPlaces, ownerVars, loopVars, flags, data, gst
<1>9. CASE LoopPoll
  BY <1>9 DEF LoopPoll, ownerVars, loopVars, flags, data, gst
<1>10. CASE LoopCancel
  BY <1>10 DEF LoopCancel, ownerVars, loopVars, flags, data, gst
<1>11. ASSUME NEW b \in Bitrates, Open(b) PROVE Goal
  BY <1>11 DEF Open, ownerVars, loopVars, flags, data, gst
<1>12. ASSUME NEW b \in Bitrates, SetBitrate(b) PROVE Goal
  BY <1>12 DEF SetBitrate, ownerVars, loopVars, flags, data, gst
<1>13. ASSUME NEW b \in Bitrates, SetBitrateDangling(b) PROVE Goal
  BY <1>13 DEF SetBitrateDangling, ownerVars, loopVars, flags, data, gst
<1>14. ASSUME NEW r \in Runs, LoopSpawn(r) PROVE Goal
  BY <1>14 DEF LoopSpawn, ownerVars, loopVars, flags, data, gst
<1>15. ASSUME NEW r \in Runs, RunStep(r) \/ Die(r) \/ OnRtspPadAdded(r)
      PROVE  Goal
  <2>1. CASE RunStart(r)
    BY <2>1, ActorIsCur DEF RunStart, Move,
       ownerVars, loopVars, flags, data, gst
  <2>2. CASE SetupNew(r)
    BY <2>2, ActorIsCur DEF SetupNew, Move,
       ownerVars, loopVars, flags, data, gst
  <2>3. CASE SetupSourceFails(r)
    BY <2>3, ActorIsCur DEF SetupSourceFails, Move,
       ownerVars, loopVars, flags, data, gst
  <2>4. CASE SetupElements(r)
    BY <2>4, ActorIsCur DEF SetupElements, Move,
       ownerVars, loopVars, flags, data, gst
  <2>5. CASE SetupAdd(r)
    BY <2>5, ActorIsCur DEF SetupAdd, Move,
       ownerVars, loopVars, flags, data, gst
  <2>6. CASE SetupLinkFails(r)
    BY <2>6, ActorIsCur DEF SetupLinkFails, Move,
       ownerVars, loopVars, flags, data, gst
  <2>7. CASE SetupPlays(r)
    BY <2>7, ActorIsCur DEF SetupPlays, Move,
       ownerVars, loopVars, flags, data, gst
  <2>8. CASE SetupPlayFails(r)
    BY <2>8, ActorIsCur DEF SetupPlayFails, Move,
       ownerVars, loopVars, flags, data, gst
  <2>9. CASE BusFails(r)
    BY <2>9, ActorIsCur DEF BusFails, Move,
       ownerVars, loopVars, flags, data, gst
  <2>10. CASE BusOpens(r)
    BY <2>10, ActorIsCur DEF BusOpens, Move,
       ownerVars, loopVars, flags, data, gst
  <2>11. CASE Poll(r)
    BY <2>11, ActorIsCur DEF Poll, Move,
       ownerVars, loopVars, flags, data, gst
  <2>12. CASE Finish(r)
    BY <2>12, ActorIsCur DEF Finish, Move,
       ownerVars, loopVars, flags, data, gst
  <2>13. CASE ClearElements(r, "dead", "end")
    BY <2>13, ActorIsCur DEF ClearElements, Move,
       ownerVars, loopVars, flags, data, gst
  <2>14. CASE ClearElements(r, "failed", "rearm")
    BY <2>14, ActorIsCur DEF ClearElements, Move,
       ownerVars, loopVars, flags, data, gst
  <2>15. CASE Stop(r)
    BY <2>15, ActorIsCur DEF Stop, Move,
       ownerVars, loopVars, flags, data, gst
  <2>16. CASE Unref(r)
    BY <2>16, ActorIsCur DEF Unref, Move,
       ownerVars, loopVars, flags, data, gst
  <2>17. CASE Rearm(r)
    BY <2>17, ActorIsCur DEF Rearm, Move,
       ownerVars, loopVars, flags, data, gst
  <2>18. CASE End(r)
    BY <2>18, ActorIsCur DEF End, Move,
       ownerVars, loopVars, flags, data, gst
  <2>19. CASE Die(r)
    BY <2>19 DEF Die, ownerVars, loopVars, flags, data, gst
  <2>20. CASE OnRtspPadAdded(r)
    BY <2>20 DEF OnRtspPadAdded, ownerVars, loopVars, flags, data, gst
  <2> QED
    BY <1>15, <2>1, <2>2, <2>3, <2>4, <2>5, <2>6, <2>7, <2>8, <2>9, <2>10, <2>11, <2>12, <2>13, <2>14, <2>15, <2>16, <2>17, <2>18, <2>19, <2>20 DEF RunStep, Setup
<1>16. CASE UNCHANGED vars
  BY <1>16 DEF vars, ownerVars, loopVars, flags, data, gst
<1> QED
  BY <1>2, <1>3, <1>4, <1>5, <1>6, <1>7, <1>8, <1>9, <1>10, <1>11, <1>12, <1>13, <1>14, <1>15, <1>16 DEF Next, OwnerStep, LoopStep

\* The first act of something of a cancelled run voids the promise and leaves
\* the session and its worker as they are.
LEMMA SessionVoided ==
  ASSUME TypeInv, [Next]_vars, ~late, late'
  PROVE  Session!BecomeVoid
<1>1. ASSUME NEW r \in Runs, RunStep(r) \/ OnRtspPadAdded(r)
      PROVE  /\ UNCHANGED <<owner, loop, cancelled>> /\ cancelled[r]
             /\ \A q \in Runs : q # r => pc'[q] = pc[q]
  BY <1>1 DEF TypeInv, TypeOK, RunStep, Setup, OnRtspPadAdded, Move, RunStart,
    SetupNew, SetupSourceFails, SetupElements, SetupAdd, SetupLinkFails,
    SetupPlays, SetupPlayFails, BusFails, BusOpens, Poll, Finish,
    ClearElements, Stop, Unref, Rearm, End, ownerVars, loopVars
<1>2. PICK r \in Runs : RunStep(r) \/ OnRtspPadAdded(r)
  BY DEF Next, OwnerStep, LoopStep, New, Open, OpenFails, SetBitrate,
    SetBitrateStore, SetBitrateDangling, Close, CloseJoin, Delete, LoopCheck,
    LoopPoll, LoopCancel, LoopSpawn, Die, vars
<1>3. Live' = Live
  BY <1>1, <1>2 DEF Live
<1>4. \A q \in Live : pc'[q] = pc[q]
  BY <1>1, <1>2 DEF Live
<1> QED
  BY <1>1, <1>2, <1>3, <1>4 DEF Session!BecomeVoid, SessionOf, WorkerOf

\* After that, anything goes until a new object is made.
LEMMA SessionVoid ==
  ASSUME TypeInv, Safe, [Next]_vars, late
  PROVE  [Session!SessionNext]_Session!sessionVars
<1>1. CASE late'
  BY <1>1, SessionTypes DEF Session!SessionNext, Session!Anything, TypeInv, TypeOK
<1>2. CASE ~late'
  <2>1. New
    BY <1>2 DEF Next, OwnerStep, LoopStep, New, Open, OpenFails, SetBitrate,
      SetBitrateStore, SetBitrateDangling, Close, CloseJoin, Delete, LoopCheck,
      LoopPoll, LoopCancel, LoopSpawn, Die, vars, RunStep, Setup,
      OnRtspPadAdded, Move, RunStart, SetupNew, SetupSourceFails,
      SetupElements, SetupAdd, SetupLinkFails, SetupPlays, SetupPlayFails,
      BusFails, BusOpens, Poll, Finish, ClearElements, Stop, Unref, Rearm, End
  <2>2. Live' = {} /\ loop' = "none"
    BY <2>1 DEF New, Live, Safe, LoopExists, loopVars
  <2>3. WorkerOf' = "idle"
    BY <2>2 DEF WorkerOf
  <2> QED
    BY <1>2, <2>1, <2>3 DEF New, SessionOf, Session!SessionNext, Session!Renew
<1> QED
  BY <1>1, <1>2

\* The threads and flags of MediaStream implement the plain session.
THEOREM StreamImplementsSession == Spec => ImplementsSession
<1>1. Init => Session!SessionInit
  <2> SUFFICES ASSUME Init PROVE Session!SessionInit
    OBVIOUS
  <2>1. Live = {}
    BY DEF Init, Live
  <2> QED
    BY <2>1 DEF Init, Session!SessionInit, SessionOf, WorkerOf
<1>2. TypeInv /\ Safe /\ TypeInv' /\ Safe' /\ [Next]_vars
        => [Session!SessionNext]_Session!sessionVars
  <2> SUFFICES ASSUME TypeInv, Safe, TypeInv', Safe', [Next]_vars
               PROVE  [Session!SessionNext]_Session!sessionVars
    OBVIOUS
  <2>1. CASE late
    BY <2>1, SessionVoid
  <2>2. CASE ~late /\ late'
    BY <2>2, SessionVoided DEF Session!SessionNext
  <2>3. CASE ~late /\ ~late'
    BY <2>3, SessionQuiet
  <2> QED
    BY <2>1, <2>2, <2>3
<1> QED
  BY <1>1, <1>2, Invariance, PTL DEF Spec, ImplementsSession, Session!SessionSpec

=============================================================================
