---------------------------- MODULE StreamSession ----------------------------
(***************************************************************************)
(* What a media stream promises its caller (ControlHandler), with no       *)
(* threads and no flags: a session is opened and closed; while it is open  *)
(* one worker at a time is scheduled, builds, plays and stops, again and   *)
(* again; once closing has been asked for no further worker is scheduled   *)
(* (one that already was still runs its course), and the session is over   *)
(* only when no worker is left.  The promise becomes void when a worker    *)
(* that was given up turns out to be alive.                                *)
(***************************************************************************)

VARIABLES session,   \* "none", "open" or "closing"
          worker,    \* what the session's only worker does
          void       \* TRUE when nothing is promised any more

sessionVars == <<session, worker, void>>

SessionStates == {"none", "open", "closing"}
WorkerStates == {"idle", "due", "building", "playing", "stopping"}

SessionInit == session = "none" /\ worker = "idle" /\ void = FALSE

\* Moves of the session and of its worker.
SessionTo(from, to) == session = from /\ session' = to /\ UNCHANGED worker
WorkerTo(from, to) == worker \in from /\ worker' = to /\ UNCHANGED session

OpenSession == worker = "idle" /\ SessionTo("none", "open")
AskToClose == SessionTo("open", "closing")
EndSession == worker = "idle" /\ SessionTo("closing", "none")

Schedule == session = "open" /\ WorkerTo({"idle"}, "due")
Begin == WorkerTo({"due"}, "building")
Play == WorkerTo({"building"}, "playing")
Fall == WorkerTo({"building", "playing"}, "stopping")
Leave == WorkerTo({"stopping"}, "idle")   \* it ends, or is given up

\* A worker that was given up acts: from then on anything may happen, until
\* the session's object is made anew.
BecomeVoid == session' = session /\ worker' = worker /\ void' = TRUE
Anything == void /\ session' \in SessionStates /\ worker' \in WorkerStates
Renew == void /\ session = "none" /\ session' = "none" /\ worker' = "idle"

SessionNext ==
  \/ /\ UNCHANGED void
     /\ \/ OpenSession \/ AskToClose \/ EndSession
        \/ Schedule \/ Begin \/ Play \/ Fall \/ Leave
        \/ Anything
  \/ BecomeVoid
  \/ Renew /\ void' = FALSE

SessionSpec == SessionInit /\ [][SessionNext]_sessionVars

=============================================================================
