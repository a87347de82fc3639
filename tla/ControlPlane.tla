---------------------------- MODULE ControlPlane ----------------------------
(***************************************************************************)
(* The threads that command a stream: main (src/src/main.cpp), which may   *)
(* start a stream named on the command line and quits on 'q', and ctl, the *)
(* control thread of RemoteService::run, which serves requests one by one. *)
(* Both call ControlHandler (src/src/ControlHandler.cpp), whose streamMutex*)
(* guards every method but GetStatus.  The MediaStream object is seen as   *)
(* its caller sees it: obj takes the values of owner in module MediaStream,*)
(* which assumes that its calls come in the order OwnerProtocol states.    *)
(***************************************************************************)
EXTENDS Naturals

VARIABLES
  at,            \* at[t]: where thread t is
  streamMutex,   \* the thread that holds it, or "free"
  streamOpened,
  stream,        \* TRUE when the pointer is not NULL
  obj,           \* the object the pointer names, or named last
  rpc_server,    \* TRUE when RemoteService has the address of the service
  service,       \* the service on ctl's stack: its socket and its place
  commandLine,   \* history: main has called StartStream itself
  stale          \* history: GetStatus has been called on a deleted object

handler == <<streamMutex, streamOpened, stream, obj>>
vars == <<at, handler, rpc_server, service, commandLine, stale>>

Threads == {"main", "ctl"}
StartPlaces == {"s.lock", "s.check", "s.new", "s.open", "s.delete", "s.null"}
StopPlaces == {"p.lock", "p.close", "p.join", "p.delete", "p.null"}
RatePlaces == {"b.lock", "b.set", "b.store"}
StatusPlaces == {"g.opened", "g.stream", "g.use"}
ClosePlaces == {"c.test", "c.shutdown", "c.close", "c.reset"}

TypeOK ==
  /\ at \in [main : {"begin", "menu", "quit", "join", "exit"}
                       \cup StartPlaces \cup StopPlaces \cup ClosePlaces,
             ctl : {"begin", "register", "recv", "ended"} \cup ClosePlaces
                      \cup StartPlaces \cup StopPlaces \cup RatePlaces
                      \cup StatusPlaces]
  /\ streamMutex \in Threads \cup {"free"}
  /\ streamOpened \in BOOLEAN /\ stream \in BOOLEAN
  /\ obj \in {"none", "new", "open", "setbr", "join", "closed"}
  /\ rpc_server \in BOOLEAN
  /\ service \in {"none", "open", "shut", "closed"}
  /\ commandLine \in BOOLEAN /\ stale \in BOOLEAN

Init ==
  /\ at = [main |-> "begin", ctl |-> "begin"]
  /\ streamMutex = "free" /\ streamOpened = FALSE
  /\ stream = FALSE /\ obj = "none"
  /\ rpc_server = FALSE /\ service = "none"
  /\ commandLine = FALSE /\ stale = FALSE

\* Thread t moves; what is not handler stays.
Go(t, from, to) ==
  /\ at[t] = from
  /\ at' = [at EXCEPT ![t] = to]

\* Where t goes when a method of the handler returns.
Back(t) == IF t = "ctl" THEN "recv"
           ELSE IF at[t] \in StartPlaces THEN "menu" ELSE "exit"

Lock(t, from, to) ==
  /\ Go(t, from, to)
  /\ streamMutex = "free" /\ streamMutex' = t
  /\ UNCHANGED <<streamOpened, stream, obj, rpc_server, service, commandLine,
                 stale>>

Outside == UNCHANGED <<rpc_server, service, commandLine, stale>>
Locked == Outside /\ UNCHANGED streamMutex
Unlock == Outside /\ streamMutex' = "free"

-----------------------------------------------------------------------------
(* ControlHandler::StartStream                                             *)

StartRefused(t) ==
  /\ Go(t, "s.check", Back(t)) /\ Unlock
  /\ streamOpened
  /\ UNCHANGED <<streamOpened, stream, obj>>

StartAccepted(t) ==
  /\ Go(t, "s.check", "s.new") /\ Locked
  /\ ~streamOpened /\ streamOpened' = TRUE
  /\ UNCHANGED <<stream, obj>>

\* A stream left over is closed and opened again; it is not made anew.
StartNew(t) ==
  /\ Go(t, "s.new", "s.open") /\ Locked
  /\ IF stream THEN obj' = "closed" /\ UNCHANGED stream
               ELSE obj' = "new" /\ stream' = TRUE
  /\ UNCHANGED streamOpened

StartOpens(t) ==
  /\ Go(t, "s.open", Back(t)) /\ Unlock
  /\ obj' = "open"
  /\ UNCHANGED <<streamOpened, stream>>

\* Mutant: a stream that did not open still counts as opened.
StartOpenFails_StaysOpened(t) ==
  /\ Go(t, "s.open", "s.delete") /\ Locked
  /\ UNCHANGED <<streamOpened, stream, obj>>

StartOpenFails(t) ==
  /\ Go(t, "s.open", "s.delete") /\ Locked
  /\ streamOpened' = FALSE
  /\ UNCHANGED <<stream, obj>>

StartDelete(t) ==
  /\ Go(t, "s.delete", "s.null") /\ Locked
  /\ obj' = "none"
  /\ UNCHANGED <<streamOpened, stream>>

StartNull(t) ==
  /\ Go(t, "s.null", Back(t)) /\ Unlock
  /\ stream' = FALSE
  /\ UNCHANGED <<streamOpened, obj>>

StartStream(t) ==
  \/ Lock(t, "s.lock", "s.check")
  \/ StartRefused(t) \/ StartAccepted(t) \/ StartNew(t) \/ StartOpens(t)
  \/ StartOpenFails(t) \/ StartDelete(t) \/ StartNull(t)

-----------------------------------------------------------------------------
(* ControlHandler::StopStream, also its destructor.                        *)

\* Mutant: the stream is deleted without being closed.
StopLock_NoClose(t) == Lock(t, "p.lock", IF stream THEN "p.delete" ELSE "p.null")

StopLock(t) == Lock(t, "p.lock", IF stream THEN "p.close" ELSE "p.null")

\* MediaStream::Close begins, and returns (CloseReturns of MediaStream).
StopClose(t) ==
  /\ Go(t, "p.close", "p.join") /\ Locked
  /\ obj' = "join"
  /\ UNCHANGED <<streamOpened, stream>>

StopJoin(t) ==
  /\ Go(t, "p.join", "p.delete") /\ Locked
  /\ obj' = "closed"
  /\ UNCHANGED <<streamOpened, stream>>

StopDelete(t) ==
  /\ Go(t, "p.delete", "p.null") /\ Locked
  /\ obj' = "none"
  /\ UNCHANGED <<streamOpened, stream>>

\* Mutant: the pointer and the flag stay after the delete.
StopNull_Keeps(t) ==
  /\ Go(t, "p.null", Back(t)) /\ Unlock
  /\ UNCHANGED <<streamOpened, stream, obj>>

StopNull(t) ==
  /\ Go(t, "p.null", Back(t)) /\ Unlock
  /\ stream' = FALSE /\ streamOpened' = FALSE
  /\ UNCHANGED obj

StopStream(t) ==
  \/ StopLock(t) \/ StopClose(t) \/ StopJoin(t) \/ StopDelete(t) \/ StopNull(t)

-----------------------------------------------------------------------------
(* ControlHandler::SetBitrate, GetBitrate and GetStatus: called by ctl.    *)

\* GetBitrate takes the lock and leaves; so does SetBitrate with no stream.
RateLeaves ==
  /\ Go("ctl", "b.set", "recv") /\ Unlock
  /\ UNCHANGED <<streamOpened, stream, obj>>

RateSet ==
  /\ Go("ctl", "b.set", "b.store") /\ Locked
  /\ streamOpened /\ stream
  /\ obj' = "setbr"
  /\ UNCHANGED <<streamOpened, stream>>

RateStore ==
  /\ Go("ctl", "b.store", "recv") /\ Unlock
  /\ obj' = "open"
  /\ UNCHANGED <<streamOpened, stream>>

\* GetStatus takes no lock: three reads, anything may happen between them.
StatusOpened ==
  /\ Go("ctl", "g.opened", IF streamOpened THEN "g.stream" ELSE "recv")
  /\ UNCHANGED <<handler, rpc_server, service, commandLine, stale>>

StatusStream ==
  /\ Go("ctl", "g.stream", IF stream THEN "g.use" ELSE "recv")
  /\ UNCHANGED <<handler, rpc_server, service, commandLine, stale>>

StatusUse ==
  /\ Go("ctl", "g.use", "recv")
  /\ stale' = (stale \/ obj = "none")
  /\ UNCHANGED <<handler, rpc_server, service, commandLine>>

-----------------------------------------------------------------------------
(* UnixDomainService::Close, by ctl after Wait and by main in quit.        *)

CloseTest(t) ==
  /\ Go(t, "c.test", IF service \in {"open", "shut"} THEN "c.shutdown"
                     ELSE "c.reset")
  /\ UNCHANGED <<handler, rpc_server, service, commandLine, stale>>

\* Mutant: close without shutdown.
CloseShutdown_Missing(t) ==
  /\ Go(t, "c.shutdown", "c.close")
  /\ UNCHANGED <<handler, rpc_server, service, commandLine, stale>>

\* shutdown makes the recvfrom of ctl return.
CloseShutdown(t) ==
  /\ Go(t, "c.shutdown", "c.close")
  /\ service' = IF service = "open" THEN "shut" ELSE service
  /\ UNCHANGED <<handler, rpc_server, commandLine, stale>>

\* close(srvFD), which by itself does not wake a recvfrom.  When main and ctl
\* both get here, the second closes a number that is free or someone else's.
CloseFd(t) ==
  /\ Go(t, "c.close", "c.reset")
  /\ service' = IF service = "shut" THEN "closed" ELSE service
  /\ UNCHANGED <<handler, rpc_server, commandLine, stale>>

CloseReset(t) ==
  /\ Go(t, "c.reset", IF t = "ctl" THEN "ended" ELSE "join")
  /\ UNCHANGED <<handler, rpc_server, service, commandLine, stale>>

ServiceClose(t) ==
  CloseTest(t) \/ CloseShutdown(t) \/ CloseFd(t) \/ CloseReset(t)

-----------------------------------------------------------------------------
(* RemoteService::run and UnixDomainService::Wait: the control thread.     *)

\* Open succeeds, or has no socket and says that it succeeded.
ServiceOpens ==
  /\ Go("ctl", "begin", "register")
  /\ service' \in {"open", "closed"}
  /\ UNCHANGED <<handler, rpc_server, commandLine, stale>>

\* bind fails: run returns at once.
ServiceOpenFails ==
  /\ Go("ctl", "begin", "ended")
  /\ service' = "closed"
  /\ UNCHANGED <<handler, rpc_server, commandLine, stale>>

Register ==
  /\ Go("ctl", "register", IF service = "open" THEN "recv" ELSE "c.test")
  /\ rpc_server' = TRUE
  /\ UNCHANGED <<handler, service, commandLine, stale>>

\* PushStream, CloseStream, SetBitrate or GetBitrate, GetStatus.  A request
\* that its parser rejects reaches no handler and changes nothing here.
Request ==
  /\ service = "open"
  /\ \E op \in {"s.lock", "p.lock", "b.lock", "g.opened"} : Go("ctl", "recv", op)
  /\ UNCHANGED <<handler, rpc_server, service, commandLine, stale>>

\* recvfrom returns 0 or an error (after shutdown, or for an empty datagram),
\* or the reply to unreadable data cannot be sent.
WaitEnds ==
  /\ Go("ctl", "recv", "c.test")
  /\ UNCHANGED <<handler, rpc_server, service, commandLine, stale>>

-----------------------------------------------------------------------------
(* main                                                                    *)

MainStarts ==
  /\ Go("main", "begin", "s.lock")
  /\ commandLine' = TRUE
  /\ UNCHANGED <<handler, rpc_server, service, stale>>

MainSkips ==
  /\ Go("main", "begin", "menu")
  /\ UNCHANGED <<handler, rpc_server, service, commandLine, stale>>

\* 'q': quit() closes the service when rpc_server is set, else does nothing.
Quit ==
  /\ Go("main", "menu", IF rpc_server THEN "c.test" ELSE "join")
  /\ UNCHANGED <<handler, rpc_server, service, commandLine, stale>>

\* Mutant: the control thread is not waited for.
MainJoin_Detaches ==
  /\ Go("main", "join", "p.lock")
  /\ UNCHANGED <<handler, rpc_server, service, commandLine, stale>>

\* The control thread is joined; the destructors of service and handler run.
\* The first calls Close on ctl's stack object, whose srvFD was left at -1.
MainJoin ==
  /\ Go("main", "join", "p.lock")
  /\ at["ctl"] = "ended"
  /\ UNCHANGED <<handler, rpc_server, service, commandLine, stale>>

CtlStep ==
  \/ ServiceOpens \/ ServiceOpenFails \/ Register \/ WaitEnds
  \/ StartStream("ctl") \/ StopStream("ctl") \/ ServiceClose("ctl")
  \/ Lock("ctl", "b.lock", "b.set") \/ RateLeaves \/ RateSet \/ RateStore
  \/ StatusOpened \/ StatusStream \/ StatusUse

MainStep ==
  \/ MainJoin \/ StartStream("main") \/ StopStream("main") \/ ServiceClose("main")

Next == CtlStep \/ MainStep \/ Request \/ MainStarts \/ MainSkips \/ Quit

\* The threads run, locks are granted; nobody has to send a request, press q
\* or end the service from outside.
CtlRuns == CtlStep /\ (at["ctl"] = "recv" => service # "open")
Fairness == WF_vars(CtlRuns) /\ WF_vars(MainStep)

Spec == Init /\ [][Next]_vars
FairSpec == Spec /\ Fairness

-----------------------------------------------------------------------------

\* Whenever nobody is inside the handler, the flag, the pointer and the
\* object tell the same story: ControlHandler keeps it three times.
HandlerConsistent ==
  streamMutex = "free" => /\ streamOpened <=> stream
                          /\ stream <=> obj = "open"

\* MediaStream's methods are called one at a time and in this order only:
\* what module MediaStream assumes of its owner, from two threads that know
\* nothing of each other.
OwnerProtocol ==
  [][\/ UNCHANGED obj
     \/ <<obj, obj'>> \in
         {<<"none", "new">>, <<"new", "open">>, <<"new", "none">>,
          <<"open", "setbr">>, <<"setbr", "open">>, <<"open", "join">>,
          <<"join", "closed">>, <<"closed", "none">>}]_vars

\* GetStatus reads without the lock, and may use a stream that has just been
\* deleted: only when main's own StartStream runs beside the control thread.
StaleOnlyFromCommandLine == stale => commandLine

\* When the program ends, the control thread has ended, the stream has been
\* closed and deleted, and nobody holds the lock.
ExitIsClean ==
  at["main"] = "exit" =>
    at["ctl"] = "ended" /\ obj = "none" /\ ~stream /\ streamMutex = "free"

\* A 'q' that finds the service registered ends the program.
QuitReturns == at["main"] = "c.test" ~> at["main"] = "exit"

=============================================================================
