------------------------- MODULE RemoteService_proofs -------------------------
(***************************************************************************)
(* The two sides of the control thread.                                    *)
(*                                                                         *)
(* ControlPlane: what two threads that know nothing of each other leave of *)
(* the handler.  Its three records of the stream agree whenever nobody is  *)
(* inside, the stream's methods are called in their order, a stream that   *)
(* was deleted is used only beside a start from the command line, and the  *)
(* end is clean.                                                           *)
(*                                                                         *)
(* UnixDomainService: what the datagram loop keeps to for any clients,     *)
(* addresses and bounds.  Its types hold, a reply reaches a stranger only  *)
(* after recvfrom was told of too little room, and with addresses of one   *)
(* length it never does.                                                   *)
(***************************************************************************)
EXTENDS ControlPlane, UnixDomainService, SequenceTheorems, TLAPS

(***************************************************************************)
(* The handler and its threads.                                            *)
(***************************************************************************)
\* The places where a thread holds streamMutex.
Inside == (StartPlaces \ {"s.lock"}) \cup (StopPlaces \ {"p.lock"})
            \cup (RatePlaces \ {"b.lock"})

MutexInv ==
  /\ \A t \in Threads : at[t] \in Inside <=> streamMutex = t
  /\ streamMutex \in Threads \cup {"free"}

Agreed ==
  (streamOpened <=> stream) /\ (stream <=> obj = "open") /\ obj \in {"none", "open"}

\* The flag, the pointer and the object at each place inside.
PlaceInv(t) ==
  /\ at[t] \in {"s.check", "b.set"} => Agreed
  /\ at[t] = "s.new" => streamOpened /\ ~stream /\ obj = "none"
  /\ at[t] = "s.open" => streamOpened /\ stream /\ obj = "new"
  /\ at[t] = "s.delete" => ~streamOpened /\ stream /\ obj = "new"
  /\ at[t] = "s.null" => ~streamOpened /\ stream /\ obj = "none"
  /\ at[t] = "p.close" => streamOpened /\ stream /\ obj = "open"
  /\ at[t] = "p.join" => streamOpened /\ stream /\ obj = "join"
  /\ at[t] = "p.delete" => streamOpened /\ stream /\ obj = "closed"
  /\ at[t] = "p.null" => obj = "none" /\ (streamOpened <=> stream)
  /\ at[t] = "b.store" => streamOpened /\ stream /\ obj = "setbr"

HandlerInv ==
  /\ streamMutex = "free" => Agreed
  /\ \A t \in Threads : PlaceInv(t)

\* main stops the stream when the control thread has ended, and leaves with
\* the stream stopped.
EndInv ==
  /\ at["main"] \in StopPlaces \cup {"exit"} => at["ctl"] = "ended"
  /\ at["main"] = "exit" => ~stream

\* Who is alone with the handler finds the stream it saw opened.
StatusInv ==
  ~commandLine =>
    /\ at["main"] \notin StartPlaces /\ ~stale
    /\ at["ctl"] \in {"g.stream", "g.use"} => streamOpened

ControlInv == TypeOK /\ MutexInv /\ HandlerInv /\ EndInv /\ StatusInv

-----------------------------------------------------------------------------

LEMMA InitControl == Init => ControlInv
<1> SUFFICES ASSUME Init PROVE ControlInv
  OBVIOUS
<1> USE DEF Init, Threads, StartPlaces, StopPlaces, RatePlaces, StatusPlaces,
            ClosePlaces, Inside
<1>1. TypeOK
  BY DEF TypeOK
<1>2. MutexInv
  BY DEF MutexInv
<1>3. HandlerInv
  BY DEF HandlerInv, PlaceInv, Agreed
<1>4. EndInv /\ StatusInv
  BY DEF EndInv, StatusInv
<1> QED
  BY <1>1, <1>2, <1>3, <1>4 DEF ControlInv

USE DEF Threads, Inside, StartPlaces, StopPlaces, RatePlaces, StatusPlaces,
        ClosePlaces, ControlInv, handler

\* A start, by either thread.
LEMMA StartKeeps ==
  ASSUME ControlInv, NEW t \in Threads, StartStream(t)
  PROVE  ControlInv'
<1> USE DEF TypeOK, MutexInv, HandlerInv, EndInv, StatusInv, PlaceInv, Agreed,
            Go, Back, Outside, Locked, Unlock
<1>1. CASE Lock(t, "s.lock", "s.check")
  BY <1>1 DEF Lock
<1>2. CASE StartRefused(t)
  <2>1. CASE t = "main"
    BY <1>2, <2>1 DEF StartRefused
  <2>2. CASE t = "ctl"
    BY <1>2, <2>2 DEF StartRefused
  <2> QED
    BY <2>1, <2>2
<1>3. CASE StartAccepted(t)
  <2>1. CASE t = "main"
    BY <1>3, <2>1 DEF StartAccepted
  <2>2. CASE t = "ctl"
    BY <1>3, <2>2 DEF StartAccepted
  <2> QED
    BY <2>1, <2>2
<1>4. CASE StartNew(t)
  <2>1. CASE t = "main"
    BY <1>4, <2>1 DEF StartNew
  <2>2. CASE t = "ctl"
    BY <1>4, <2>2 DEF StartNew
  <2> QED
    BY <2>1, <2>2
<1>5. CASE StartOpens(t)
  <2>1. CASE t = "main"
    BY <1>5, <2>1 DEF StartOpens
  <2>2. CASE t = "ctl"
    BY <1>5, <2>2 DEF StartOpens
  <2> QED
    BY <2>1, <2>2
<1>6. CASE StartOpenFails(t)
  <2>1. TypeOK'
    BY <1>6 DEF StartOpenFails
  <2>2. MutexInv'
    BY <1>6 DEF StartOpenFails
  <2>3. HandlerInv'
    BY <1>6 DEF StartOpenFails
  <2>4. EndInv' /\ StatusInv'
    BY <1>6 DEF StartOpenFails
  <2> QED
    BY <2>1, <2>2, <2>3, <2>4
<1>7. CASE StartDelete(t)
  <2>1. CASE t = "main"
    BY <1>7, <2>1 DEF StartDelete
  <2>2. CASE t = "ctl"
    BY <1>7, <2>2 DEF StartDelete
  <2> QED
    BY <2>1, <2>2
<1>8. CASE StartNull(t)
  <2>1. TypeOK'
    BY <1>8 DEF StartNull
  <2>2. MutexInv'
    BY <1>8 DEF StartNull
  <2>3. HandlerInv'
    BY <1>8 DEF StartNull
  <2>4. EndInv' /\ StatusInv'
    BY <1>8 DEF StartNull
  <2> QED
    BY <2>1, <2>2, <2>3, <2>4
<1> QED
  BY <1>1, <1>2, <1>3, <1>4, <1>5, <1>6, <1>7, <1>8 DEF StartStream

\* A stop, by either thread.
LEMMA StopKeeps ==
  ASSUME ControlInv, NEW t \in Threads, StopStream(t)
  PROVE  ControlInv'
<1> USE DEF TypeOK, MutexInv, HandlerInv, EndInv, StatusInv, PlaceInv, Agreed,
            Go, Back, Outside, Locked, Unlock
<1>1. CASE StopLock(t)
  BY <1>1 DEF StopLock, Lock
<1>2. CASE StopClose(t)
  <2>1. CASE t = "main"
    BY <1>2, <2>1 DEF StopClose
  <2>2. CASE t = "ctl"
    BY <1>2, <2>2 DEF StopClose
  <2> QED
    BY <2>1, <2>2
<1>3. CASE StopJoin(t)
  <2>1. CASE t = "main"
    BY <1>3, <2>1 DEF StopJoin
  <2>2. CASE t = "ctl"
    BY <1>3, <2>2 DEF StopJoin
  <2> QED
    BY <2>1, <2>2
<1>4. CASE StopDelete(t)
  <2>1. CASE t = "main"
    BY <1>4, <2>1 DEF StopDelete
  <2>2. CASE t = "ctl"
    BY <1>4, <2>2 DEF StopDelete
  <2> QED
    BY <2>1, <2>2
<1>5. CASE StopNull(t)
  <2>1. TypeOK'
    BY <1>5 DEF StopNull
  <2>2. MutexInv'
    BY <1>5 DEF StopNull
  <2>3. HandlerInv'
    BY <1>5 DEF StopNull
  <2>4. EndInv' /\ StatusInv'
    BY <1>5 DEF StopNull
  <2> QED
    BY <2>1, <2>2, <2>3, <2>4
<1> QED
  BY <1>1, <1>2, <1>3, <1>4, <1>5 DEF StopStream

\* The service is closed, by either thread.
LEMMA ServiceCloseKeeps ==
  ASSUME ControlInv, NEW t \in Threads, ServiceClose(t)
  PROVE  ControlInv'
<1> USE DEF TypeOK, MutexInv, HandlerInv, EndInv, StatusInv, PlaceInv, Agreed, Go
<1>1. CASE CloseTest(t)
  BY <1>1 DEF CloseTest
<1>2. CASE CloseShutdown(t)
  BY <1>2 DEF CloseShutdown
<1>3. CASE CloseFd(t)
  BY <1>3 DEF CloseFd
<1>4. CASE CloseReset(t)
  BY <1>4 DEF CloseReset
<1> QED
  BY <1>1, <1>2, <1>3, <1>4 DEF ServiceClose

\* What only the control thread does.
LEMMA CtlKeeps ==
  ASSUME ControlInv, CtlStep \/ Request
  PROVE  ControlInv'
<1> USE DEF TypeOK, MutexInv, HandlerInv, EndInv, StatusInv, PlaceInv, Agreed,
            Go, Outside, Locked, Unlock
<1>1. CASE ServiceOpens \/ ServiceOpenFails
  BY <1>1 DEF ServiceOpens, ServiceOpenFails
<1>2. CASE Register
  BY <1>2 DEF Register
<1>3. CASE WaitEnds
  BY <1>3 DEF WaitEnds
<1>4. CASE StartStream("ctl") \/ StopStream("ctl") \/ ServiceClose("ctl")
  BY <1>4, StartKeeps, StopKeeps, ServiceCloseKeeps
<1>5. CASE Lock("ctl", "b.lock", "b.set")
  BY <1>5 DEF Lock
<1>6. CASE RateLeaves
  BY <1>6 DEF RateLeaves
<1>7. CASE RateSet
  BY <1>7 DEF RateSet
<1>8. CASE RateStore
  BY <1>8 DEF RateStore
<1>9. CASE StatusOpened
  BY <1>9 DEF StatusOpened
<1>10. CASE StatusStream
  BY <1>10 DEF StatusStream
<1>11. CASE StatusUse
  BY <1>11 DEF StatusUse
<1>12. CASE Request
  BY <1>12 DEF Request
<1> QED
  BY <1>1, <1>2, <1>3, <1>4, <1>5, <1>6, <1>7, <1>8, <1>9, <1>10, <1>11, <1>12
     DEF CtlStep

\* What only main does.
LEMMA MainKeeps ==
  ASSUME ControlInv, MainStep \/ MainStarts \/ MainSkips \/ Quit
  PROVE  ControlInv'
<1> USE DEF TypeOK, MutexInv, HandlerInv, EndInv, StatusInv, PlaceInv, Agreed, Go
<1>1. CASE MainJoin
  BY <1>1 DEF MainJoin
<1>2. CASE StartStream("main") \/ StopStream("main") \/ ServiceClose("main")
  BY <1>2, StartKeeps, StopKeeps, ServiceCloseKeeps
<1>3. CASE MainStarts
  BY <1>3 DEF MainStarts
<1>4. CASE MainSkips
  BY <1>4 DEF MainSkips
<1>5. CASE Quit
  BY <1>5 DEF Quit
<1> QED
  BY <1>1, <1>2, <1>3, <1>4, <1>5 DEF MainStep

LEMMA NextControl == ControlInv /\ [Next]_vars => ControlInv'
<1> SUFFICES ASSUME ControlInv, [Next]_vars PROVE ControlInv'
  OBVIOUS
<1>1. CASE UNCHANGED vars
  BY <1>1 DEF vars, TypeOK, MutexInv, HandlerInv, EndInv, StatusInv, PlaceInv,
              Agreed
<1>2. CASE Next
  BY <1>2, CtlKeeps, MainKeeps DEF Next
<1> QED
  BY <1>1, <1>2

LEMMA ControlAlways == Spec => []ControlInv
  BY InitControl, NextControl, PTL DEF Spec

-----------------------------------------------------------------------------
(* The theorems.                                                           *)

\* ControlHandler keeps one fact three times, and streamMutex keeps the three
\* alike whenever it is free.
THEOREM HandlerAgrees == Spec => []HandlerConsistent
<1>1. ControlInv => HandlerConsistent
  BY DEF HandlerInv, Agreed, HandlerConsistent
<1> QED
  BY <1>1, ControlAlways, PTL

\* GetStatus, which takes no lock, meets a deleted stream only if main has
\* started one itself.
THEOREM StaleNeedsMain == Spec => []StaleOnlyFromCommandLine
<1>1. ControlInv => StaleOnlyFromCommandLine
  BY DEF StatusInv, StaleOnlyFromCommandLine, TypeOK
<1> QED
  BY <1>1, ControlAlways, PTL

\* When the program ends the control thread has, and nothing is left.
THEOREM EndIsClean == Spec => []ExitIsClean
<1>1. ControlInv => ExitIsClean
  <2> SUFFICES ASSUME ControlInv, at["main"] = "exit"
               PROVE  at["ctl"] = "ended" /\ obj = "none" /\ ~stream
                      /\ streamMutex = "free"
    BY DEF ExitIsClean
  <2>1. at["ctl"] = "ended" /\ ~stream
    BY DEF EndInv
  <2>2. streamMutex = "free"
    BY <2>1 DEF MutexInv
  <2> QED
    BY <2>1, <2>2 DEF HandlerInv, Agreed
<1> QED
  BY <1>1, ControlAlways, PTL

\* The calls of MediaStream come one at a time and in the order that module
\* MediaStream assumes, whichever threads make them.
THEOREM OwnerKeepsOrder == Spec => OwnerProtocol
<1> DEFINE Order == \/ UNCHANGED obj
                    \/ <<obj, obj'>> \in
                        {<<"none", "new">>, <<"new", "open">>, <<"new", "none">>,
                         <<"open", "setbr">>, <<"setbr", "open">>,
                         <<"open", "join">>, <<"join", "closed">>,
                         <<"closed", "none">>}
<1>1. ASSUME ControlInv, [Next]_vars PROVE Order
  <2> USE <1>1 DEF HandlerInv, PlaceInv, Agreed, Outside, Locked, Unlock
  <2>1. CASE UNCHANGED vars
    BY <2>1 DEF vars
  <2>2. ASSUME NEW t \in Threads, StartStream(t) PROVE Order
    BY <2>2 DEF StartStream, Lock, StartRefused, StartAccepted, StartNew,
                StartOpens, StartOpenFails, StartDelete, StartNull, Go
  <2>3. ASSUME NEW t \in Threads, StopStream(t) PROVE Order
    BY <2>3 DEF StopStream, StopLock, Lock, StopClose, StopJoin, StopDelete,
                StopNull, Go
  <2>4. CASE RateLeaves \/ RateSet \/ RateStore
    BY <2>4 DEF RateLeaves, RateSet, RateStore, Go, Agreed
  <2>5. ASSUME \/ ServiceOpens \/ ServiceOpenFails \/ Register \/ WaitEnds \/ Request
               \/ Lock("ctl", "b.lock", "b.set") \/ StatusOpened \/ StatusStream
               \/ StatusUse \/ ServiceClose("ctl") \/ ServiceClose("main")
               \/ MainJoin \/ MainStarts \/ MainSkips \/ Quit
        PROVE  UNCHANGED obj
    BY <2>5 DEF ServiceOpens, ServiceOpenFails, Register, WaitEnds, Request,
                Lock, StatusOpened, StatusStream, StatusUse, ServiceClose,
                CloseTest, CloseShutdown, CloseFd, CloseReset, MainJoin,
                MainStarts, MainSkips, Quit
  <2> QED
    BY <2>1, <2>2, <2>3, <2>4, <2>5 DEF Next, CtlStep, MainStep
<1>2. ControlInv /\ [Next]_vars => [Order]_vars
  BY <1>1
<1> QED
  BY <1>2, ControlAlways, PTL DEF Spec, OwnerProtocol

(***************************************************************************)
(* The datagram loop.                                                      *)
(***************************************************************************)
USE AddrAssumption

-----------------------------------------------------------------------------
(* Types.                                                                  *)

\* What recvfrom leaves fills the whole of fromAddr.
LEMMA StoredType ==
  ASSUME ServiceTypeOK, NEW c \in Clients
  PROVE  Stored(Addr[c]) \in Seq(Nat) /\ Len(Stored(Addr[c])) = MaxLength
<1>1. Addr[c] \in Seq(Nat)
  OBVIOUS
<1>2. \A k \in 1..Len(Addr[c]) : Addr[c][k] \in Nat
  BY <1>1, ElementOfSeq
<1>3. \A k \in 1..MaxLength : fromAddr[k] \in Nat
  BY ElementOfSeq, BoundAssumption DEF ServiceTypeOK
<1>4. DOMAIN Stored(Addr[c]) = 1..MaxLength
  BY DEF Stored
<1>5. Stored(Addr[c]) \in [1..MaxLength -> Nat]
  BY <1>1, <1>2, <1>3, LenProperties, BoundAssumption DEF Stored
<1> QED
  BY <1>5, BoundAssumption, LenProperties

LEMMA InitTypeOK == ServiceInit => ServiceTypeOK
<1> SUFFICES ASSUME ServiceInit PROVE ServiceTypeOK
  OBVIOUS
<1>1. Garbage \in Seq(Nat) /\ Len(Garbage) = MaxLength
  <2>1. Garbage \in [1..MaxLength -> Nat]
    BY DEF Garbage
  <2> QED
    BY <2>1, BoundAssumption, LenProperties
<1>2. request \in Datagrams
  BY BoundAssumption DEF ServiceInit, Datagrams, Kinds
<1>3. queue \in Seq(Datagrams) /\ Len(queue) <= Backlog
  BY EmptySeq, BoundAssumption DEF ServiceInit
<1>4. inbox \in [Clients -> Seq(Datagrams)]
  BY EmptySeq DEF ServiceInit
<1>5. fromAddr \in Seq(Nat) /\ Len(fromAddr) = MaxLength /\ fromLength \in 0..MaxLength
  BY <1>1, BoundAssumption DEF ServiceInit
<1>6. unread \in [Clients -> 0..Backlog] /\ sent \in 0..MaxRequests
  BY BoundAssumption DEF ServiceInit
<1> QED
  BY <1>2, <1>3, <1>4, <1>5, <1>6 DEF ServiceInit, ServiceTypeOK

LEMMA NextTypeOK == ServiceTypeOK /\ [ServiceNext]_serviceVars => ServiceTypeOK'
<1> SUFFICES ASSUME ServiceTypeOK, [ServiceNext]_serviceVars PROVE ServiceTypeOK'
  OBVIOUS
<1>1. ASSUME NEW c \in Clients, NEW kind \in Kinds, Send(c, kind) PROVE ServiceTypeOK'
  <2>1. sent' \in 1..MaxRequests
    BY <1>1, BoundAssumption DEF Send, ServiceTypeOK
  <2>2. [from |-> c, kind |-> kind, nr |-> sent'] \in Datagrams
    BY <2>1 DEF Datagrams
  <2>3. queue' \in Seq(Datagrams) /\ Len(queue') = Len(queue) + 1
    BY <1>1, <2>2, AppendProperties DEF Send, ServiceTypeOK
  <2>4. Len(queue) \in Nat /\ Len(queue) < Backlog
    BY <1>1, LenProperties DEF Send, ServiceTypeOK
  <2>5. Len(queue') <= Backlog
    BY <2>3, <2>4, BoundAssumption
  <2>6. sent' \in 0..MaxRequests
    BY <2>1, BoundAssumption
  <2> QED
    BY <1>1, <2>3, <2>5, <2>6 DEF Send, ServiceTypeOK, address
<1>2. ASSUME NEW c \in Clients, Read(c) PROVE ServiceTypeOK'
  BY <1>2, BoundAssumption DEF Read, ServiceTypeOK, address
<1>3. ASSUME NEW c \in Clients, Leave(c) PROVE ServiceTypeOK'
  BY <1>3 DEF Leave, ServiceTypeOK, address
<1>4. CASE Close
  BY <1>4 DEF Close, ServiceTypeOK, address, clientVars
<1>5. CASE Receive
  <2>1. queue' \in Seq(Datagrams) /\ Len(queue') = Len(queue) - 1
    BY <1>5, HeadTailProperties DEF Receive, ServiceTypeOK
  <2>2. request' \in Datagrams /\ request'.from \in Clients
    <3>1. request' \in Datagrams
      BY <1>5, HeadTailProperties DEF Receive, ServiceTypeOK
    <3> QED
      BY <3>1 DEF Datagrams
  <2>3. fromAddr' \in Seq(Nat) /\ Len(fromAddr') = MaxLength
    BY <1>5, <2>2, StoredType DEF Receive
  <2>4. fromLength' \in 0..MaxLength
    BY <1>5, <2>2, LenProperties, BoundAssumption DEF Receive
  <2>5. misled' \in BOOLEAN
    BY <1>5, Zenon DEF Receive, ServiceTypeOK
  <2>6. wait' \in {"recv", "reply", "ended"}
    BY <1>5 DEF Receive
  <2>7. Len(queue') <= Backlog
    BY <2>1, LenProperties, BoundAssumption DEF ServiceTypeOK
  <2> QED
    BY <1>5, <2>1, <2>2, <2>3, <2>4, <2>5, <2>6, <2>7 DEF Receive, ServiceTypeOK, clientVars
<1>6. CASE ReceiveFails
  BY <1>6 DEF ReceiveFails, ServiceTypeOK, address, clientVars
<1>7. CASE ReplyDelivered
  <2>1. PICK c \in Target : /\ unread[c] < Backlog
                            /\ inbox' = [inbox EXCEPT ![c] = Append(@, request)]
                            /\ unread' = [unread EXCEPT ![c] = @ + 1]
    BY <1>7 DEF ReplyDelivered
  <2>2. c \in Clients
    BY DEF Target, ServiceTypeOK
  <2>3. Append(inbox[c], request) \in Seq(Datagrams)
    BY <2>2, AppendProperties DEF ServiceTypeOK
  <2>4. inbox' \in [Clients -> Seq(Datagrams)]
    BY <2>1, <2>2, <2>3 DEF ServiceTypeOK
  <2>5. unread' \in [Clients -> 0..Backlog]
    BY <2>1, <2>2, BoundAssumption DEF ServiceTypeOK
  <2> QED
    BY <1>7, <2>4, <2>5 DEF ReplyDelivered, ServiceTypeOK, address
<1>8. CASE ReplyFails
  BY <1>8 DEF ReplyFails, ServiceTypeOK, address, clientVars
<1>9. CASE UNCHANGED serviceVars
  BY <1>9 DEF serviceVars, ServiceTypeOK, address, clientVars
<1> QED
  BY <1>1, <1>2, <1>3, <1>4, <1>5, <1>6, <1>7, <1>8, <1>9 DEF ServiceNext, ServiceStep

\* The types hold for any clients and bounds.
THEOREM ServiceTypeCorrect == ServiceSpec => []ServiceTypeOK
<1> QED
  BY InitTypeOK, NextTypeOK, PTL DEF ServiceSpec

-----------------------------------------------------------------------------
(* Who gets a reply.                                                       *)

\* As long as recvfrom had room, the address it left is the sender's.
AddressTrue ==
  ~misled /\ wait = "reply" =>
    SubSeq(fromAddr, 1, fromLength) = Addr[request.from]

ReplyInv == ServiceTypeOK /\ AddressTrue /\ StrangersOnlyIfMisled

LEMMA StoredWhole ==
  ASSUME ServiceTypeOK, NEW c \in Clients, Len(Addr[c]) <= fromLength
  PROVE  SubSeq(Stored(Addr[c]), 1, Len(Addr[c])) = Addr[c]
<1> DEFINE n == Len(Addr[c])
           s == SubSeq(Stored(Addr[c]), 1, n)
<1>1. Addr[c] \in Seq(Nat) /\ n \in Nat /\ n <= MaxLength
  BY LenProperties
<1>2. \A k \in 1..n : Stored(Addr[c])[k] = Addr[c][k]
  BY <1>1, BoundAssumption DEF Stored, ServiceTypeOK
<1>3. \A k \in 1..n : Stored(Addr[c])[k] \in Nat
  BY <1>1, <1>2, ElementOfSeq
<1>4. /\ s \in Seq(Nat)
      /\ Len(s) = IF 1 <= n THEN n - 1 + 1 ELSE 0
      /\ \A k \in 1..n-1+1 : s[k] = Stored(Addr[c])[1 + k - 1]
  <2> HIDE DEF n
  <2> QED
    BY <1>1, <1>3, SubSeqProperties
<1>5. Len(s) = n /\ \A k \in 1..n : s[k] = Addr[c][k]
  <2> HIDE DEF n, s
  <2>1. Len(s) = n
    BY <1>1, <1>4
  <2>2. ASSUME NEW k \in 1..n PROVE s[k] = Addr[c][k]
    <3>1. k \in 1..n-1+1 /\ 1 + k - 1 = k
      BY <1>1
    <3> QED
      BY <1>2, <1>4, <3>1
  <2> QED
    BY <2>1, <2>2
<1> QED
  BY <1>1, <1>4, <1>5, SeqEqual

LEMMA InitReplyInv == ServiceInit => ReplyInv
<1> SUFFICES ASSUME ServiceInit PROVE ReplyInv
  OBVIOUS
<1>1. AddressTrue
  BY DEF ServiceInit, AddressTrue
<1>2. ASSUME NEW c \in Clients, NEW k \in DOMAIN inbox[c] PROVE FALSE
  <2>1. inbox[c] = <<>>
    BY DEF ServiceInit
  <2> QED
    BY <1>2, <2>1
<1>3. RepliesToSender
  BY <1>2 DEF RepliesToSender
<1> QED
  BY InitTypeOK, <1>1, <1>3 DEF ReplyInv, StrangersOnlyIfMisled

\* One reply more: the rest of the inboxes stays as it was.
LEMMA OneReply ==
  ASSUME ServiceTypeOK, NEW c \in Clients,
         inbox' = [inbox EXCEPT ![c] = Append(@, request)],
         RepliesToSender, request.from = c
  PROVE  RepliesToSender'
<1> SUFFICES ASSUME NEW d \in Clients, NEW k \in DOMAIN inbox'[d]
             PROVE  inbox'[d][k].from = d
  BY DEF RepliesToSender
<1>1. CASE d # c
  <2>1. inbox'[d] = inbox[d]
    BY <1>1 DEF ServiceTypeOK
  <2> QED
    BY <2>1 DEF RepliesToSender
<1>2. CASE d = c
  <2>1. inbox'[c] = Append(inbox[c], request)
    BY DEF ServiceTypeOK
  <2>2. inbox[c] \in Seq(Datagrams) /\ request \in Datagrams
    BY DEF ServiceTypeOK
  <2>3. /\ Len(inbox'[c]) = Len(inbox[c]) + 1
        /\ \A i \in 1..Len(inbox[c]) : inbox'[c][i] = inbox[c][i]
        /\ inbox'[c][Len(inbox[c]) + 1] = request
        /\ inbox'[c] \in Seq(Datagrams)
    BY <2>1, <2>2, AppendProperties
  <2>4. /\ DOMAIN inbox'[c] = 1..(Len(inbox[c]) + 1)
        /\ DOMAIN inbox[c] = 1..Len(inbox[c])
        /\ Len(inbox[c]) \in Nat
    BY <2>2, <2>3, LenProperties
  <2>5. CASE k \in 1..Len(inbox[c])
    <3>1. inbox[c][k].from = c
      BY <2>4, <2>5 DEF RepliesToSender
    <3> QED
      BY <1>2, <2>3, <2>5, <3>1
  <2>6. CASE k = Len(inbox[c]) + 1
    BY <1>2, <2>3, <2>6
  <2> QED
    BY <1>2, <2>4, <2>5, <2>6
<1> QED
  BY <1>1, <1>2

\* A reply goes to its sender unless recvfrom was misled: the bytes stored
\* are the sender's, and no other client is bound to them.
LEMMA TargetIsSender ==
  ASSUME ReplyInv, wait = "reply", ~misled, NEW c \in Target
  PROVE  c = request.from
<1>1. c \in Clients /\ request.from \in Clients
  BY DEF ReplyInv, ServiceTypeOK, Target, Datagrams
<1>2. Addr[c] = Addr[request.from] /\ fromLength > 0
  BY DEF ReplyInv, AddressTrue, Target
<1>3. Addr[c] = SubSeq(fromAddr, 1, fromLength)
  BY DEF Target
<1>4. Addr[c] # <<>>
  <2>1. fromLength \in Nat /\ fromLength <= MaxLength /\ fromAddr \in Seq(Nat)
        /\ Len(fromAddr) = MaxLength
    BY BoundAssumption DEF ReplyInv, ServiceTypeOK
  <2>2. \A i \in 1..fromLength : fromAddr[i] \in Nat
    BY <2>1, ElementOfSeq, BoundAssumption
  <2>3. Len(SubSeq(fromAddr, 1, fromLength)) = fromLength
    BY <1>2, <2>1, <2>2, SubSeqProperties
  <2>4. Len(Addr[c]) = fromLength /\ Len(<<>>) = 0
    BY <1>3, <2>3, EmptySeq
  <2> QED
    BY <1>2, <2>1, <2>4
<1> QED
  BY <1>1, <1>2, <1>4

LEMMA NextReplyInv == ReplyInv /\ [ServiceNext]_serviceVars => ReplyInv'
<1> SUFFICES ASSUME ReplyInv, [ServiceNext]_serviceVars PROVE ReplyInv'
  OBVIOUS
<1>1. ServiceTypeOK /\ ServiceTypeOK' /\ AddressTrue /\ StrangersOnlyIfMisled
  BY NextTypeOK DEF ReplyInv
<1>2. ASSUME UNCHANGED <<inbox, misled, fromAddr, fromLength, request>>,
             wait' = "reply" => wait = "reply"
      PROVE  ReplyInv'
  BY <1>1, <1>2 DEF ReplyInv, AddressTrue, StrangersOnlyIfMisled, RepliesToSender
<1>3. CASE Receive
  <2>1. inbox' = inbox /\ (~misled' => ~misled)
    BY <1>3 DEF Receive, clientVars
  <2>2. StrangersOnlyIfMisled'
    BY <1>1, <2>1 DEF StrangersOnlyIfMisled, RepliesToSender
  <2>3. ASSUME ~misled' PROVE SubSeq(fromAddr', 1, fromLength') = Addr[request'.from]
    <3>1. request'.from \in Clients
      BY <1>1 DEF ServiceTypeOK, Datagrams
    <3>2. /\ fromAddr' = Stored(Addr[request'.from])
          /\ fromLength' = Len(Addr[request'.from])
          /\ ~(Len(Addr[request'.from]) > fromLength)
      BY <1>3, <2>3 DEF Receive
    <3>3. Len(Addr[request'.from]) <= fromLength
      BY <3>1, <3>2, <1>1, LenProperties, BoundAssumption DEF ServiceTypeOK
    <3> QED
      BY <3>1, <3>2, <3>3, <1>1, StoredWhole
  <2> QED
    BY <1>1, <2>2, <2>3 DEF ReplyInv, AddressTrue
<1>4. CASE ReplyDelivered
  <2>1. PICK c \in Target : inbox' = [inbox EXCEPT ![c] = Append(@, request)]
    BY <1>4 DEF ReplyDelivered
  <2>2. c \in Clients
    BY <1>1 DEF Target, ServiceTypeOK
  <2>3. wait = "reply" /\ wait' = "recv" /\ UNCHANGED misled
    BY <1>4 DEF ReplyDelivered, address
  <2>4. AddressTrue'
    BY <2>3 DEF AddressTrue
  <2>5. ASSUME ~misled PROVE RepliesToSender'
    <3>1. c = request.from
      BY <2>3, <2>5, TargetIsSender
    <3> QED
      BY <1>1, <2>1, <2>2, <2>5, <3>1, OneReply DEF StrangersOnlyIfMisled
  <2> QED
    BY <1>1, <2>3, <2>4, <2>5 DEF ReplyInv, StrangersOnlyIfMisled
<1>5. ASSUME NEW c \in Clients, NEW kind \in Kinds, Send(c, kind) PROVE ReplyInv'
  BY <1>2, <1>5 DEF Send, address
<1>6. ASSUME NEW c \in Clients, Read(c) \/ Leave(c) PROVE ReplyInv'
  BY <1>2, <1>6 DEF Read, Leave, address
<1>7. CASE Close \/ ReceiveFails \/ ReplyFails \/ UNCHANGED serviceVars
  BY <1>2, <1>7 DEF Close, ReceiveFails, ReplyFails, serviceVars, clientVars, address
<1> QED
  BY <1>3, <1>4, <1>5, <1>6, <1>7 DEF ServiceNext, ServiceStep

\* A reply reaches a client that did not ask for it only when some address
\* was longer than fromLength, which Wait leaves at the length of the last.
THEOREM StrangersOnlyMisled == ServiceSpec => []StrangersOnlyIfMisled
<1>1. ReplyInv => StrangersOnlyIfMisled
  BY DEF ReplyInv
<1> QED
  BY InitReplyInv, NextReplyInv, <1>1, PTL DEF ServiceSpec

-----------------------------------------------------------------------------
(* Addresses of one length.                                                *)

\* As between clients that all use the test client's pattern of a path.
OneLength(n) == \A c \in Clients : Len(Addr[c]) = n

NeverMisled(n) == ~misled /\ (fromLength = MaxLength \/ fromLength = n)

\* Where all addresses have one length, a client finds only replies to its own
\* requests: setting fromLength once, before the loop of Wait, is enough there.
\* It takes addresses of different lengths for a reply to go astray.
THEOREM RepliesKeptApart ==
  ASSUME NEW n \in Nat, OneLength(n)
  PROVE  ServiceSpec => []RepliesToSender
<1>1. n <= MaxLength
  BY BoundAssumption DEF OneLength
<1>2. ServiceInit => NeverMisled(n)
  BY DEF ServiceInit, NeverMisled
<1>3. ServiceTypeOK /\ NeverMisled(n) /\ [ServiceNext]_serviceVars => NeverMisled(n)'
  <2> SUFFICES ASSUME ServiceTypeOK, ServiceTypeOK', NeverMisled(n), [ServiceNext]_serviceVars
               PROVE  NeverMisled(n)'
    BY NextTypeOK
  <2>1. CASE Receive
    <3>1. request'.from \in Clients
      BY DEF ServiceTypeOK, Datagrams
    <3>2. Len(Addr[request'.from]) = n
      BY <3>1 DEF OneLength
    <3>3. fromLength' = n /\ (misled' <=> misled \/ n > fromLength)
      BY <2>1, <3>2 DEF Receive
    <3>4. ~(n > fromLength)
      BY <1>1, BoundAssumption DEF NeverMisled
    <3> QED
      BY <3>3, <3>4 DEF NeverMisled, ServiceTypeOK
  <2>2. CASE UNCHANGED address
    BY <2>2 DEF NeverMisled, address
  <2> QED
    BY <2>1, <2>2 DEF ServiceNext, ServiceStep, serviceVars, Send, Read, Leave, Close,
                      ReceiveFails, ReplyDelivered, ReplyFails
<1>4. NeverMisled(n) /\ StrangersOnlyIfMisled => RepliesToSender
  BY DEF NeverMisled, StrangersOnlyIfMisled
<1> QED
  BY <1>2, <1>3, <1>4, ServiceTypeCorrect, StrangersOnlyMisled, PTL DEF ServiceSpec

===============================================================================
