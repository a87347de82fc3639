-------------------------- MODULE UnixDomainService --------------------------
(***************************************************************************)
(* The datagram loop of src/src/UnixDomainService.cpp: Wait receives a     *)
(* request, lets a handler answer it and sends the reply to the address    *)
(* the kernel stored.  recvfrom copies at most fromLength bytes of the     *)
(* sender's address into fromAddr and then sets fromLength to the length   *)
(* of the whole address; Wait sets fromLength once, before its loop.       *)
(*                                                                         *)
(* An address is a sequence of bytes, <<>> for a client that did not bind. *)
(* Clients come and go; the kernel keeps datagrams in order, does not lose *)
(* or repeat them, and refuses a reply to an address nobody is bound to.   *)
(***************************************************************************)
EXTENDS Naturals, Sequences, FiniteSets

CONSTANTS Clients,
          Addr,         \* Addr[c]: the bytes of c's address
          MaxLength,    \* sizeof(struct sockaddr_un)
          MaxRequests,  \* how many datagrams the clients send (a bound)
          Backlog       \* how many wait in a socket: then sendto blocks

ASSUME AddrAssumption ==
  /\ \A c \in Clients : Addr[c] \in Seq(Nat) /\ Len(Addr[c]) <= MaxLength
  /\ \A c, d \in Clients : Addr[c] = Addr[d] /\ c # d => Addr[c] = <<>>

ASSUME BoundAssumption ==
  /\ Clients # {} /\ MaxLength \in Nat
  /\ MaxRequests \in Nat \ {0} /\ Backlog \in Nat

\* What Wait tells apart: no data, data that UnPacket rejects, requests.
Kinds == {"empty", "unreadable", "request"}

VARIABLES
  alive,       \* the clients whose socket is open
  sent,        \* how many datagrams have been sent
  queue,       \* the datagrams in the service's socket
  inbox,       \* inbox[c]: the replies c's socket has received
  unread,      \* unread[c]: how many of them c has not read
  closed,      \* quit has shut the service's socket down
  wait,        \* Wait: "recv", "reply" or "ended"
  request,     \* the datagram being answered
  fromAddr, fromLength,
  misled       \* history: fromLength was shorter than an address to store

clientVars == <<alive, sent, inbox, unread>>
address == <<fromAddr, fromLength, misled>>
serviceVars == <<clientVars, queue, wait, closed, request, address>>

Datagrams == [from : Clients, kind : Kinds, nr : 1..MaxRequests]
Garbage == [k \in 1..MaxLength |-> 0]   \* fromAddr is not initialised

ServiceTypeOK ==
  /\ alive \in SUBSET Clients
  /\ sent \in 0..MaxRequests
  /\ queue \in Seq(Datagrams) /\ Len(queue) <= Backlog
  /\ inbox \in [Clients -> Seq(Datagrams)]
  /\ unread \in [Clients -> 0..Backlog]
  /\ wait \in {"recv", "reply", "ended"} /\ closed \in BOOLEAN
  /\ request \in Datagrams
  /\ fromAddr \in Seq(Nat) /\ Len(fromAddr) = MaxLength
  /\ fromLength \in 0..MaxLength
  /\ misled \in BOOLEAN

ServiceInit ==
  /\ alive = Clients
  /\ sent = 0
  /\ queue = <<>>
  /\ inbox = [c \in Clients |-> <<>>]
  /\ unread = [c \in Clients |-> 0]
  /\ wait = "recv" /\ closed = FALSE
  /\ request = [from |-> CHOOSE c \in Clients : TRUE, kind |-> "empty", nr |-> 1]
  /\ fromAddr = Garbage /\ fromLength = MaxLength
  /\ misled = FALSE

\* A client sends its next datagram.
Send(c, kind) ==
  /\ c \in alive /\ sent < MaxRequests /\ Len(queue) < Backlog
  /\ ~closed /\ wait # "ended"
  /\ sent' = sent + 1
  /\ queue' = Append(queue, [from |-> c, kind |-> kind, nr |-> sent'])
  /\ UNCHANGED <<alive, inbox, unread, wait, closed, request, address>>

Read(c) ==
  /\ c \in alive /\ unread[c] > 0
  /\ unread' = [unread EXCEPT ![c] = @ - 1]
  /\ UNCHANGED <<alive, sent, inbox, queue, wait, closed, request, address>>

\* A client closes its socket, with replies still to come or not.
Leave(c) ==
  /\ c \in alive
  /\ alive' = alive \ {c}
  /\ UNCHANGED <<sent, inbox, unread, queue, wait, closed, request, address>>

\* RemoteService::quit, from main: UnixDomainService::Close.
Close ==
  /\ ~closed /\ closed' = TRUE
  /\ UNCHANGED <<clientVars, queue, wait, request, address>>

\* Mutant: the first client's address is kept.
Stored_Once(addr) ==
  [k \in 1..MaxLength |-> IF fromAddr = Garbage /\ k <= Len(addr) THEN addr[k]
                                                               ELSE fromAddr[k]]

\* What recvfrom leaves in fromAddr.
Stored(addr) ==
  [k \in 1..MaxLength |->
     IF k <= Len(addr) /\ k <= fromLength THEN addr[k] ELSE fromAddr[k]]

Receive ==
  /\ wait = "recv" /\ queue # <<>>
  /\ request' = Head(queue) /\ queue' = Tail(queue)
  /\ LET addr == Addr[request'.from] IN
       /\ fromAddr' = Stored(addr)
       /\ fromLength' = Len(addr)
       /\ misled' = (misled \/ Len(addr) > fromLength)
  /\ wait' = IF request'.kind = "empty" THEN "ended" ELSE "reply"
  /\ UNCHANGED <<clientVars, closed>>

\* A socket that is shut down gives 0, or srvFD is -1 by now.
ReceiveFails ==
  /\ wait = "recv" /\ closed
  /\ wait' = "ended"
  /\ UNCHANGED <<clientVars, queue, closed, request, address>>

\* Where the reply goes: nowhere, or to the client bound to these bytes.
Target == {c \in alive : fromLength > 0
                           /\ Addr[c] = SubSeq(fromAddr, 1, fromLength)}

\* sendto blocks while the client's socket is full.
ReplyDelivered ==
  /\ wait = "reply"
  /\ \E c \in Target :
       /\ unread[c] < Backlog
       /\ inbox' = [inbox EXCEPT ![c] = Append(@, request)]
       /\ unread' = [unread EXCEPT ![c] = @ + 1]
  /\ wait' = "recv"
  /\ UNCHANGED <<alive, sent, queue, closed, request, address>>

\* Mutant: a reply that cannot be sent always ends the loop.
ReplyFails_AlwaysEnds ==
  /\ wait = "reply" /\ (Target = {} \/ closed)
  /\ wait' = "ended"
  /\ UNCHANGED <<clientVars, queue, closed, request, address>>

\* Only the failure to answer unreadable data ends the loop.
ReplyFails ==
  /\ wait = "reply" /\ (Target = {} \/ closed)
  /\ wait' = IF request.kind = "unreadable" THEN "ended" ELSE "recv"
  /\ UNCHANGED <<clientVars, queue, closed, request, address>>

ServiceStep == Receive \/ ReceiveFails \/ ReplyDelivered \/ ReplyFails

ServiceNext ==
  \/ \E c \in Clients : Leave(c) \/ Read(c) \/ \E kind \in Kinds : Send(c, kind)
  \/ ServiceStep \/ Close

\* The service runs, and a client reads what it is sent, as the test client
\* does after each request.
ServiceFairness == WF_serviceVars(ServiceStep) /\ \A c \in Clients : WF_serviceVars(Read(c))

ServiceSpec == ServiceInit /\ [][ServiceNext]_serviceVars
ServiceFairSpec == ServiceSpec /\ ServiceFairness

-----------------------------------------------------------------------------

\* Every reply a client finds in its socket answers a request of its own.
RepliesToSender ==
  \A c \in Clients : \A k \in DOMAIN inbox[c] : inbox[c][k].from = c

\* A reply reaches a stranger only after a client whose address is longer
\* than the one before: recvfrom was told of too little room.
StrangersOnlyIfMisled == ~RepliesToSender => misled

Pending(c, n) ==
  \/ wait = "reply" /\ request.from = c /\ request.nr = n
  \/ \E k \in DOMAIN queue : queue[k].from = c /\ queue[k].nr = n

\* What a client sends is answered, unless the client leaves or has no address
\* of its own, the service is closed, an empty or an unreadable datagram ends
\* the loop, or recvfrom was misled: never because another client has left
\* before its answer.
Answered ==
  \A c \in Clients : \A n \in 1..MaxRequests :
    Pending(c, n) ~>
      \/ c \notin alive \/ closed \/ Addr[c] = <<>> \/ misled
      \/ wait = "ended" /\ request.kind \in {"empty", "unreadable"}
      \/ \E k \in DOMAIN inbox[c] : inbox[c][k].from = c /\ inbox[c][k].nr = n

=============================================================================
