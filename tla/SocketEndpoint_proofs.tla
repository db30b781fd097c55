------------------------- MODULE SocketEndpoint_proofs -------------------------
(***************************************************************************)
(* Theorems of SocketEndpoint, for any number of TcpClient objects and     *)
(* reconnect loops. The invariant follows the one chain that a connection  *)
(* makes: the party that is connecting hands it to the receive loop of the *)
(* client it connected, which hands it to the reconnect loop it starts.    *)
(***************************************************************************)
EXTENDS SocketEndpoint, FiniteSetTheorems, TLAPS

USE IdentitiesAssumption DEF endpointVars, taskVars, partyVars, stopVars, workerVars, receiveVars

(* The chain is in one place. *)
Single ==
  /\ \A p, q \in Connecting : p = q
  /\ \A c, d \in Receiving : c = d
  /\ Connecting = {} \/ Receiving = {}

AllClosed == \A c \in Clients : client[c] = "closed"

(* _cts is cancelled before a stop or a disposal goes on; a receive loop   *)
(* that is starting a reconnect loop says which. The one of the client     *)
(* that a party waits for is yet to begin.                                 *)
Bookkeeping ==
  /\ stop # "idle" \/ disposed \/ receiveCts => cancelled
  /\ \A c \in Clients : rx[c] = "starting" <=> started[c] # None
  /\ \A c \in Receiving : receiveTask = c
  /\ \A p \in Parties : pc[p] = "connecting" => rx[dialing[p]] = "done"

(* Nothing has happened before StartAsync. *)
NotStarted ==
  ~attached /\ ~cancelled =>
    /\ \A p \in Parties : pc[p] = "off"
    /\ \A c \in Clients : rx[c] = "done"
    /\ AllClosed /\ ~isRunning

(* While StartAsync is connecting nothing else goes on, and no stop.       *)
StartAlone ==
  Start \in Connecting =>
    /\ ~isRunning /\ stop = "idle" /\ attached
    /\ \A l \in Loops : pc[l] = "off"
    /\ \A c \in Clients : rx[c] = "done"

(* Only _tcpClient is open, and it belongs to the chain.                   *)
Sockets ==
  /\ \A c \in Clients : client[c] # "closed" => c = tcpClient
  /\ \A p \in Parties : pc[p] \in {"dial", "delay"} => AllClosed
  /\ \A p \in Parties : pc[p] = "connecting" =>
       \A c \in Clients \ {dialing[p]} : client[c] = "closed"
  /\ \A c \in Clients : rx[c] = "run" => \A d \in Clients \ {c} : client[d] = "closed"
  /\ \A c \in Clients : rx[c] \in {"notify", "spawn"} /\ ~cancelled => AllClosed

(* The receive loop that has started l and not yet assigned _reconnectTask. *)
Unassigned(l) == \E c \in Clients : rx[c] = "starting" /\ started[c] = l /\ receiveTask = c

(* A reconnect loop that is connecting is the one that _reconnectTask is, or  *)
(* is going to be.                                                          *)
Known == ~lost => \A l \in Loops \cap Connecting : reconnectTask = l \/ Unassigned(l)

(* What StopAsync waits for rules out, step by step, that anybody calls    *)
(* SocketWorker.ConnectAsync again.                                        *)
WaitedFor(l) ==
  /\ stop # "close"
  /\ stop = "idle" => attached
  /\ stop = "reconnect" => awaited = l \/ Unassigned(l)
  /\ stop = "detach" => Unassigned(l)
  /\ stop = "receive" => Unassigned(l) /\ awaited = receiveTask
Stopping == ~lost => \A l \in Loops : pc[l] = "dial" => WaitedFor(l)

IInv ==
  /\ TypeOK /\ Single /\ Bookkeeping /\ NotStarted /\ StartAlone /\ Sockets
  /\ Known /\ Stopping /\ StoppedIsClosed /\ NeverAbandoned

-----------------------------------------------------------------------------
(* What the steps that choose an identity do, with the identity they choose *)

DialWith(p, c) ==
  /\ Unused(c) /\ pc[p] = "dial"
  /\ tcpClient' = c
  /\ client' = [client EXCEPT ![c] = "connecting"]
  /\ dialing' = [dialing EXCEPT ![p] = c]
  /\ receiveCts' = FALSE
  /\ rx' = CancelledReceive
  /\ Goto(p, "connecting")
  /\ UNCHANGED <<endpointVars, lost, tokenFired, stop, stopAsked, receiveTask, started>>

LEMMA DialFacts ==
  ASSUME NEW p \in Parties, Dial(p)
  PROVE  \E c \in Clients : DialWith(p, c)
  <1> DEFINE c == CHOOSE d \in Clients : Unused(d)
  <1>1. c \in Clients /\ Unused(c)
    BY DEF Dial
  <1>2. DialWith(p, c)
    BY <1>1 DEF Dial, DialWith
  <1> QED BY <1>1, <1>2

StartWith(c, l) ==
  /\ FreeLoop(l) /\ rx[c] = "spawn"
  /\ Goto(l, IF cancelled THEN "publish" ELSE "dial")
  /\ started' = [started EXCEPT ![c] = l]
  /\ rx' = [rx EXCEPT ![c] = "starting"]
  /\ UNCHANGED <<endpointVars, lost, dialing, tokenFired, stop, stopAsked, workerVars,
                 receiveTask>>

LEMMA StartLoopFacts ==
  ASSUME NEW c \in Clients, StartLoop(c)
  PROVE  \E l \in Loops : StartWith(c, l)
  <1> DEFINE l == CHOOSE k \in Loops : FreeLoop(k)
  <1>1. l \in Loops /\ FreeLoop(l)
    BY DEF StartLoop
  <1>2. StartWith(c, l)
    BY <1>1 DEF StartLoop, StartWith
  <1> QED BY <1>1, <1>2

-----------------------------------------------------------------------------
(* Types *)

(* TypeOK in two parts: the flags and the other fields. *)
Flags ==
  /\ hasStrategy \in BOOLEAN /\ isRunning \in BOOLEAN /\ cancelled \in BOOLEAN
  /\ disposed \in BOOLEAN /\ attached \in BOOLEAN /\ tokenFired \in BOOLEAN
  /\ receiveCts \in BOOLEAN /\ lost \in BOOLEAN /\ stopAsked \in BOOLEAN
Tasks ==
  /\ reconnectTask \in Loops \cup {None}
  /\ pc \in [Parties -> {"off", "dial", "connecting", "delay", "publish"}]
  /\ dialing \in [Parties -> Clients \cup {None}]
  /\ \A p \in Parties : pc[p] = "connecting" <=> dialing[p] # None
  /\ stop \in {"idle", "reconnect", "detach", "receive", "close"}
  /\ awaited \in Loops \cup Clients \cup {None}
Worker ==
  /\ client \in [Clients -> {"closed", "connecting", "open"}]
  /\ tcpClient \in Clients \cup {None} /\ receiveTask \in Clients \cup {None}
  /\ rx \in [Clients -> {"done", "run", "notify", "spawn", "starting"}]
  /\ started \in [Clients -> Loops \cup {None}]

LEMMA TypeParts == TypeOK <=> Flags /\ Tasks /\ Worker
  BY DEF TypeOK, Flags, Tasks, Worker

LEMMA FlagsNext == Flags /\ Next => Flags'
  <1> SUFFICES ASSUME Flags, Next PROVE Flags'
    OBVIOUS
  <1>1. ASSUME NEW p \in Parties, PartySteps(p) PROVE Flags'
    BY <1>1 DEF Flags, PartySteps, Dial, Connected, ConnectFails, DelayEnds, Publish
  <1>2. ASSUME NEW c \in Clients, ReceiveSteps(c) \/ Drop(c) PROVE Flags'
    BY <1>2 DEF Flags, ReceiveSteps, ReadEnds, OnDisconnected, StartLoop, AssignTask, Drop
  <1>3. CASE StopSteps
    BY <1>3 DEF Flags, StopSteps, LoopAwaited, Detach, ReceiveAwaited, Close
  <1>4. CASE BeginStart \/ CancelStart \/ StopIgnored \/ BeginStop \/ Dispose
    BY <1>4 DEF Flags, BeginStart, CancelStart, StopIgnored, BeginStop, Dispose
  <1> QED BY <1>1, <1>2, <1>3, <1>4 DEF Next

LEMMA TasksNext == Tasks /\ Worker /\ Bookkeeping /\ Next => Tasks'
  <1> SUFFICES ASSUME Tasks, Worker, Bookkeeping, Next PROVE Tasks'
    OBVIOUS
  <1> USE DEF Tasks, Goto, Leave, Without
  <1>1. ASSUME NEW p \in Parties, Dial(p) PROVE Tasks'
    <2>1. PICK c \in Clients : DialWith(p, c)
      BY <1>1, DialFacts
    <2> QED BY <2>1 DEF DialWith
  <1>2. ASSUME NEW p \in Parties, Connected(p) \/ ConnectFails(p) PROVE Tasks'
    BY <1>2 DEF Connected, ConnectFails
  <1>3. ASSUME NEW p \in Parties, DelayEnds(p) \/ Publish(p) PROVE Tasks'
    BY <1>3 DEF DelayEnds, Publish
  <1>4. ASSUME NEW c \in Clients, ReadEnds(c) \/ OnDisconnected(c) \/ Drop(c) PROVE Tasks'
    BY <1>4 DEF ReadEnds, OnDisconnected, Drop, LoopOver
  <1>5. ASSUME NEW c \in Clients, StartLoop(c) PROVE Tasks'
    <2>1. PICK l \in Loops : StartWith(c, l)
      BY <1>5, StartLoopFacts
    <2> QED BY <2>1 DEF StartWith, FreeLoop, Parties
  <1>6. ASSUME NEW c \in Clients, AssignTask(c) PROVE Tasks'
    BY <1>6 DEF Worker, Bookkeeping, AssignTask, LoopOver
  <1>7. CASE BeginStart \/ CancelStart
    <2>1. Start \in Parties
      BY DEF Parties
    <2> QED BY <1>7, <2>1 DEF BeginStart, CancelStart
  <1>8. CASE StopIgnored \/ BeginStop \/ StopSteps \/ Dispose
    BY <1>8 DEF Worker, StopIgnored, BeginStop, StopSteps, LoopAwaited, Detach, ReceiveAwaited,
                Close, Dispose
  <1> QED
    BY <1>1, <1>2, <1>3, <1>4, <1>5, <1>6, <1>7, <1>8
    DEF Next, PartySteps, ReceiveSteps

LEMMA WorkerNext == Tasks /\ Worker /\ Next => Worker'
  <1> SUFFICES ASSUME Tasks, Worker, Next PROVE Worker'
    OBVIOUS
  <1> USE DEF Worker
  <1>0. CancelledReceive \in [Clients -> {"done", "run", "notify", "spawn", "starting"}]
    BY DEF CancelledReceive
  <1>1. ASSUME NEW p \in Parties, Dial(p) PROVE Worker'
    <2>1. PICK c \in Clients : DialWith(p, c)
      BY <1>1, DialFacts
    <2> QED BY <1>0, <2>1 DEF DialWith
  <1>2. ASSUME NEW p \in Parties, Connected(p) \/ ConnectFails(p) PROVE Worker'
    BY <1>2 DEF Tasks, Connected, ConnectFails
  <1>3. ASSUME NEW p \in Parties, DelayEnds(p) \/ Publish(p) PROVE Worker'
    BY <1>3 DEF DelayEnds, Publish
  <1>4. ASSUME NEW c \in Clients, ReadEnds(c) \/ OnDisconnected(c) \/ Drop(c) PROVE Worker'
    BY <1>4 DEF ReadEnds, OnDisconnected, Drop, LoopOver, Without
  <1>5. ASSUME NEW c \in Clients, StartLoop(c) PROVE Worker'
    <2>1. PICK l \in Loops : StartWith(c, l)
      BY <1>5, StartLoopFacts
    <2> QED BY <2>1 DEF StartWith
  <1>6. ASSUME NEW c \in Clients, AssignTask(c) PROVE Worker'
    BY <1>6 DEF AssignTask, LoopOver, Without
  <1>7. CASE BeginStart \/ CancelStart \/ StopIgnored \/ BeginStop
    BY <1>7 DEF BeginStart, CancelStart, StopIgnored, BeginStop
  <1>8. CASE StopSteps \/ Dispose
    BY <1>0, <1>8 DEF StopSteps, LoopAwaited, Detach, ReceiveAwaited, Close, Dispose,
       DisposeTcpClient
  <1> QED
    BY <1>1, <1>2, <1>3, <1>4, <1>5, <1>6, <1>7, <1>8
    DEF Next, PartySteps, ReceiveSteps

LEMMA ByCases ==
  ASSUME Next
  PROVE  \/ \E p \in Parties, c \in Clients : DialWith(p, c)
         \/ \E p \in Parties :
              Connected(p) \/ ConnectFails(p) \/ DelayEnds(p) \/ Publish(p)
         \/ \E c \in Clients, l \in Loops : StartWith(c, l)
         \/ \E c \in Clients :
              ReadEnds(c) \/ OnDisconnected(c) \/ AssignTask(c) \/ Drop(c)
         \/ LoopAwaited \/ Detach \/ ReceiveAwaited \/ Close
         \/ BeginStart \/ CancelStart \/ StopIgnored \/ BeginStop \/ Dispose
  BY DialFacts, StartLoopFacts DEF Next, PartySteps, ReceiveSteps, StopSteps

-----------------------------------------------------------------------------

(* Whoever leaves the chain hands it to one other. *)
LEMMA SingleNext == Tasks /\ Worker /\ Single /\ NotStarted /\ Next => Single'
  <1> SUFFICES ASSUME Tasks, Worker, Single, NotStarted, Next PROVE Single'
    OBVIOUS
  <1> USE DEF Tasks, Worker, Single, NotStarted, Connecting, Receiving, Parties
  <1>1. ASSUME NEW p \in Parties, NEW c \in Clients, DialWith(p, c) PROVE Single'
    BY <1>1 DEF DialWith, Goto, CancelledReceive
  <1>2. ASSUME NEW p \in Parties, Connected(p) PROVE Single'
    BY <1>2 DEF Connected, Goto
  <1>3. ASSUME NEW p \in Parties, ConnectFails(p) PROVE Single'
    BY <1>3 DEF ConnectFails, Goto, Leave, Without
  <1>4. ASSUME NEW p \in Parties, DelayEnds(p) PROVE Single'
    BY <1>4 DEF DelayEnds, Goto, Leave, Without, Fired
  <1>5. ASSUME NEW p \in Parties, Publish(p) PROVE Single'
    BY <1>5 DEF Publish, Leave, Without
  <1>6. ASSUME NEW c \in Clients, NEW l \in Loops, StartWith(c, l) PROVE Single'
    BY <1>6 DEF StartWith, FreeLoop, Goto
  <1>7. ASSUME NEW c \in Clients, ReadEnds(c) \/ OnDisconnected(c) PROVE Single'
    BY <1>7 DEF ReadEnds, OnDisconnected, LoopOver, Without
  <1>8. ASSUME NEW c \in Clients, AssignTask(c) PROVE Single'
    BY <1>8 DEF AssignTask, LoopOver, Without
  <1>9. ASSUME NEW c \in Clients, Drop(c) PROVE Single'
    BY <1>9 DEF Drop, Without
  <1>10. ASSUME BeginStart PROVE Single'
    BY <1>10 DEF BeginStart, Goto
  <1>11. ASSUME CancelStart \/ StopIgnored PROVE Single'
    BY <1>11 DEF CancelStart, StopIgnored
  <1>12. ASSUME BeginStop \/ LoopAwaited PROVE Single'
    BY <1>12 DEF BeginStop, LoopAwaited
  <1>13. ASSUME Detach PROVE Single'
    BY <1>13 DEF Detach, CancelledReceive
  <1>14. ASSUME ReceiveAwaited \/ Close PROVE Single'
    BY <1>14 DEF ReceiveAwaited, Close, DisposeTcpClient
  <1>15. ASSUME Dispose PROVE Single'
    BY <1>15 DEF Dispose, DisposeTcpClient, CancelledReceive
  <1> QED
    BY ByCases, <1>1, <1>2, <1>3, <1>4, <1>5, <1>6, <1>7, <1>8, <1>9, <1>10, <1>11, <1>12, <1>13,
       <1>14, <1>15

(* A receive loop assigns _reconnectTask once; nothing but a stop or a disposal sets
   receiveCts. *)
LEMMA BookkeepingNext == Tasks /\ Worker /\ Single /\ Bookkeeping /\ Next => Bookkeeping'
  <1> SUFFICES ASSUME Tasks, Worker, Single, Bookkeeping, Next PROVE Bookkeeping'
    OBVIOUS
  <1> USE DEF Tasks, Worker, Single, Bookkeeping, Connecting, Receiving, Parties
  <1>1. ASSUME NEW p \in Parties, NEW c \in Clients, DialWith(p, c) PROVE Bookkeeping'
    BY <1>1 DEF DialWith, Unused, Goto, CancelledReceive
  <1>2. ASSUME NEW p \in Parties, Connected(p) PROVE Bookkeeping'
    BY <1>2 DEF Connected, Goto
  <1>3. ASSUME NEW p \in Parties, ConnectFails(p) PROVE Bookkeeping'
    BY <1>3 DEF ConnectFails, Goto, Leave, Without
  <1>4. ASSUME NEW p \in Parties, DelayEnds(p) PROVE Bookkeeping'
    BY <1>4 DEF DelayEnds, Goto, Leave, Without, Fired
  <1>5. ASSUME NEW p \in Parties, Publish(p) PROVE Bookkeeping'
    BY <1>5 DEF Publish, Leave, Without
  <1>6. ASSUME NEW c \in Clients, NEW l \in Loops, StartWith(c, l) PROVE Bookkeeping'
    BY <1>6 DEF StartWith, FreeLoop, Goto
  <1>7. ASSUME NEW c \in Clients, ReadEnds(c) \/ OnDisconnected(c) PROVE Bookkeeping'
    BY <1>7 DEF ReadEnds, OnDisconnected, LoopOver, Without
  <1>8. ASSUME NEW c \in Clients, AssignTask(c) PROVE Bookkeeping'
    BY <1>8 DEF AssignTask, LoopOver, Without
  <1>9. ASSUME NEW c \in Clients, Drop(c) PROVE Bookkeeping'
    BY <1>9 DEF Drop, Without
  <1>10. ASSUME BeginStart PROVE Bookkeeping'
    BY <1>10 DEF BeginStart, Goto
  <1>11. ASSUME CancelStart \/ StopIgnored PROVE Bookkeeping'
    BY <1>11 DEF CancelStart, StopIgnored
  <1>12. ASSUME BeginStop \/ LoopAwaited PROVE Bookkeeping'
    BY <1>12 DEF BeginStop, LoopAwaited
  <1>13. ASSUME Detach PROVE Bookkeeping'
    BY <1>13 DEF Detach, CancelledReceive
  <1>14. ASSUME ReceiveAwaited \/ Close PROVE Bookkeeping'
    BY <1>14 DEF ReceiveAwaited, Close, DisposeTcpClient
  <1>15. ASSUME Dispose PROVE Bookkeeping'
    BY <1>15 DEF Dispose, DisposeTcpClient, CancelledReceive
  <1> QED
    BY ByCases, <1>1, <1>2, <1>3, <1>4, <1>5, <1>6, <1>7, <1>8, <1>9, <1>10, <1>11, <1>12, <1>13,
       <1>14, <1>15

(* Only StartAsync makes anything happen, and only Detach, under _cts, takes it back. *)
LEMMA NotStartedNext ==
  Tasks /\ Worker /\ Bookkeeping /\ NotStarted /\ Next => NotStarted'
  <1> SUFFICES ASSUME Tasks, Worker, Bookkeeping, NotStarted, Next PROVE NotStarted'
    OBVIOUS
  <1> USE DEF Tasks, Worker, Bookkeeping, NotStarted, AllClosed, Parties
  <1>1. ASSUME NEW p \in Parties, NEW c \in Clients, DialWith(p, c) PROVE NotStarted'
    BY <1>1 DEF DialWith, Goto, CancelledReceive
  <1>2. ASSUME NEW p \in Parties, Connected(p) PROVE NotStarted'
    BY <1>2 DEF Connected, Goto
  <1>3. ASSUME NEW p \in Parties, ConnectFails(p) PROVE NotStarted'
    BY <1>3 DEF ConnectFails, Goto, Leave, Without
  <1>4. ASSUME NEW p \in Parties, DelayEnds(p) PROVE NotStarted'
    BY <1>4 DEF DelayEnds, Goto, Leave, Without, Fired
  <1>5. ASSUME NEW p \in Parties, Publish(p) PROVE NotStarted'
    BY <1>5 DEF Publish, Leave, Without
  <1>6. ASSUME NEW c \in Clients, NEW l \in Loops, StartWith(c, l) PROVE NotStarted'
    BY <1>6 DEF StartWith, FreeLoop, Goto
  <1>7. ASSUME NEW c \in Clients, ReadEnds(c) \/ OnDisconnected(c) PROVE NotStarted'
    BY <1>7 DEF ReadEnds, OnDisconnected, LoopOver, Without
  <1>8. ASSUME NEW c \in Clients, AssignTask(c) PROVE NotStarted'
    BY <1>8 DEF AssignTask, LoopOver, Without
  <1>9. ASSUME NEW c \in Clients, Drop(c) PROVE NotStarted'
    BY <1>9 DEF Drop, Without
  <1>10. ASSUME BeginStart PROVE NotStarted'
    BY <1>10 DEF BeginStart, Goto
  <1>11. ASSUME CancelStart \/ StopIgnored PROVE NotStarted'
    BY <1>11 DEF CancelStart, StopIgnored
  <1>12. ASSUME BeginStop \/ LoopAwaited PROVE NotStarted'
    BY <1>12 DEF BeginStop, LoopAwaited
  <1>13. ASSUME Detach PROVE NotStarted'
    BY <1>13 DEF Detach, CancelledReceive
  <1>14. ASSUME ReceiveAwaited \/ Close PROVE NotStarted'
    BY <1>14 DEF ReceiveAwaited, Close, DisposeTcpClient
  <1>15. ASSUME Dispose PROVE NotStarted'
    BY <1>15 DEF Dispose, DisposeTcpClient, CancelledReceive
  <1> QED
    BY ByCases, <1>1, <1>2, <1>3, <1>4, <1>5, <1>6, <1>7, <1>8, <1>9, <1>10, <1>11, <1>12, <1>13,
       <1>14, <1>15

(* What could disturb StartAsync starts only when it has connected. *)
LEMMA StartAloneNext ==
  Tasks /\ Worker /\ Single /\ Bookkeeping /\ NotStarted /\ StartAlone /\ Next => StartAlone'
  <1> SUFFICES ASSUME Tasks, Worker, Single, Bookkeeping, NotStarted, StartAlone, Next
               PROVE  StartAlone'
    OBVIOUS
  <1> USE DEF Tasks, Worker, Single, NotStarted, StartAlone, Connecting, Receiving, Parties
  <1>1. ASSUME NEW p \in Parties, NEW c \in Clients, DialWith(p, c) PROVE StartAlone'
    BY <1>1 DEF DialWith, Goto, CancelledReceive
  <1>2. ASSUME NEW p \in Parties, Connected(p) PROVE StartAlone'
    BY <1>2 DEF Connected, Goto
  <1>3. ASSUME NEW p \in Parties, ConnectFails(p) PROVE StartAlone'
    BY <1>3 DEF ConnectFails, Goto, Leave, Without
  <1>4. ASSUME NEW p \in Parties, DelayEnds(p) PROVE StartAlone'
    BY <1>4 DEF DelayEnds, Goto, Leave, Without, Fired
  <1>5. ASSUME NEW p \in Parties, Publish(p) PROVE StartAlone'
    BY <1>5 DEF Publish, Leave, Without
  <1>6. ASSUME NEW c \in Clients, NEW l \in Loops, StartWith(c, l) PROVE StartAlone'
    BY <1>6 DEF StartWith, FreeLoop, Goto
  <1>7. ASSUME NEW c \in Clients, ReadEnds(c) \/ OnDisconnected(c) PROVE StartAlone'
    BY <1>7 DEF ReadEnds, OnDisconnected, LoopOver, Without
  <1>8. ASSUME NEW c \in Clients, AssignTask(c) PROVE StartAlone'
    BY <1>8 DEF AssignTask, LoopOver, Without
  <1>9. ASSUME NEW c \in Clients, Drop(c) PROVE StartAlone'
    BY <1>9 DEF Drop, Without
  <1>10. ASSUME BeginStart PROVE StartAlone'
    <2>1. stop = "idle" /\ ~isRunning
      BY <1>10 DEF Bookkeeping, BeginStart
    <2> QED BY <1>10, <2>1 DEF BeginStart, Goto
  <1>11. ASSUME CancelStart \/ StopIgnored PROVE StartAlone'
    BY <1>11 DEF CancelStart, StopIgnored
  <1>12. ASSUME BeginStop \/ LoopAwaited PROVE StartAlone'
    BY <1>12 DEF BeginStop, LoopAwaited
  <1>13. ASSUME Detach PROVE StartAlone'
    BY <1>13 DEF Detach, CancelledReceive
  <1>14. ASSUME ReceiveAwaited \/ Close PROVE StartAlone'
    BY <1>14 DEF ReceiveAwaited, Close, DisposeTcpClient
  <1>15. ASSUME Dispose PROVE StartAlone'
    BY <1>15 DEF Dispose, DisposeTcpClient, CancelledReceive
  <1> QED
    BY ByCases, <1>1, <1>2, <1>3, <1>4, <1>5, <1>6, <1>7, <1>8, <1>9, <1>10, <1>11, <1>12, <1>13,
       <1>14, <1>15

(* A TcpClient is opened only from the delay or from the end of the one before it. *)
LEMMA SocketsNext ==
  Tasks /\ Worker /\ Single /\ Bookkeeping /\ NotStarted /\ Sockets /\ Next => Sockets'
  <1> SUFFICES ASSUME Tasks, Worker, Single, Bookkeeping, NotStarted, Sockets, Next PROVE Sockets'
    OBVIOUS
  <1> USE DEF Tasks, Worker, Single, Bookkeeping, NotStarted, Sockets, AllClosed, Connecting,
              Receiving, Parties
  <1>1. ASSUME NEW p \in Parties, NEW c \in Clients, DialWith(p, c) PROVE Sockets'
    BY <1>1 DEF DialWith, Goto, CancelledReceive
  <1>2. ASSUME NEW p \in Parties, Connected(p) PROVE Sockets'
    BY <1>2 DEF Connected, Goto
  <1>3. ASSUME NEW p \in Parties, ConnectFails(p) PROVE Sockets'
    BY <1>3 DEF ConnectFails, Goto, Leave, Without
  <1>4. ASSUME NEW p \in Parties, DelayEnds(p) PROVE Sockets'
    BY <1>4 DEF DelayEnds, Goto, Leave, Without, Fired
  <1>5. ASSUME NEW p \in Parties, Publish(p) PROVE Sockets'
    BY <1>5 DEF Publish, Leave, Without
  <1>6. ASSUME NEW c \in Clients, NEW l \in Loops, StartWith(c, l) PROVE Sockets'
    BY <1>6 DEF StartWith, FreeLoop, Goto
  <1>7. ASSUME NEW c \in Clients, ReadEnds(c) \/ OnDisconnected(c) PROVE Sockets'
    BY <1>7 DEF ReadEnds, OnDisconnected, LoopOver, Without
  <1>8. ASSUME NEW c \in Clients, AssignTask(c) PROVE Sockets'
    BY <1>8 DEF AssignTask, LoopOver, Without
  <1>9. ASSUME NEW c \in Clients, Drop(c) PROVE Sockets'
    BY <1>9 DEF Drop, Without
  <1>10. ASSUME BeginStart PROVE Sockets'
    BY <1>10 DEF BeginStart, Goto
  <1>11. ASSUME CancelStart \/ StopIgnored PROVE Sockets'
    BY <1>11 DEF CancelStart, StopIgnored
  <1>12. ASSUME BeginStop \/ LoopAwaited PROVE Sockets'
    BY <1>12 DEF BeginStop, LoopAwaited
  <1>13. ASSUME Detach PROVE Sockets'
    BY <1>13 DEF Detach, CancelledReceive
  <1>14. ASSUME ReceiveAwaited \/ Close PROVE Sockets'
    BY <1>14 DEF ReceiveAwaited, Close, DisposeTcpClient
  <1>15. ASSUME Dispose PROVE Sockets'
    BY <1>15 DEF Dispose, DisposeTcpClient, CancelledReceive
  <1> QED
    BY ByCases, <1>1, <1>2, <1>3, <1>4, <1>5, <1>6, <1>7, <1>8, <1>9, <1>10, <1>11, <1>12, <1>13,
       <1>14, <1>15

(* The receive loop that started a reconnect loop is _receiveTask until it assigns it: a
   new one would need a connection, which that loop is still making. *)
LEMMA KnownNext == Tasks /\ Worker /\ Single /\ Bookkeeping /\ Known /\ Next => Known'
  <1> SUFFICES ASSUME Tasks, Worker, Single, Bookkeeping, Known, Next PROVE Known'
    OBVIOUS
  <1> USE DEF Tasks, Worker, Single, Bookkeeping, Known, Unassigned, Connecting, Receiving, Parties
  <1>1. ASSUME NEW p \in Parties, NEW c \in Clients, DialWith(p, c) PROVE Known'
    BY <1>1 DEF DialWith, Goto, CancelledReceive
  <1>2. ASSUME NEW p \in Parties, Connected(p) PROVE Known'
    BY <1>2 DEF Connected, Goto
  <1>3. ASSUME NEW p \in Parties, ConnectFails(p) PROVE Known'
    BY <1>3 DEF ConnectFails, Goto, Leave, Without
  <1>4. ASSUME NEW p \in Parties, DelayEnds(p) PROVE Known'
    BY <1>4 DEF DelayEnds, Goto, Leave, Without, Fired
  <1>5. ASSUME NEW p \in Parties, Publish(p) PROVE Known'
    BY <1>5 DEF Publish, Leave, Without
  <1>6. ASSUME NEW c \in Clients, NEW l \in Loops, StartWith(c, l) PROVE Known'
    BY <1>6 DEF StartWith, FreeLoop, Goto
  <1>7. ASSUME NEW c \in Clients, ReadEnds(c) \/ OnDisconnected(c) PROVE Known'
    BY <1>7 DEF ReadEnds, OnDisconnected, LoopOver, Without
  <1>8. ASSUME NEW c \in Clients, AssignTask(c) PROVE Known'
    <2> SUFFICES ASSUME ~lost', NEW l \in Loops, l \in Connecting'
                 PROVE  reconnectTask' = l \/ Unassigned(l)'
      BY DEF Known
    <2>1. ~lost /\ reconnectTask = None /\ l \in Connecting
      BY <1>8 DEF AssignTask
    <2>2. PICK d \in Clients : rx[d] = "starting" /\ started[d] = l /\ receiveTask = d
      BY <2>1
    <2>3. CASE d = c
      BY <1>8, <2>1, <2>2, <2>3 DEF AssignTask
    <2>4. CASE d # c
      <3>1. rx'[d] = "starting" /\ started'[d] = l /\ receiveTask' = d
        BY <1>8, <2>2, <2>4 DEF AssignTask, LoopOver, Without
      <3> QED BY <3>1
    <2> QED BY <2>3, <2>4
  <1>9. ASSUME NEW c \in Clients, Drop(c) PROVE Known'
    BY <1>9 DEF Drop, Without
  <1>10. ASSUME BeginStart PROVE Known'
    BY <1>10 DEF BeginStart, Goto
  <1>11. ASSUME CancelStart \/ StopIgnored PROVE Known'
    BY <1>11 DEF CancelStart, StopIgnored
  <1>12. ASSUME BeginStop \/ LoopAwaited PROVE Known'
    BY <1>12 DEF BeginStop, LoopAwaited
  <1>13. ASSUME Detach PROVE Known'
    BY <1>13 DEF Detach, CancelledReceive
  <1>14. ASSUME ReceiveAwaited \/ Close PROVE Known'
    BY <1>14 DEF ReceiveAwaited, Close, DisposeTcpClient
  <1>15. ASSUME Dispose PROVE Known'
    BY <1>15 DEF Dispose, DisposeTcpClient, CancelledReceive
  <1> QED
    BY ByCases, <1>1, <1>2, <1>3, <1>4, <1>5, <1>6, <1>7, <1>8, <1>9, <1>10, <1>11, <1>12, <1>13,
       <1>14, <1>15

(* Once _cts is cancelled nobody goes back to "dial"; whoever is there is waited for. *)
LEMMA StoppingNext ==
  Tasks /\ Worker /\ Single /\ Bookkeeping /\ NotStarted /\ StartAlone /\ Known /\ Stopping /\ Next
    => Stopping'
  <1> SUFFICES ASSUME Tasks, Worker, Single, Bookkeeping, NotStarted, StartAlone, Known,
                      Stopping, Next
               PROVE  Stopping'
    OBVIOUS
  <1> USE DEF Tasks, Worker, Single, Bookkeeping, StartAlone, Known, Stopping, WaitedFor,
              Unassigned, Connecting, Receiving, Parties
  <1>1. ASSUME NEW p \in Parties, NEW c \in Clients, DialWith(p, c) PROVE Stopping'
    BY <1>1 DEF DialWith, Goto, CancelledReceive
  <1>2. ASSUME NEW p \in Parties, Connected(p) PROVE Stopping'
    BY <1>2 DEF Connected, Goto
  <1>3. ASSUME NEW p \in Parties, ConnectFails(p) PROVE Stopping'
    BY <1>3 DEF ConnectFails, Goto, Leave, Without
  <1>4. ASSUME NEW p \in Parties, DelayEnds(p) PROVE Stopping'
    <2> SUFFICES ASSUME ~lost', NEW l \in Loops, pc'[l] = "dial"
                 PROVE  WaitedFor(l)'
      BY DEF Stopping
    <2>1. CASE l = p
      <3>1. stop' = "idle" /\ attached'
        BY <1>4, <2>1 DEF NotStarted, DelayEnds, Goto, Leave, Fired
      <3> QED BY <3>1
    <2>2. CASE l # p
      BY <1>4, <2>2 DEF DelayEnds, Goto, Leave, Without
    <2> QED BY <2>1, <2>2
  <1>5. ASSUME NEW p \in Parties, Publish(p) PROVE Stopping'
    BY <1>5 DEF Publish, Leave, Without
  <1>6. ASSUME NEW c \in Clients, NEW l \in Loops, StartWith(c, l) PROVE Stopping'
    <2> SUFFICES ASSUME ~lost', NEW k \in Loops, pc'[k] = "dial"
                 PROVE  WaitedFor(k)'
      BY DEF Stopping
    <2>1. CASE k = l
      <3>1. ~cancelled
        BY <1>6, <2>1 DEF StartWith, Goto
      <3>2. stop' = "idle" /\ attached'
        BY <1>6, <3>1 DEF NotStarted, StartWith
      <3> QED BY <3>2
    <2>2. CASE k # l
      <3>1. pc[k] = "dial" /\ ~lost
        BY <1>6, <2>2 DEF StartWith, Goto
      <3>2. Unassigned(k) => Unassigned(k)'
        BY <1>6 DEF StartWith
      <3> QED BY <1>6, <3>1, <3>2 DEF StartWith, Goto
    <2> QED BY <2>1, <2>2
  <1>7. ASSUME NEW c \in Clients, ReadEnds(c) \/ OnDisconnected(c) PROVE Stopping'
    BY <1>7 DEF ReadEnds, OnDisconnected, LoopOver, Without
  <1>8. ASSUME NEW c \in Clients, AssignTask(c) PROVE Stopping'
    <2> SUFFICES ASSUME ~lost', NEW l \in Loops, pc'[l] = "dial"
                 PROVE  WaitedFor(l)'
      BY DEF Stopping
    <2>1. pc[l] = "dial" /\ ~lost /\ started[c] # l
      BY <1>8 DEF AssignTask
    <2>2. Unassigned(l) => Unassigned(l)' /\ receiveTask' = receiveTask /\ receiveTask # c
      BY <1>8, <2>1 DEF AssignTask, LoopOver, Without
    <2> QED BY <1>8, <2>1, <2>2 DEF AssignTask, LoopOver, Without
  <1>9. ASSUME NEW c \in Clients, Drop(c) PROVE Stopping'
    BY <1>9 DEF Drop, Without
  <1>10. ASSUME BeginStart PROVE Stopping'
    BY <1>10 DEF BeginStart, Goto
  <1>11. ASSUME CancelStart \/ StopIgnored PROVE Stopping'
    BY <1>11 DEF CancelStart, StopIgnored
  <1>12. ASSUME BeginStop \/ LoopAwaited PROVE Stopping'
    BY <1>12 DEF BeginStop, LoopAwaited
  <1>13. ASSUME Detach PROVE Stopping'
    BY <1>13 DEF Detach, CancelledReceive
  <1>14. ASSUME ReceiveAwaited \/ Close PROVE Stopping'
    BY <1>14 DEF ReceiveAwaited, Close, DisposeTcpClient
  <1>15. ASSUME Dispose PROVE Stopping'
    BY <1>15 DEF Dispose, DisposeTcpClient, CancelledReceive
  <1> QED
    BY ByCases, <1>1, <1>2, <1>3, <1>4, <1>5, <1>6, <1>7, <1>8, <1>9, <1>10, <1>11, <1>12, <1>13,
       <1>14, <1>15

(* Close shuts _tcpClient, the only one that can be open. *)
LEMMA StoppedIsClosedNext ==
  Tasks /\ Worker /\ Sockets /\ StartAlone /\ NotStarted /\ Stopping /\ StoppedIsClosed /\ Next
    => StoppedIsClosed'
  <1> SUFFICES ASSUME Tasks, Worker, Sockets, StartAlone, NotStarted, Stopping,
                      StoppedIsClosed, Next
               PROVE  StoppedIsClosed'
    OBVIOUS
  <1> USE DEF Tasks, Worker, Sockets, StartAlone, NotStarted, Stopping, WaitedFor,
              StoppedIsClosed, AllClosed, Connecting, Parties
  <1>1. ASSUME NEW p \in Parties, NEW c \in Clients, DialWith(p, c) PROVE StoppedIsClosed'
    BY <1>1 DEF DialWith, Goto, CancelledReceive
  <1>2. ASSUME NEW p \in Parties, Connected(p) PROVE StoppedIsClosed'
    BY <1>2 DEF Connected, Goto
  <1>3. ASSUME NEW p \in Parties, ConnectFails(p) PROVE StoppedIsClosed'
    BY <1>3 DEF ConnectFails, Goto, Leave, Without
  <1>4. ASSUME NEW p \in Parties, DelayEnds(p) PROVE StoppedIsClosed'
    BY <1>4 DEF DelayEnds, Goto, Leave, Without, Fired
  <1>5. ASSUME NEW p \in Parties, Publish(p) PROVE StoppedIsClosed'
    BY <1>5 DEF Publish, Leave, Without
  <1>6. ASSUME NEW c \in Clients, NEW l \in Loops, StartWith(c, l) PROVE StoppedIsClosed'
    BY <1>6 DEF StartWith, FreeLoop, Goto
  <1>7. ASSUME NEW c \in Clients, ReadEnds(c) \/ OnDisconnected(c) PROVE StoppedIsClosed'
    BY <1>7 DEF ReadEnds, OnDisconnected, LoopOver, Without
  <1>8. ASSUME NEW c \in Clients, AssignTask(c) PROVE StoppedIsClosed'
    BY <1>8 DEF AssignTask, LoopOver, Without
  <1>9. ASSUME NEW c \in Clients, Drop(c) PROVE StoppedIsClosed'
    BY <1>9 DEF Drop, Without
  <1>10. ASSUME BeginStart PROVE StoppedIsClosed'
    BY <1>10 DEF BeginStart, Goto
  <1>11. ASSUME CancelStart \/ StopIgnored PROVE StoppedIsClosed'
    BY <1>11 DEF CancelStart, StopIgnored
  <1>12. ASSUME BeginStop \/ LoopAwaited PROVE StoppedIsClosed'
    BY <1>12 DEF BeginStop, LoopAwaited
  <1>13. ASSUME Detach PROVE StoppedIsClosed'
    BY <1>13 DEF Detach, CancelledReceive
  <1>14. ASSUME ReceiveAwaited \/ Close PROVE StoppedIsClosed'
    BY <1>14 DEF ReceiveAwaited, Close, DisposeTcpClient
  <1>15. ASSUME Dispose PROVE StoppedIsClosed'
    BY <1>15 DEF Dispose, DisposeTcpClient, CancelledReceive
  <1> QED
    BY ByCases, <1>1, <1>2, <1>3, <1>4, <1>5, <1>6, <1>7, <1>8, <1>9, <1>10, <1>11, <1>12, <1>13,
       <1>14, <1>15

(* With a strategy each end of a connection or of an attempt leads to an attempt. *)
LEMMA NeverAbandonedNext ==
  Tasks /\ Worker /\ Bookkeeping /\ NeverAbandoned /\ Next => NeverAbandoned'
  <1> SUFFICES ASSUME Tasks, Worker, Bookkeeping, NeverAbandoned, Next PROVE NeverAbandoned'
    OBVIOUS
  <1> USE DEF Tasks, Worker, Bookkeeping, NeverAbandoned, Connecting, Receiving, Parties, Fired
  <1>1. ASSUME NEW p \in Parties, NEW c \in Clients, DialWith(p, c) PROVE NeverAbandoned'
    BY <1>1 DEF DialWith, Goto, CancelledReceive
  <1>2. ASSUME NEW p \in Parties, Connected(p) PROVE NeverAbandoned'
    BY <1>2 DEF Connected, Goto
  <1>3. ASSUME NEW p \in Parties, ConnectFails(p) PROVE NeverAbandoned'
    BY <1>3 DEF ConnectFails, Goto, Leave, Without
  <1>4. ASSUME NEW p \in Parties, DelayEnds(p) PROVE NeverAbandoned'
    BY <1>4 DEF DelayEnds, Goto, Leave, Without, Fired
  <1>5. ASSUME NEW p \in Parties, Publish(p) PROVE NeverAbandoned'
    BY <1>5 DEF Publish, Leave, Without
  <1>6. ASSUME NEW c \in Clients, NEW l \in Loops, StartWith(c, l) PROVE NeverAbandoned'
    BY <1>6 DEF StartWith, FreeLoop, Goto
  <1>7. ASSUME NEW c \in Clients, ReadEnds(c) \/ OnDisconnected(c) PROVE NeverAbandoned'
    <2>1. CASE ReadEnds(c)
      BY <2>1 DEF ReadEnds
    <2>2. CASE OnDisconnected(c) /\ attached /\ hasStrategy /\ ~disposed
      <3>1. rx'[c] = "spawn"
        BY <2>2 DEF OnDisconnected
      <3> QED BY <3>1
    <2>3. CASE OnDisconnected(c) /\ ~(attached /\ hasStrategy /\ ~disposed)
      BY <2>3 DEF OnDisconnected
    <2> QED BY <1>7, <2>1, <2>2, <2>3
  <1>8. ASSUME NEW c \in Clients, AssignTask(c) PROVE NeverAbandoned'
    BY <1>8 DEF AssignTask, LoopOver, Without
  <1>9. ASSUME NEW c \in Clients, Drop(c) PROVE NeverAbandoned'
    BY <1>9 DEF Drop, Without
  <1>10. ASSUME BeginStart PROVE NeverAbandoned'
    BY <1>10 DEF BeginStart, Goto
  <1>11. ASSUME CancelStart \/ StopIgnored PROVE NeverAbandoned'
    BY <1>11 DEF CancelStart, StopIgnored
  <1>12. ASSUME BeginStop \/ LoopAwaited PROVE NeverAbandoned'
    BY <1>12 DEF BeginStop, LoopAwaited
  <1>13. ASSUME Detach PROVE NeverAbandoned'
    BY <1>13 DEF Detach, CancelledReceive
  <1>14. ASSUME ReceiveAwaited \/ Close PROVE NeverAbandoned'
    BY <1>14 DEF ReceiveAwaited, Close, DisposeTcpClient
  <1>15. ASSUME Dispose PROVE NeverAbandoned'
    BY <1>15 DEF Dispose, DisposeTcpClient, CancelledReceive
  <1> QED
    BY ByCases, <1>1, <1>2, <1>3, <1>4, <1>5, <1>6, <1>7, <1>8, <1>9, <1>10, <1>11, <1>12, <1>13,
       <1>14, <1>15

-----------------------------------------------------------------------------
(* The invariant *)

LEMMA InitIInv == Init => IInv
  <1> SUFFICES ASSUME Init PROVE IInv
    OBVIOUS
  <1> USE DEF Init
  <1>1. Flags /\ Tasks /\ Worker
    BY DEF Flags, Tasks, Worker
  <1>2. Connecting = {} /\ Receiving = {}
    BY DEF Connecting, Receiving
  <1>3. Single /\ Bookkeeping /\ NotStarted /\ StartAlone
    BY <1>2 DEF Single, Bookkeeping, NotStarted, StartAlone, AllClosed
  <1>4. Sockets /\ Known /\ Stopping /\ StoppedIsClosed /\ NeverAbandoned
    BY <1>2 DEF Sockets, Known, Stopping, StoppedIsClosed, NeverAbandoned, AllClosed, Parties
  <1> QED BY <1>1, <1>3, <1>4, TypeParts DEF IInv

LEMMA NextIInv == IInv /\ [Next]_vars => IInv'
  <1> SUFFICES ASSUME IInv, [Next]_vars PROVE IInv'
    OBVIOUS
  <1>1. CASE Next
    <2>1. Flags' /\ Tasks' /\ Worker'
      BY <1>1, TypeParts, FlagsNext, TasksNext, WorkerNext DEF IInv
    <2>2. Single' /\ Bookkeeping' /\ NotStarted' /\ StartAlone'
      BY <1>1, TypeParts, SingleNext, BookkeepingNext, NotStartedNext, StartAloneNext DEF IInv
    <2>3. Sockets' /\ Known' /\ Stopping'
      BY <1>1, TypeParts, SocketsNext, KnownNext, StoppingNext DEF IInv
    <2>4. StoppedIsClosed' /\ NeverAbandoned'
      BY <1>1, TypeParts, StoppedIsClosedNext, NeverAbandonedNext DEF IInv
    <2> QED BY <2>1, <2>2, <2>3, <2>4, TypeParts, PTL DEF IInv
  <1>2. CASE UNCHANGED vars
    BY <1>2
    DEF vars, IInv, TypeOK,
        Single, Bookkeeping, NotStarted, StartAlone, Sockets, AllClosed, Known, Unassigned,
        Stopping, WaitedFor, StoppedIsClosed, NeverAbandoned, Connecting, Receiving
  <1> QED BY <1>1, <1>2

LEMMA Invariant == Spec => []IInv
  BY InitIInv, NextIInv, PTL DEF Spec

(* The fields of the endpoint and of its worker keep their types.          *)
THEOREM TypeCorrect == Spec => []TypeOK
  <1>1. IInv => TypeOK
    BY DEF IInv
  <1> QED BY <1>1, Invariant, PTL

LEMMA SingleIsOneChain == Single => OneChain
  <1> SUFFICES ASSUME Single PROVE OneChain
    OBVIOUS
  <1>1. Cardinality(Connecting) \in {0, 1} /\ (Connecting = {} => Cardinality(Connecting) = 0)
    <2>1. CASE Connecting = {}
      BY <2>1, FS_EmptySet
    <2>2. CASE \E p : Connecting = {p}
      BY <2>2, FS_Singleton
    <2> QED BY <2>1, <2>2 DEF Single
  <1>2. Cardinality(Receiving) \in {0, 1} /\ (Receiving = {} => Cardinality(Receiving) = 0)
    <2>1. CASE Receiving = {}
      BY <2>1, FS_EmptySet
    <2>2. CASE \E c : Receiving = {c}
      BY <2>2, FS_Singleton
    <2> QED BY <2>1, <2>2 DEF Single
  <1> QED BY <1>1, <1>2 DEF Single, OneChain

(* Without any lock, no two parties ever connect or receive at a time, so  *)
(* that the worker's fields and the receive buffer are never shared.       *)
THEOREM NeverShared == Spec => []OneChain
  <1>1. IInv => OneChain
    BY SingleIsOneChain DEF IInv
  <1> QED BY <1>1, Invariant, PTL

(* After StopAsync every socket is closed and stays so, unless an          *)
(* assignment of _reconnectTask hid a loop from it.                        *)
THEOREM StopCloses == Spec => []StoppedIsClosed
  <1>1. IInv => StoppedIsClosed
    BY DEF IInv
  <1> QED BY <1>1, Invariant, PTL

(* A started endpoint with a strategy is connected, or being connected,    *)
(* until somebody cancels, stops or disposes it.                           *)
THEOREM AlwaysTrying == Spec => []NeverAbandoned
  <1>1. IInv => NeverAbandoned
    BY DEF IInv
  <1> QED BY <1>1, Invariant, PTL

=============================================================================
