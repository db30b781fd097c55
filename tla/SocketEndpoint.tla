--------------------------- MODULE SocketEndpoint ---------------------------
(***************************************************************************)
(* A client endpoint of src/Ddon.Socket: StartAsync, StopAsync, Dispose and *)
(* the automatic reconnect (Core/SocketEndpoint.cs) over the one TcpClient *)
(* and receive loop of its worker (Core/SocketWorker.cs).                  *)
(*                                                                         *)
(* Nothing in these classes takes a lock. What runs concurrently is the    *)
(* caller of StartAsync, the caller of StopAsync or Dispose, the receive   *)
(* loops, and the reconnect loops they start. An action is the code        *)
(* between two awaits, cut further where another thread matters. A field   *)
(* that refers to a task that is over, or to a TcpClient that is closed,   *)
(* is None here: waiting for the one and disposing the other do nothing.   *)
(***************************************************************************)
EXTENDS Naturals, FiniteSets

CONSTANTS
  Clients,     \* identities of TcpClient objects, reused once closed
  Loops,       \* identities of ReconnectLoopAsync tasks, reused once over
  None,        \* the null of the fields
  MaxLate      \* bound: no drop while more receive loops have yet to assign _reconnectTask

Start   == "StartAsync"
Parties == {Start} \cup Loops

ASSUME IdentitiesAssumption ==
  None \notin Clients \cup Loops /\ Start \notin Loops /\ Clients \cap Parties = {}
ASSUME BoundAssumption == MaxLate \in Nat

VARIABLES
  hasStrategy,   \* is there a _reconnectStrategy? fixed for the endpoint
  isRunning,     \* IsRunning
  cancelled,     \* _cts
  disposed,      \* _disposed
  attached,      \* is the endpoint subscribed to the worker's events?
  reconnectTask, \* _reconnectTask
  lost,          \* history: was it overwritten while its loop was still running?
  pc,            \* how far each party is in ConnectWithRetryAsync
  dialing,       \* the TcpClient each party waits for in SocketWorker.ConnectAsync
  tokenFired,    \* the caller's token of StartAsync
  stop,          \* how far StopAsync is
  awaited,       \* the reconnect loop or receive loop it waits for
  stopAsked,     \* history: was StopAsync called after StartAsync had returned?
  client,        \* each TcpClient
  tcpClient,     \* _tcpClient of the worker
  receiveCts,    \* is _receiveCts of the worker cancelled?
  receiveTask,   \* _receiveTask of the worker: the client it was started for
  rx,            \* how far the receive loop of each client is
  started        \* the reconnect loop that a receive loop is starting

endpointVars == <<hasStrategy, isRunning, cancelled, disposed, attached>>
taskVars     == <<reconnectTask, lost>>
partyVars    == <<pc, dialing, tokenFired>>
stopVars     == <<stop, awaited, stopAsked>>
workerVars   == <<client, tcpClient, receiveCts>>
receiveVars  == <<receiveTask, rx, started>>
vars == <<endpointVars, taskVars, partyVars, stopVars, workerVars, receiveVars>>

TypeOK ==
  /\ hasStrategy \in BOOLEAN /\ isRunning \in BOOLEAN /\ cancelled \in BOOLEAN /\ disposed \in BOOLEAN
  /\ attached \in BOOLEAN /\ tokenFired \in BOOLEAN /\ receiveCts \in BOOLEAN
  /\ lost \in BOOLEAN /\ stopAsked \in BOOLEAN
  /\ reconnectTask \in Loops \cup {None}
  /\ pc \in [Parties -> {"off", "dial", "connecting", "delay", "publish"}]
  /\ dialing \in [Parties -> Clients \cup {None}]
  /\ \A p \in Parties : pc[p] = "connecting" <=> dialing[p] # None
  /\ stop \in {"idle", "reconnect", "detach", "receive", "close"}
  /\ awaited \in Loops \cup Clients \cup {None}
  /\ client \in [Clients -> {"closed", "connecting", "open"}]
  /\ tcpClient \in Clients \cup {None} /\ receiveTask \in Clients \cup {None}
  /\ rx \in [Clients -> {"done", "run", "notify", "spawn", "starting"}]
  /\ started \in [Clients -> Loops \cup {None}]

Init ==
  /\ hasStrategy \in BOOLEAN
  /\ isRunning = FALSE /\ cancelled = FALSE /\ disposed = FALSE /\ attached = FALSE
  /\ reconnectTask = None /\ lost = FALSE
  /\ pc = [p \in Parties |-> "off"] /\ dialing = [p \in Parties |-> None]
  /\ tokenFired = FALSE
  /\ stop = "idle" /\ awaited = None /\ stopAsked = FALSE
  /\ client = [c \in Clients |-> "closed"] /\ tcpClient = None /\ receiveCts = FALSE
  /\ receiveTask = None /\ rx = [c \in Clients |-> "done"]
  /\ started = [c \in Clients |-> None]

\* A reference to t, which is over now.
Without(t, ref) == IF ref = t THEN None ELSE ref

-----------------------------------------------------------------------------
(* ConnectWithRetryAsync, run by StartAsync and by each reconnect loop *)

Goto(p, label) == pc' = [pc EXCEPT ![p] = label] /\ UNCHANGED <<reconnectTask, awaited>>

\* Party p returns from ConnectWithRetryAsync and from what called it.
Leave(p) ==
  /\ pc' = [pc EXCEPT ![p] = "off"]
  /\ reconnectTask' = Without(p, reconnectTask)
  /\ awaited' = Without(p, awaited)

\* The token a party was given: the caller's, or that of _cts.
Fired(p) == IF p = Start THEN tokenFired ELSE cancelled

\* StartAsync, called once. If its token has already fired, the while loop is not
\* entered, and the endpoint is going to count as running.
BeginStart ==
  /\ pc[Start] = "off" /\ ~isRunning /\ ~attached /\ ~cancelled
  /\ attached' = TRUE
  /\ tokenFired' \in BOOLEAN
  /\ Goto(Start, IF tokenFired' THEN "publish" ELSE "dial")
  /\ UNCHANGED <<hasStrategy, isRunning, cancelled, disposed, lost, dialing, stop, stopAsked,
                 workerVars, receiveVars>>

\* The caller cancels StartAsync.
CancelStart ==
  /\ pc[Start] # "off" /\ ~tokenFired
  /\ tokenFired' = TRUE
  /\ UNCHANGED <<endpointVars, taskVars, pc, dialing, stopVars, workerVars, receiveVars>>

\* A TcpClient that no party, no receive loop and no field refers to.
Unused(c) ==
  /\ client[c] = "closed" /\ rx[c] = "done" /\ c \notin {tcpClient, awaited}
  /\ \A p \in Parties : dialing[p] # c

\* _receiveCts.Cancel(): the read of the receive loop throws.
CancelledReceive ==
  IF receiveTask # None /\ rx[receiveTask] = "run"
  THEN [rx EXCEPT ![receiveTask] = "notify"] ELSE rx

\* SocketWorker.ConnectAsync up to its await: the old receive loop is cancelled and
\* the old TcpClient is forgotten.
Dial(p) ==
  LET c == CHOOSE d \in Clients : Unused(d)
  IN  /\ pc[p] = "dial" /\ (\E d \in Clients : Unused(d))
      /\ tcpClient' = c
      /\ client' = [client EXCEPT ![c] = "connecting"]
      /\ dialing' = [dialing EXCEPT ![p] = c]
      /\ receiveCts' = FALSE
      /\ rx' = CancelledReceive
      /\ Goto(p, "connecting")
      /\ UNCHANGED <<endpointVars, lost, tokenFired, stop, stopAsked, receiveTask, started>>

\* TCP connected, and the TcpClient is still the worker's: its receive loop starts, and
\* ends at once if _receiveCts was cancelled meanwhile.
Connected(p) ==
  LET c == dialing[p]
  IN  /\ pc[p] = "connecting" /\ client[c] = "connecting" /\ tcpClient = c
      /\ client' = [client EXCEPT ![c] = "open"]
      /\ receiveTask' = c
      /\ rx' = [rx EXCEPT ![c] = IF receiveCts THEN "notify" ELSE "run"]
      /\ dialing' = [dialing EXCEPT ![p] = None]
      /\ Goto(p, "publish")
      /\ UNCHANGED <<endpointVars, lost, tokenFired, stop, stopAsked, tcpClient,
                     receiveCts, started>>

\* It throws, for it was refused, or its TcpClient was disposed: the worker drops its
\* TcpClient. Without a strategy the exception ends the loop.
ConnectFailsKeepsDialing(p) ==   \* a mutant: the field is not reset
  /\ pc[p] = "connecting"
  /\ client' = [c \in Clients |->
                  IF c \in {dialing[p], tcpClient} THEN "closed" ELSE client[c]]
  /\ tcpClient' = None
  /\ IF hasStrategy THEN Goto(p, "delay") ELSE Leave(p)
  /\ UNCHANGED <<endpointVars, lost, dialing, tokenFired, stop, stopAsked, receiveCts,
                 receiveVars>>
ConnectFails(p) ==
  /\ pc[p] = "connecting"
  /\ client' = [c \in Clients |->
                  IF c \in {dialing[p], tcpClient} THEN "closed" ELSE client[c]]
  /\ tcpClient' = None
  /\ dialing' = [dialing EXCEPT ![p] = None]
  /\ IF hasStrategy THEN Goto(p, "delay") ELSE Leave(p)
  /\ UNCHANGED <<endpointVars, lost, tokenFired, stop, stopAsked, receiveCts, receiveVars>>

\* The delay of the strategy has passed and the loop goes on, unless the token fires:
\* during the delay, which then throws, or just after it, when the loop simply ends.
DelayEnds(p) ==
  /\ pc[p] = "delay"
  /\ \/ ~Fired(p) /\ Goto(p, "dial")
     \/ Fired(p) /\ Leave(p)
     \/ Fired(p) /\ Goto(p, "publish")
  /\ UNCHANGED <<endpointVars, lost, dialing, tokenFired, stop, stopAsked, workerVars,
                 receiveVars>>

\* The line after ConnectWithRetryAsync, whatever has happened since it returned.
Publish(p) ==
  /\ pc[p] = "publish"
  /\ isRunning' = TRUE
  /\ Leave(p)
  /\ UNCHANGED <<hasStrategy, cancelled, disposed, attached, lost, dialing, tokenFired, stop,
                 stopAsked, workerVars, receiveVars>>

-----------------------------------------------------------------------------
(* The receive loop of a TcpClient, and OnDisconnected *)

\* The receive loop of c is over.
LoopOver(c) ==
  /\ rx' = [rx EXCEPT ![c] = "done"]
  /\ receiveTask' = Without(c, receiveTask)
  /\ awaited' = Without(c, awaited)

\* The peer or the network ends the connection.
Drop(c) ==
  /\ client[c] = "open"
  /\ Cardinality({d \in Clients : rx[d] = "starting"}) <= MaxLate
  /\ client' = [client EXCEPT ![c] = "closed"]
  /\ tcpClient' = Without(c, tcpClient)
  /\ UNCHANGED <<endpointVars, taskVars, partyVars, stopVars, receiveCts, receiveVars>>

\* ReadAsync returns 0 or throws.
ReadEnds(c) ==
  /\ rx[c] = "run" /\ client[c] = "closed"
  /\ rx' = [rx EXCEPT ![c] = "notify"]
  /\ UNCHANGED <<endpointVars, taskVars, partyVars, stopVars, workerVars, receiveTask, started>>

\* The finally of the receive loop raises Disconnected. OnDisconnected marks the
\* endpoint and decides whether it is going to reconnect.
OnDisconnectedNeverReconnects(c) ==   \* a mutant: no reconnect loop
  /\ rx[c] = "notify"
  /\ isRunning' = (isRunning /\ ~attached)
  /\ LoopOver(c)
  /\ UNCHANGED <<hasStrategy, cancelled, disposed, attached, taskVars, partyVars, stop,
                 stopAsked,
                 workerVars, started>>
OnDisconnected(c) ==
  /\ rx[c] = "notify"
  /\ isRunning' = (isRunning /\ ~attached)
  /\ IF attached /\ hasStrategy /\ ~disposed
     THEN rx' = [rx EXCEPT ![c] = "spawn"] /\ UNCHANGED <<receiveTask, awaited>>
     ELSE LoopOver(c)
  /\ UNCHANGED <<hasStrategy, cancelled, disposed, attached, taskVars, partyVars, stop,
                 stopAsked,
                 workerVars, started>>

FreeLoop(l) ==
  /\ pc[l] = "off" /\ l \notin {reconnectTask, awaited}
  /\ \A c \in Clients : started[c] # l

\* It calls ReconnectLoopAsync, which runs on this thread up to its first await ...
StartLoop(c) ==
  LET l == CHOOSE k \in Loops : FreeLoop(k)
  IN  /\ rx[c] = "spawn" /\ (\E k \in Loops : FreeLoop(k))
      /\ Goto(l, IF cancelled THEN "publish" ELSE "dial")
      /\ started' = [started EXCEPT ![c] = l]
      /\ rx' = [rx EXCEPT ![c] = "starting"]
      /\ UNCHANGED <<endpointVars, lost, dialing, tokenFired, stop, stopAsked, workerVars,
                     receiveTask>>

\* ... and only then assigns _reconnectTask, with which the receive loop is over.
AssignTaskRaisesAgain(c) ==   \* a mutant: Disconnected is raised twice
  LET l == started[c]
  IN  /\ rx[c] = "starting" /\ pc[l] # "dial"
      /\ reconnectTask' = IF pc[l] = "off" THEN None ELSE l
      /\ lost' = (lost \/ reconnectTask # None)
      /\ started' = [started EXCEPT ![c] = None]
      /\ rx' = [rx EXCEPT ![c] = "notify"]
      /\ UNCHANGED <<endpointVars, partyVars, stopVars, receiveTask, workerVars>>
AssignTask(c) ==
  LET l == started[c]
  IN  /\ rx[c] = "starting" /\ pc[l] # "dial"
      /\ reconnectTask' = IF pc[l] = "off" THEN None ELSE l
      /\ lost' = (lost \/ reconnectTask # None)
      /\ started' = [started EXCEPT ![c] = None]
      /\ LoopOver(c)
      /\ UNCHANGED <<endpointVars, partyVars, stop, stopAsked, workerVars>>

-----------------------------------------------------------------------------
(* StopAsync and Dispose *)

\* StopAsync returns at once unless IsRunning.
StopIgnored ==
  /\ stop = "idle" /\ ~isRunning /\ ~disposed
  /\ pc[Start] = "off" /\ attached
  /\ stopAsked' = TRUE
  /\ UNCHANGED <<endpointVars, taskVars, partyVars, stop, awaited, workerVars, receiveVars>>

\* Otherwise it cancels _cts and waits for the reconnect loop that _reconnectTask
\* then is, if any.
BeginStop ==
  /\ stop = "idle" /\ isRunning /\ ~disposed
  /\ cancelled' = TRUE
  /\ stopAsked' = (stopAsked \/ pc[Start] = "off")
  /\ stop' = "reconnect" /\ awaited' = reconnectTask
  /\ UNCHANGED <<hasStrategy, isRunning, disposed, attached, taskVars, partyVars, workerVars,
                 receiveVars>>

LoopNotAwaited ==   \* a mutant: the task is not awaited
  /\ stop = "reconnect"
  /\ stop' = "detach" /\ awaited' = None
  /\ UNCHANGED <<endpointVars, taskVars, partyVars, stopAsked, workerVars, receiveVars>>
LoopAwaited ==
  /\ stop = "reconnect" /\ awaited = None
  /\ stop' = "detach"
  /\ UNCHANGED <<endpointVars, taskVars, partyVars, awaited, stopAsked, workerVars,
                 receiveVars>>

\* It detaches from the worker, whose DisconnectAsync cancels the receive loop ...
DetachNotCancelled ==   \* a mutant: the read is not cancelled
  /\ stop = "detach"
  /\ attached' = FALSE
  /\ stop' = "receive" /\ awaited' = receiveTask
  /\ UNCHANGED <<hasStrategy, isRunning, cancelled, disposed, taskVars, partyVars, stopAsked,
                 workerVars,
                 receiveVars>>
Detach ==
  /\ stop = "detach"
  /\ attached' = FALSE
  /\ receiveCts' = TRUE
  /\ rx' = CancelledReceive
  /\ stop' = "receive" /\ awaited' = receiveTask
  /\ UNCHANGED <<hasStrategy, isRunning, cancelled, disposed, taskVars, partyVars, stopAsked,
                 client,
                 tcpClient, receiveTask, started>>

\* ... and waits for it.
ReceiveAwaited ==
  /\ stop = "receive" /\ awaited = None
  /\ stop' = "close"
  /\ UNCHANGED <<endpointVars, taskVars, partyVars, awaited, stopAsked, workerVars,
                 receiveVars>>

DisposeTcpClient ==
  /\ client' = [c \in Clients |-> IF c = tcpClient THEN "closed" ELSE client[c]]
  /\ tcpClient' = None

\* The socket is disposed, and the endpoint is no longer running.
Close ==
  /\ stop = "close"
  /\ DisposeTcpClient
  /\ isRunning' = FALSE
  /\ stop' = "idle"
  /\ UNCHANGED <<hasStrategy, cancelled, disposed, attached, taskVars, partyVars, awaited,
                 stopAsked,
                 receiveCts, receiveVars>>

Dispose ==
  /\ ~disposed /\ stop = "idle"
  /\ disposed' = TRUE /\ cancelled' = TRUE
  /\ receiveCts' = TRUE
  /\ rx' = CancelledReceive
  /\ DisposeTcpClient
  /\ UNCHANGED <<hasStrategy, isRunning, attached, taskVars, partyVars, stopVars, receiveTask,
                 started>>

-----------------------------------------------------------------------------
PartySteps(p) ==
  Dial(p) \/ Connected(p) \/ ConnectFails(p) \/ DelayEnds(p) \/ Publish(p)

ReceiveSteps(c) == ReadEnds(c) \/ OnDisconnected(c) \/ StartLoop(c) \/ AssignTask(c)

StopSteps == LoopAwaited \/ Detach \/ ReceiveAwaited \/ Close

Next ==
  \/ \E p \in Parties : PartySteps(p)
  \/ \E c \in Clients : ReceiveSteps(c) \/ Drop(c)
  \/ StopSteps
  \/ BeginStart \/ CancelStart \/ StopIgnored \/ BeginStop \/ Dispose

Spec == Init /\ [][Next]_vars

\* Tasks that can continue do, and a TCP connect comes to an end one way or the
\* other. Nothing is assumed of the callers or of the network.
Fairness ==
  /\ \A p \in Parties : WF_vars(PartySteps(p))
  /\ \A c \in Clients : WF_vars(ReceiveSteps(c))
  /\ WF_vars(StopSteps)

FairSpec == Spec /\ Fairness

-----------------------------------------------------------------------------
(* Properties *)

Connecting == {p \in Parties : pc[p] \in {"dial", "connecting", "delay"}}
Receiving  == {c \in Clients : rx[c] \in {"run", "notify", "spawn"}}

\* One party at a time is connecting, or one receive loop is running: no two of
\* them ever share the worker's fields and the receive buffer, without a lock.
OneChain == Cardinality(Connecting) + Cardinality(Receiving) <= 1

\* After a StopAsync that found the endpoint running every socket is closed, and none
\* is opened before the next StartAsync, whatever the connection and the reconnect
\* loops did meanwhile and still do. The exception: _reconnectTask is assigned without
\* a lock, so that a late assignment can hide the loop that is running from StopAsync.
StoppedIsClosed ==
  ~attached /\ stop = "idle" /\ ~lost => \A c \in Clients : client[c] = "closed"

\* With a strategy, an endpoint that was started and neither cancelled, stopped nor
\* disposed is never abandoned: it is connected, or somebody is connecting it.
NeverAbandoned ==
  hasStrategy /\ attached /\ ~cancelled /\ ~tokenFired => Connecting # {} \/ Receiving # {}

\* StopAsync comes to an end: what it waits for does not wait for it.
StopReturns == stop # "idle" ~> stop = "idle"

\* StopAsync ends the reconnecting: an endpoint on which it was called does not come
\* back to life when StopAsync has returned.
StopEndsReconnect ==
  stopAsked /\ stop = "idle" => \A c \in Clients : rx[c] # "run"
=============================================================================
