------------------------ MODULE OpenProtocolEndpoint ------------------------
(***************************************************************************)
(* The Open Protocol client of src/Ddon.OpenProtocol: one endpoint         *)
(* (Core/OpenProtocolEndpoint.cs), the TCP connections it opens            *)
(* (Core/OpenProtocolConnection.cs) and the controller at the other end.   *)
(*                                                                         *)
(* The tasks that run concurrently are the callers of SendAsync and        *)
(* SubscribeAsync, the holder of _lifecycleLock ("life": ConnectAsync,     *)
(* DisconnectAsync or ReconnectLoopAsync), the keep-alive loop and the     *)
(* receive loop of each connection, and the HandleSubscribedAsync tasks.   *)
(* An action is the code between two awaits, or less where another thread  *)
(* can come in between and matter.                                         *)
(***************************************************************************)
EXTENDS Naturals, Sequences, FiniteSets

CONSTANTS
  Callers,       \* tasks that call SendAsync or SubscribeAsync
  Subscribers,   \* those of them that call SubscribeAsync, once each
  Conns,         \* identities of OpenProtocolConnection objects, reused once dead
  NoConn,        \* the null of _connection and _keepAliveTask
  AutoReconnect, \* _options.AutoReconnect
  Disposable,    \* whether Dispose is ever called
  MaxInFlight,   \* bound: messages on their way from the controller
  MaxAcks,       \* bound: no push while this many acknowledgements are owed
  MaxLoops       \* bound: no drop while this many reconnect loops are queued

Life      == "life"
KeepAlive == "keepalive"
Ack       == "ack"
Push      == "push"
NoOne     == "no one"

ASSUME CallersAssumption ==
  /\ Callers \cap {Life, KeepAlive, Ack, Push, NoOne} = {}
  /\ Callers \cap {"none", "pending", "failed", "timeout", "overlap"} = {}
  /\ Subscribers \subseteq Callers /\ IsFiniteSet(Subscribers)
ASSUME ConnsAssumption == NoConn \notin Conns
ASSUME OptionsAssumption == AutoReconnect \in BOOLEAN /\ Disposable \in BOOLEAN
ASSUME BoundsAssumption ==
  MaxInFlight \in Nat \ {0} /\ MaxAcks \in Nat /\ MaxLoops \in Nat \ {0}

Requesters == Callers \cup {Life}
Messages   == Requesters \cup {KeepAlive, Push}
Failures   == {"failed", "timeout", "overlap"}

VARIABLES
  state,         \* _state
  sendHolder,    \* who holds _sendLock
  responseTcs,   \* whose completion source _responseTcs is
  pc,            \* how far each requester is in SendAsync / SendAndWaitCoreAsync
  tcs,           \* the completion source of each requester: a message or a failure
  op,            \* the operation that holds _lifecycleLock
  step,          \* how far it is
  todo,          \* the subscriptions it still has to replay
  closing,       \* the connection TeardownAsync is closing
  loops,         \* ReconnectLoopAsync tasks queued for _lifecycleLock
  connection,    \* _connection
  live,          \* is the TCP connection up?
  rx,            \* how far the receive loop of each connection is
  inbox,         \* messages from the controller not yet read, per connection
  session,       \* what the controller has accepted on each connection
  muddled,       \* history: may a reply on this connection be for nobody?
  keepAliveTask, \* the connection whose keep-alive loop is _keepAliveTask
  ka,            \* how far each keep-alive loop is
  acks,          \* HandleSubscribedAsync tasks that wait for _sendLock
  handlers,      \* _subscriptions
  replay,        \* _replaySubscriptions
  disposed,      \* _disposed
  stranded       \* queued on _sendLock when it was disposed: never woken

sendVars == <<sendHolder, responseTcs, pc, tcs>>
lifeVars == <<op, step, todo, closing>>
netVars  == <<live, inbox, session, muddled>>
kaVars   == <<keepAliveTask, ka>>
subVars  == <<acks, handlers, replay>>
endVars  == <<disposed, stranded>>
vars == <<state, sendVars, lifeVars, loops, connection, rx, netVars, kaVars,
          subVars, endVars>>

States == {"Disconnected", "Connecting", "Connected", "Reconnecting", "Stopped"}

TypeOK ==
  /\ state \in States
  /\ sendHolder \in Requesters \cup {KeepAlive, Ack, NoOne}
  /\ responseTcs \in Requesters \cup {NoOne}
  /\ pc \in [Requesters -> {"idle", "queued", "send", "await", "return", "register"}]
  /\ tcs \in [Requesters -> {"none", "pending"} \cup Messages \cup Failures]
  /\ op \in {"none", "connect", "disconnect", "reconnect"}
  /\ step \in {"idle", "delay", "dial", "handshake", "replay", "publish", "bye",
               "teardown", "awaitReceive", "awaitKeepAlive"}
  /\ todo \in Seq(Subscribers)
  /\ closing \in Conns \cup {NoConn}
  /\ loops \in Nat
  /\ connection \in Conns \cup {NoConn}
  /\ live \in [Conns -> BOOLEAN]
  /\ rx \in [Conns -> {"run", "check", "mark", "fail", "done"}]
  /\ inbox \in [Conns -> Seq(Messages)]
  /\ session \in [Conns -> SUBSET {"started", "subscribed"}]
  /\ muddled \in [Conns -> BOOLEAN]
  /\ keepAliveTask \in Conns \cup {NoConn}
  /\ ka \in [Conns -> {"off", "sleep", "queued", "send", "stopping"}]
  /\ acks \in Nat
  /\ handlers \in SUBSET Subscribers
  /\ replay \in Seq(Subscribers)
  /\ disposed \in BOOLEAN
  /\ stranded \in SUBSET Requesters

Init ==
  /\ state = "Disconnected" /\ disposed = FALSE /\ stranded = {}
  /\ sendHolder = NoOne /\ responseTcs = NoOne
  /\ pc = [p \in Requesters |-> "idle"] /\ tcs = [p \in Requesters |-> "none"]
  /\ op = "none" /\ step = "idle" /\ todo = <<>> /\ closing = NoConn
  /\ loops = 0
  /\ connection = NoConn /\ keepAliveTask = NoConn
  /\ live = [c \in Conns |-> FALSE] /\ rx = [c \in Conns |-> "done"]
  /\ inbox = [c \in Conns |-> <<>>] /\ session = [c \in Conns |-> {}]
  /\ muddled = [c \in Conns |-> FALSE] /\ ka = [c \in Conns |-> "off"]
  /\ acks = 0 /\ handlers = {} /\ replay = <<>>

-----------------------------------------------------------------------------
(* Helpers *)

\* FailPending: the request that waits for a response, if any, fails.
FailPendingForgetsTask ==   \* a mutant: the task is not failed
  responseTcs' = NoOne /\ UNCHANGED tcs
FailPending ==
  /\ responseTcs' = NoOne
  /\ tcs' = IF responseTcs = NoOne THEN tcs
            ELSE [tcs EXCEPT ![responseTcs] = "failed"]

\* The release of _sendLock by p, who may have been turned away before taking it.
ReleaseUnowned(p) ==   \* a mutant: releases what it may not hold
  sendHolder' = NoOne
Release(p) == sendHolder' = IF sendHolder = p THEN NoOne ELSE sendHolder

Muddle(c) == [muddled EXCEPT ![c] = TRUE]

Up == connection # NoConn /\ live[connection]

\* SendCoreAsync on a connection that is up. The controller may answer, and
\* the answer belongs to m. It is for nobody when m does not wait for it.
Delivered(m, accepts, waits) ==
  /\ Up
  /\ \/ inbox' = inbox
     \/ /\ Len(inbox[connection]) < MaxInFlight
        /\ inbox' = [inbox EXCEPT ![connection] = Append(@, m)]
  /\ session' = [session EXCEPT ![connection] = @ \cup accepts]
  /\ muddled' = IF waits THEN muddled ELSE Muddle(connection)
  /\ UNCHANGED live

\* A write to a connection whose peer is gone: it may be reported as done...
Vanished == connection # NoConn /\ ~Up /\ UNCHANGED netVars
\* ... or throw, as SendCoreAsync does when _connection is null.
Refused == ~Up /\ UNCHANGED netVars

\* The socket of c is disposed: nothing more is read from it or sent on it.
SocketLeaked(c) ==   \* a mutant: the socket stays open
  UNCHANGED <<live, inbox, session>>
SocketClosed(c) ==
  /\ live' = [d \in Conns |-> live[d] /\ d # c]
  /\ inbox' = [d \in Conns |-> IF d = c THEN <<>> ELSE inbox[d]]
  /\ session' = [d \in Conns |-> IF d = c THEN {} ELSE session[d]]

\* Cancels the keep-alive loop of _keepAliveTask; one inside a write ends after it.
KeepAliveNotCancelled ==   \* a mutant: the loop is not cancelled
  ka
CancelledKeepAlive ==
  IF keepAliveTask = NoConn THEN ka
  ELSE [ka EXCEPT ![keepAliveTask] =
          IF @ \in {"send", "stopping"} THEN "stopping" ELSE "off"]

ReleaseLifecycle == op' = "none" /\ step' = "idle" /\ todo' = <<>>

\* The catch of ConnectAsync, and of one turn of ReconnectLoopAsync, whose
\* while condition decides whether there is another.
AttemptFailed ==
  \/ /\ op = "connect"
     /\ state' = "Disconnected"
     /\ ReleaseLifecycle
  \/ /\ op = "reconnect"
     /\ UNCHANGED state
     /\ IF state = "Reconnecting" /\ ~disposed
        THEN step' = "delay" /\ UNCHANGED <<op, todo>>
        ELSE ReleaseLifecycle

-----------------------------------------------------------------------------
(* SendAsync, SubscribeAsync and SendAndWaitCoreAsync *)

\* EnsureConnected, then the wait for _sendLock. SubscribeAsync registers its
\* handler first.
Call(p) ==
  /\ p \in Callers /\ pc[p] = "idle" /\ state = "Connected" /\ ~disposed
  /\ p \notin handlers
  /\ pc' = [pc EXCEPT ![p] = "queued"]
  /\ handlers' = IF p \in Subscribers THEN handlers \cup {p} ELSE handlers
  /\ UNCHANGED <<state, sendHolder, responseTcs, tcs, lifeVars, loops,
                 connection, rx, netVars, kaVars, acks, replay, endVars>>

\* Takes _sendLock. SendAndWaitCoreAsync throws if _responseTcs is in use and
\* sets it otherwise; MID0003 is sent without it.
Acquire(p) ==
  /\ pc[p] = "queued" /\ sendHolder = NoOne /\ ~disposed
  /\ sendHolder' = p
  /\ IF p = Life /\ step = "bye"
     THEN /\ pc' = [pc EXCEPT ![p] = "send"]
          /\ UNCHANGED <<responseTcs, tcs>>
     ELSE IF responseTcs # NoOne
     THEN /\ pc' = [pc EXCEPT ![p] = "return"]
          /\ tcs' = [tcs EXCEPT ![p] = "overlap"]
          /\ UNCHANGED responseTcs
     ELSE /\ responseTcs' = p
          /\ pc' = [pc EXCEPT ![p] = "send"]
          /\ tcs' = [tcs EXCEPT ![p] = "pending"]
  /\ UNCHANGED <<state, lifeVars, loops, connection, rx, netVars, kaVars,
                 subVars, endVars>>

\* What the controller accepts when it receives the request of p.
Accepts(p) ==
  IF p = Life
  THEN CASE step = "handshake" -> {"started"}
         [] step = "replay"    -> {"subscribed"}
         [] OTHER              -> {}
  ELSE IF p \in Subscribers THEN {"subscribed"} ELSE {}

\* SendCoreAsync for a request that then awaits its response.
SendRequest(p) ==
  /\ pc[p] = "send" /\ ~(p = Life /\ step = "bye")
  /\ \/ /\ Delivered(p, Accepts(p), tcs[p] = "pending") \/ Vanished
        /\ pc' = [pc EXCEPT ![p] = "await"]
        /\ UNCHANGED <<responseTcs, tcs>>
     \/ /\ Refused
        /\ pc' = [pc EXCEPT ![p] = "return"]
        /\ tcs' = [tcs EXCEPT ![p] = "failed"]
        /\ responseTcs' = IF responseTcs = p THEN NoOne ELSE responseTcs
  /\ UNCHANGED <<state, sendHolder, lifeVars, loops, connection, rx, kaVars,
                 subVars, endVars>>

\* SendCoreAsync of MID0003 in DisconnectAsync: sent, not waited for.
SendBye ==
  /\ pc[Life] = "send" /\ step = "bye"
  /\ Delivered(Life, {}, FALSE) \/ Vanished \/ Refused
  /\ pc' = [pc EXCEPT ![Life] = "return"]
  /\ UNCHANGED <<state, sendHolder, responseTcs, tcs, lifeVars, loops,
                 connection, rx, kaVars, subVars, endVars>>

\* The registration on the linked token: RequestTimeoutMs has passed, or the
\* caller cancelled.
GiveUpSilently(p) ==   \* a mutant: the task is not completed
  /\ responseTcs = p
  /\ responseTcs' = NoOne
  /\ UNCHANGED <<state, sendHolder, pc, tcs, lifeVars, loops, connection, rx,
                 netVars, kaVars, subVars, endVars>>
GiveUp(p) ==
  /\ responseTcs = p
  /\ responseTcs' = NoOne
  /\ tcs' = [tcs EXCEPT ![p] = "timeout"]
  /\ muddled' = IF connection = NoConn THEN muddled ELSE Muddle(connection)
  /\ UNCHANGED <<state, sendHolder, pc, lifeVars, loops, connection, rx, live,
                 inbox, session, kaVars, subVars, endVars>>

\* _sendLock.WaitAsync throws: the caller cancelled, or the lock was disposed
\* before the call.
LeaveQueue(p) ==
  /\ pc[p] = "queued" /\ p \notin stranded
  /\ disposed \/ (p = Life => op = "connect")
  /\ pc' = [pc EXCEPT ![p] = "return"]
  /\ tcs' = [tcs EXCEPT ![p] = "failed"]
  /\ UNCHANGED <<state, sendHolder, responseTcs, lifeVars, loops, connection,
                 rx, netVars, kaVars, subVars, endVars>>

Answered(p) == tcs[p] \in Messages
Finished(p) == pc[p] = "return" \/ (pc[p] = "await" /\ tcs[p] # "pending")

\* SendAsync returns or throws, releasing _sendLock.
Return(p) ==
  /\ p \in Callers /\ Finished(p)
  /\ Release(p)
  /\ IF p \in Subscribers
     THEN pc' = [pc EXCEPT ![p] = "register"] /\ UNCHANGED tcs
     ELSE pc' = [pc EXCEPT ![p] = "idle"] /\ tcs' = [tcs EXCEPT ![p] = "none"]
  /\ UNCHANGED <<state, responseTcs, lifeVars, loops, connection, rx, netVars,
                 kaVars, subVars, endVars>>

\* The rest of SubscribeAsync: a confirmed request is remembered for replay,
\* after a failed one the handler is removed.
RegisterKeepsHandler(p) ==   \* a mutant: the handler stays after a failure
  /\ pc[p] = "register"
  /\ replay' = IF Answered(p) THEN Append(replay, p) ELSE replay
  /\ pc' = [pc EXCEPT ![p] = "idle"]
  /\ tcs' = [tcs EXCEPT ![p] = "none"]
  /\ UNCHANGED <<state, sendHolder, responseTcs, lifeVars, loops, connection, rx,
                 netVars, kaVars, acks, handlers, endVars>>
Register(p) ==
  /\ pc[p] = "register"
  /\ IF Answered(p)
     THEN replay' = Append(replay, p) /\ UNCHANGED handlers
     ELSE handlers' = handlers \ {p} /\ UNCHANGED replay
  /\ pc' = [pc EXCEPT ![p] = "idle"]
  /\ tcs' = [tcs EXCEPT ![p] = "none"]
  /\ UNCHANGED <<state, sendHolder, responseTcs, lifeVars, loops, connection,
                 rx, netVars, kaVars, acks, endVars>>

-----------------------------------------------------------------------------
(* ConnectAsync, DisconnectAsync, ReconnectLoopAsync, under _lifecycleLock *)

\* A call of ConnectAsync gets the lock (waiting for it changes nothing): unless
\* the endpoint is Connected, or Connecting, it makes an attempt.
BeginConnectPublishesFirst ==   \* a mutant: Connected before the handshake
  /\ op = "none" /\ ~disposed
  /\ state \notin {"Connected", "Connecting"}
  /\ state' = "Connected" /\ op' = "connect" /\ step' = "dial"
  /\ UNCHANGED <<sendVars, todo, closing, loops, connection, rx, netVars, kaVars,
                 subVars, endVars>>
BeginConnect ==
  /\ op = "none" /\ ~disposed
  /\ state \notin {"Connected", "Connecting"}
  /\ state' = "Connecting" /\ op' = "connect" /\ step' = "dial"
  /\ UNCHANGED <<sendVars, todo, closing, loops, connection, rx, netVars, kaVars,
                 subVars, endVars>>

\* A call of DisconnectAsync gets it: Stopped before MID0003 is even sent.
BeginDisconnect ==
  /\ op = "none" /\ ~disposed
  /\ state # "Stopped"
  /\ state' = "Stopped" /\ op' = "disconnect" /\ step' = "bye"
  /\ pc' = [pc EXCEPT ![Life] = "queued"]
  /\ UNCHANGED <<sendHolder, responseTcs, tcs, todo, closing, loops, connection,
                 rx, netVars, kaVars, subVars, endVars>>

\* ReconnectLoopAsync has the lock: somebody else may have dealt with the drop.
BeginReconnectAlways ==   \* a mutant: _state is not looked at
  /\ op = "none" /\ loops > 0 /\ ~disposed
  /\ loops' = loops - 1
  /\ state' = "Reconnecting" /\ op' = "reconnect" /\ step' = "delay"
  /\ UNCHANGED <<sendVars, todo, closing, connection, rx, netVars, kaVars, subVars,
                 endVars>>
BeginReconnect ==
  /\ op = "none" /\ loops > 0 /\ ~disposed
  /\ loops' = loops - 1
  /\ IF state \in {"Connected", "Connecting", "Stopped"}
     THEN UNCHANGED <<state, op, step>>
     ELSE state' = "Reconnecting" /\ op' = "reconnect" /\ step' = "delay"
  /\ UNCHANGED <<sendVars, todo, closing, connection, rx, netVars, kaVars,
                 subVars, endVars>>

\* The back-off delay of the loop ends; Dispose cancels it and ends the loop.
Backoff ==
  /\ step = "delay"
  /\ IF disposed THEN ReleaseLifecycle
     ELSE step' = "dial" /\ UNCHANGED <<op, todo>>
  /\ UNCHANGED <<state, sendVars, closing, loops, connection, rx, netVars,
                 kaVars, subVars, endVars>>

Unused(c) == rx[c] = "done" /\ ka[c] = "off" /\ c \notin {connection, keepAliveTask}

\* ConnectCoreAsync up to the handshake: the new connection c and its receive
\* loop, and a new keep-alive loop in place of the cancelled one.
DialOk(c) ==
  /\ step = "dial" /\ Unused(c)
  /\ connection' = c
  /\ live' = [live EXCEPT ![c] = TRUE]
  /\ rx' = [rx EXCEPT ![c] = "run"]
  /\ inbox' = [inbox EXCEPT ![c] = <<>>]
  /\ session' = [session EXCEPT ![c] = {}]
  /\ muddled' = [muddled EXCEPT ![c] = FALSE]
  /\ ka' = [CancelledKeepAlive EXCEPT ![c] = "sleep"]
  /\ keepAliveTask' = c
  /\ step' = "handshake"
  /\ pc' = [pc EXCEPT ![Life] = "queued"]
  /\ UNCHANGED <<state, sendHolder, responseTcs, tcs, op, todo, closing, loops,
                 subVars, endVars>>

\* The TCP connect fails or times out: _connection keeps its old value.
DialFails ==
  /\ step = "dial"
  /\ AttemptFailed
  /\ UNCHANGED <<sendVars, closing, loops, connection, rx, netVars, kaVars,
                 subVars, endVars>>

\* The handshake of ConnectCoreAsync was answered, or failed.
HandshakeReturns ==
  /\ step = "handshake" /\ Finished(Life)
  /\ Release(Life)
  /\ tcs' = [tcs EXCEPT ![Life] = "none"]
  /\ IF Answered(Life) /\ replay # <<>>
     THEN step' = "replay" /\ todo' = replay /\ pc' = [pc EXCEPT ![Life] = "queued"]
     ELSE /\ step' = IF Answered(Life) THEN "publish" ELSE "teardown"
          /\ pc' = [pc EXCEPT ![Life] = "idle"]
          /\ UNCHANGED todo
  /\ UNCHANGED <<state, responseTcs, op, closing, loops, connection, rx,
                 netVars, kaVars, subVars, endVars>>

\* ReplaySubscriptionsAsync: the outcome of one request is only logged.
ReplayReturns ==
  /\ step = "replay" /\ Finished(Life)
  /\ Release(Life)
  /\ tcs' = [tcs EXCEPT ![Life] = "none"]
  /\ todo' = Tail(todo)
  /\ IF Tail(todo) # <<>>
     THEN pc' = [pc EXCEPT ![Life] = "queued"] /\ UNCHANGED step
     ELSE pc' = [pc EXCEPT ![Life] = "idle"] /\ step' = "publish"
  /\ UNCHANGED <<state, responseTcs, op, closing, loops, connection, rx,
                 netVars, kaVars, subVars, endVars>>

\* ConnectCoreAsync succeeded: whatever _state has become meanwhile, it is
\* Connected now.
Publish ==
  /\ step = "publish"
  /\ state' = "Connected"
  /\ ReleaseLifecycle
  /\ UNCHANGED <<sendVars, closing, loops, connection, rx, netVars, kaVars,
                 subVars, endVars>>

\* MID0003 is out, or could not be sent; either way DisconnectAsync tears down.
ByeReturns ==
  /\ step = "bye" /\ pc[Life] = "return"
  /\ Release(Life)
  /\ tcs' = [tcs EXCEPT ![Life] = "none"]
  /\ pc' = [pc EXCEPT ![Life] = "idle"]
  /\ step' = "teardown"
  /\ UNCHANGED <<state, responseTcs, op, todo, closing, loops, connection, rx,
                 netVars, kaVars, subVars, endVars>>

\* TeardownAsync forgets the connection and detaches from its events: a receive
\* loop that has not yet raised Disconnected ends without notifying anyone.
Detach ==
  /\ step = "teardown"
  /\ closing' = connection
  /\ connection' = NoConn
  /\ rx' = IF connection # NoConn /\ rx[connection] = "run"
           THEN [rx EXCEPT ![connection] = "done"] ELSE rx
  /\ step' = "awaitReceive"
  /\ UNCHANGED <<state, sendVars, op, todo, loops, netVars, kaVars, subVars,
                 endVars>>

\* The receive loop has ended: the socket is closed, the keep-alive cancelled.
CloseSocket ==
  /\ step = "awaitReceive"
  /\ closing # NoConn => rx[closing] = "done"
  /\ SocketClosed(closing)
  /\ muddled' = [c \in Conns |-> muddled[c] /\ c # closing]
  /\ closing' = NoConn
  /\ ka' = CancelledKeepAlive
  /\ step' = "awaitKeepAlive"
  /\ UNCHANGED <<state, sendVars, op, todo, loops, connection, rx,
                 keepAliveTask, subVars, endVars>>

\* The keep-alive loop has ended, and with it TeardownAsync. DisconnectAsync
\* then fails the request that still waits; a failed attempt does not.
TornDownFailsNobody ==   \* a mutant: the waiting request is not failed
  /\ step = "awaitKeepAlive"
  /\ keepAliveTask # NoConn => ka[keepAliveTask] = "off"
  /\ keepAliveTask' = NoConn
  /\ IF op = "disconnect" THEN ReleaseLifecycle /\ UNCHANGED state
     ELSE AttemptFailed
  /\ UNCHANGED <<sendVars, closing, loops, connection, rx, netVars, ka, subVars,
                 endVars>>
TornDown ==
  /\ step = "awaitKeepAlive"
  /\ keepAliveTask # NoConn => ka[keepAliveTask] = "off"
  /\ keepAliveTask' = NoConn
  /\ IF op = "disconnect"
     THEN FailPending /\ ReleaseLifecycle /\ UNCHANGED state
     ELSE AttemptFailed /\ UNCHANGED <<responseTcs, tcs>>
  /\ UNCHANGED <<sendHolder, pc, closing, loops, connection, rx, netVars, ka,
                 subVars, endVars>>

-----------------------------------------------------------------------------
(* The receive loop of connection c, the controller, and OnDisconnected *)

\* The connection breaks. What the controller had sent may still be readable.
Drop(c) ==
  /\ live[c] /\ loops < MaxLoops
  /\ live' = [live EXCEPT ![c] = FALSE]
  /\ inbox' \in {inbox, [inbox EXCEPT ![c] = <<>>]}
  /\ session' = [session EXCEPT ![c] = {}]
  /\ UNCHANGED <<state, sendVars, lifeVars, loops, connection, rx, muddled,
                 kaVars, subVars, endVars>>

\* The controller pushes a result to a client it takes for subscribed.
ServerPush(c) ==
  /\ live[c] /\ "subscribed" \in session[c]
  /\ acks < MaxAcks /\ Len(inbox[c]) < MaxInFlight
  /\ inbox' = [inbox EXCEPT ![c] = Append(@, Push)]
  /\ UNCHANGED <<state, sendVars, lifeVars, loops, connection, rx, live,
                 session, muddled, kaVars, subVars, endVars>>

\* ProcessFrame: a subscribed MID goes to its handlers, each of which will
\* acknowledge it; any other MID answers the request that waits, if one does.
ReceiveResponseFirst(c) ==   \* a mutant: the request that waits comes first
  /\ rx[c] = "run" /\ inbox[c] # <<>>
  /\ inbox' = [inbox EXCEPT ![c] = Tail(@)]
  /\ IF responseTcs = NoOne
     THEN /\ UNCHANGED <<responseTcs, tcs>>
          /\ acks' = acks + (IF Head(inbox[c]) = Push THEN Cardinality(handlers) ELSE 0)
     ELSE /\ tcs' = [tcs EXCEPT ![responseTcs] = Head(inbox[c])]
          /\ responseTcs' = NoOne
          /\ UNCHANGED acks
  /\ UNCHANGED <<state, sendHolder, pc, lifeVars, loops, connection, rx, live,
                 session, muddled, kaVars, handlers, replay, endVars>>
Receive(c) ==
  /\ rx[c] = "run" /\ inbox[c] # <<>>
  /\ inbox' = [inbox EXCEPT ![c] = Tail(@)]
  /\ IF Head(inbox[c]) = Push /\ handlers # {}
     THEN acks' = acks + Cardinality(handlers) /\ UNCHANGED <<responseTcs, tcs>>
     ELSE /\ tcs' = IF responseTcs = NoOne THEN tcs
                    ELSE [tcs EXCEPT ![responseTcs] = Head(inbox[c])]
          /\ responseTcs' = NoOne
          /\ UNCHANGED acks
  /\ UNCHANGED <<state, sendHolder, pc, lifeVars, loops, connection, rx, live,
                 session, muddled, kaVars, handlers, replay, endVars>>

\* ReadAsync returns 0 or throws: the loop raises Disconnected.
ReceiveEnds(c) ==
  /\ rx[c] = "run" /\ ~live[c] /\ inbox[c] = <<>>
  /\ rx' = [rx EXCEPT ![c] = "check"]
  /\ muddled' = [muddled EXCEPT ![c] = FALSE]
  /\ UNCHANGED <<state, sendVars, lifeVars, loops, connection, live, inbox,
                 session, kaVars, subVars, endVars>>

\* OnDisconnected takes no lock: it looks at _state ...
OnDisconnectedCheck(c) ==
  /\ rx[c] = "check"
  /\ rx' = [rx EXCEPT ![c] =
              IF disposed \/ state = "Stopped" THEN "done" ELSE "mark"]
  /\ UNCHANGED <<state, sendVars, lifeVars, loops, connection, netVars, kaVars,
                 subVars, endVars>>

\* ... then writes it ...
OnDisconnectedMark(c) ==
  /\ rx[c] = "mark"
  /\ state' = "Disconnected"
  /\ rx' = [rx EXCEPT ![c] = "fail"]
  /\ UNCHANGED <<sendVars, lifeVars, loops, connection, netVars, kaVars,
                 subVars, endVars>>

\* ... then fails the request that waits and starts a reconnect loop. By now
\* that request may be one of the next connection, whose answer is still due.
OnDisconnectedFail(c) ==
  /\ rx[c] = "fail"
  /\ FailPending
  /\ loops' = IF AutoReconnect THEN loops + 1 ELSE loops
  /\ rx' = [rx EXCEPT ![c] = "done"]
  /\ muddled' = IF connection \in {c, NoConn} THEN muddled ELSE Muddle(connection)
  /\ UNCHANGED <<state, sendHolder, pc, lifeVars, connection, live, inbox,
                 session, kaVars, subVars, endVars>>

-----------------------------------------------------------------------------
(* KeepAliveLoopAsync, HandleSubscribedAsync, Dispose *)

\* A second has passed, the endpoint is Connected and has been silent for
\* KeepAliveIntervalMs.
KeepAliveDue(c) ==
  /\ ka[c] = "sleep" /\ state = "Connected"
  /\ ka' = [ka EXCEPT ![c] = IF disposed THEN "off" ELSE "queued"]
  /\ UNCHANGED <<state, sendVars, lifeVars, loops, connection, rx, netVars,
                 keepAliveTask, subVars, endVars>>

KeepAliveAcquire(c) ==
  /\ ka[c] = "queued" /\ sendHolder = NoOne /\ ~disposed
  /\ sendHolder' = KeepAlive
  /\ ka' = [ka EXCEPT ![c] = "send"]
  /\ UNCHANGED <<state, responseTcs, pc, tcs, lifeVars, loops, connection, rx,
                 netVars, keepAliveTask, subVars, endVars>>

\* MID9999 goes out on the connection of the moment and is not waited for. The
\* loop ends at the first exception.
KeepAliveSend(c) ==
  /\ ka[c] \in {"send", "stopping"}
  /\ Release(KeepAlive)
  /\ \/ /\ Delivered(KeepAlive, {}, FALSE) \/ Vanished
        /\ ka' = [ka EXCEPT ![c] = IF @ = "stopping" THEN "off" ELSE "sleep"]
     \/ Refused /\ ka' = [ka EXCEPT ![c] = "off"]
  /\ UNCHANGED <<state, responseTcs, pc, tcs, lifeVars, loops, connection, rx,
                 keepAliveTask, subVars, endVars>>

AckAcquireUnowed ==   \* a mutant: takes one that is not owed
  /\ sendHolder = NoOne /\ ~disposed
  /\ sendHolder' = Ack
  /\ acks' = acks - 1
  /\ UNCHANGED <<state, responseTcs, pc, tcs, lifeVars, loops, connection, rx,
                 netVars, kaVars, handlers, replay, endVars>>
AckAcquire ==
  /\ acks > 0 /\ sendHolder = NoOne /\ ~disposed
  /\ sendHolder' = Ack
  /\ acks' = acks - 1
  /\ UNCHANGED <<state, responseTcs, pc, tcs, lifeVars, loops, connection, rx,
                 netVars, kaVars, handlers, replay, endVars>>

\* MID0062 is not answered by the controller; a failure to send it is logged.
AckSend ==
  /\ sendHolder = Ack
  /\ Release(Ack)
  /\ UNCHANGED <<state, responseTcs, pc, tcs, lifeVars, loops, connection, rx,
                 netVars, kaVars, subVars, endVars>>

\* Dispose cancels the loops, fails the request that waits, and disposes the
\* connection and both locks. A free lock has no one queued on it: a released
\* permit goes straight to a waiter.
Dispose ==
  /\ Disposable /\ ~disposed
  /\ sendHolder = NoOne => \A p \in Requesters : pc[p] # "queued"
  /\ disposed' = TRUE
  /\ FailPending
  /\ handlers' = {} /\ replay' = <<>>
  /\ SocketClosed(connection)
  /\ connection' = NoConn
  /\ stranded' = {p \in Requesters : pc[p] = "queued"}
  /\ UNCHANGED <<state, sendHolder, pc, lifeVars, loops, rx, muddled, kaVars,
                 acks>>

-----------------------------------------------------------------------------
SendSteps(p) ==
  \/ Acquire(p) \/ SendRequest(p) \/ GiveUp(p) \/ Return(p) \/ Register(p)

LifeSteps ==
  \/ BeginReconnect \/ Backoff
  \/ (\E c \in Conns : DialOk(c)) \/ DialFails
  \/ HandshakeReturns \/ ReplayReturns \/ Publish
  \/ SendBye \/ ByeReturns \/ Detach \/ CloseSocket \/ TornDown

ConnSteps(c) ==
  \/ Receive(c) \/ ReceiveEnds(c)
  \/ OnDisconnectedCheck(c) \/ OnDisconnectedMark(c) \/ OnDisconnectedFail(c)
  \/ KeepAliveAcquire(c) \/ KeepAliveSend(c)

Environment ==
  \/ \E p \in Callers : Call(p)
  \/ \E p \in Requesters : LeaveQueue(p)
  \/ BeginConnect \/ BeginDisconnect
  \/ \E c \in Conns : Drop(c) \/ ServerPush(c) \/ KeepAliveDue(c)
  \/ Dispose

Next ==
  \/ \E p \in Requesters : SendSteps(p)
  \/ LifeSteps
  \/ \E c \in Conns : ConnSteps(c)
  \/ AckAcquire \/ AckSend
  \/ Environment

Spec == Init /\ [][Next]_vars
-----------------------------------------------------------------------------
(* Fairness: the thread pool runs every task that can continue, a timer that *)
(* is due fires, a write and a dial come to an end, and SemaphoreSlim wakes  *)
(* its waiters in turn (strong fairness of the acquisitions). Nothing is     *)
(* assumed of the users, of the controller or of the network.                *)

LifeContinues ==
  \/ Backoff \/ (\E c \in Conns : DialOk(c)) \/ DialFails
  \/ HandshakeReturns \/ ReplayReturns \/ Publish
  \/ SendBye \/ ByeReturns \/ Detach \/ CloseSocket \/ TornDown

RequestContinues(p) == SendRequest(p) \/ GiveUp(p) \/ Return(p) \/ Register(p)

ReceiveContinues(c) ==
  \/ Receive(c) \/ ReceiveEnds(c)
  \/ OnDisconnectedCheck(c) \/ OnDisconnectedMark(c) \/ OnDisconnectedFail(c)

Fairness ==
  /\ WF_vars(LifeContinues) /\ WF_vars(AckSend)
  /\ \A p \in Requesters : SF_vars(Acquire(p)) /\ WF_vars(RequestContinues(p))
  /\ \A c \in Conns : WF_vars(ReceiveContinues(c)) /\ WF_vars(KeepAliveSend(c))

FairSpec == Spec /\ Fairness

-----------------------------------------------------------------------------
(* Properties *)

\* One party at a time is between taking and releasing _sendLock, and only the
\* requester among them can own _responseTcs: the InvalidOperationException of
\* SendAndWaitCoreAsync is never thrown.
SendDiscipline ==
  /\ \A p \in Requesters : pc[p] \in {"send", "await"} => sendHolder = p
  /\ \A c \in Conns : ka[c] \in {"send", "stopping"} => sendHolder = KeepAlive
  /\ \A c, d \in Conns :
       ka[c] \in {"send", "stopping"} /\ ka[d] \in {"send", "stopping"} => c = d
  /\ responseTcs # NoOne => sendHolder = responseTcs
  /\ \A p \in Requesters : tcs[p] # "overlap"

\* A request never waits for a response that nobody can give it any more: as
\* long as its task is pending, _responseTcs is its own, so that a message, the
\* timeout, a drop, DisconnectAsync or Dispose can complete it.
NoOrphanedRequest ==
  \A p \in Requesters :
    /\ tcs[p] = "pending" => responseTcs = p
    /\ responseTcs = p => tcs[p] = "pending" /\ pc[p] \in {"send", "await"}

\* Between calls, a subscription has its handler exactly if it is going to be
\* replayed: a failed SubscribeAsync leaves neither behind, a successful one
\* leaves one of each.
SubscriptionsMatch ==
  ~disposed =>
    \A p \in Subscribers :
      /\ pc[p] = "idle" =>
           Cardinality({i \in DOMAIN replay : replay[i] = p}) =
             (IF p \in handlers THEN 1 ELSE 0)
      /\ (\E i \in DOMAIN replay : replay[i] = p) => p \in handlers

\* Every connection that is up and delivers messages is the current one, or the
\* one that is being torn down: an abandoned socket can answer no request.
NoForgottenConnection ==
  \A c \in Conns : live[c] => c \in {connection, closing}

\* Callers that pass EnsureConnected on a connection that is up come after the
\* MID0001 of that connection.
ConnectedMeansHandshaken ==
  \A c \in Conns : state = "Connected" /\ c = connection /\ live[c]
    => "started" \in session[c]

\* Once DisconnectAsync is through, nothing is left of the connection: no
\* socket, no keep-alive loop, no request that waits for a response.
StoppedIsQuiet ==
  state = "Stopped" /\ op = "none" /\ ~disposed =>
    /\ connection = NoConn
    /\ \A c \in Conns : ~live[c] /\ ka[c] \in {"off", "stopping"}
    /\ \A p \in Requesters : ~(pc[p] = "await" /\ tcs[p] = "pending")

\* Only ConnectAsync leaves Stopped, or a drop whose notification had looked at
\* _state before it became Stopped.
StoppedIsSticky ==
  [][state = "Stopped" /\ state' # "Stopped"
       => \/ op' = "connect"
          \/ \E c \in Conns : rx[c] = "mark" /\ rx'[c] = "fail"]_vars

\* The response a request gets is the answer to that request, unless on this
\* connection something was sent whose answer nobody awaits: a keep-alive, a
\* MID0003, a request that had timed out or been failed.
ResponsesPaired ==
  [][\A p \in Requesters : \A m \in Messages :
       tcs[p] = "pending" /\ tcs'[p] = m
         => m = p \/ \E c \in Conns : inbox'[c] # inbox[c] /\ muddled[c]]_vars

\* Every SendAsync and SubscribeAsync returns or throws, whatever the
\* controller, the network and the other callers do, unless Dispose intervenes.
CallsReturn == \A p \in Callers : pc[p] # "idle" ~> (pc[p] = "idle" \/ disposed)

\* ConnectAsync and DisconnectAsync, once they have _lifecycleLock, come to an
\* end: waiting for _sendLock, the receive loop and the keep-alive loop under it
\* cannot block for ever.
LifecycleReturns ==
  op \in {"connect", "disconnect"} ~> (op \notin {"connect", "disconnect"} \/ disposed)

\* With AutoReconnect, an endpoint that is at rest and calls itself Connected has a
\* connection that is up: a drop is always followed by a reconnect.
ConnectedMeansLive ==
  state = "Connected" /\ op = "none" /\ loops = 0 /\ ~disposed
      /\ (\A c \in Conns : rx[c] \in {"run", "done"} /\ inbox[c] = <<>>)
    => \E c \in Conns : rx[c] = "run"

\* Strict send-receive-send-receive: nothing is sent on a connection while the
\* answer to an earlier message is outstanding.
StrictAlternation ==
  [][\A c \in Conns : Len(inbox'[c]) > Len(inbox[c]) /\ inbox'[c][Len(inbox'[c])] # Push
       => \A i \in DOMAIN inbox[c] : inbox[c][i] = Push]_vars
=============================================================================
