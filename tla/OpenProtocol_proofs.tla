------------------------- MODULE OpenProtocol_proofs -------------------------
(***************************************************************************)
(* The safety of OpenProtocolEndpoint, for any set of callers and          *)
(* connections: first the send lock and the response slot, then the        *)
(* connections, then answers and subscriptions, each with the ones before. *)
(* Last, that OpenProtocolFraming cuts a stream of any length in the same  *)
(* frames whatever the chunks it comes in. The loop is a recursion over    *)
(* the bytes; where a proof needs an induction it takes the least number   *)
(* for which the claim fails (LeastOf).                                    *)
(***************************************************************************)
EXTENDS OpenProtocolEndpoint, OpenProtocolFraming,
        SequenceTheorems, FiniteSetTheorems, WellFoundedInduction, TLAPS

\* Where the holder of _lifecycleLock can be: what makes the invariants of the
\* send lock inductive.
LifeOK ==
  /\ op = "none" <=> step = "idle"
  /\ op = "disconnect" => step \in {"bye", "teardown", "awaitReceive", "awaitKeepAlive"}
  /\ step = "bye" => op = "disconnect" /\ responseTcs # Life
  /\ step \notin {"handshake", "replay", "bye"} => pc[Life] = "idle"
  /\ step = "replay" => todo # <<>>
  /\ \A p \in Requesters : pc[p] = "register" => p \in Subscribers
  /\ op \in {"connect", "reconnect"} => state # "Stopped"

IInv == TypeOK /\ SendDiscipline /\ NoOrphanedRequest /\ LifeOK

\* The names of the parties differ, as CallersAssumption requires.
LEMMA NamesDistinct ==
  /\ Life \notin Callers /\ KeepAlive \notin Requesters /\ Ack \notin Requesters
  /\ NoOne \notin Requesters /\ KeepAlive # NoOne /\ Ack # NoOne /\ Ack # KeepAlive
  /\ Life \in Requesters /\ Callers \subseteq Requesters /\ Subscribers \subseteq Requesters
  /\ "none" \notin Messages /\ "pending" \notin Messages /\ "overlap" \notin Messages
BY CallersAssumption DEF Life, KeepAlive, Ack, NoOne, Push, Requesters, Messages

\* Append, Tail and Head stay within a set of sequences.
LEMMA SeqType ==
  ASSUME NEW S
  PROVE  /\ <<>> \in Seq(S)
         /\ \A s \in Seq(S) : \A x \in S : Append(s, x) \in Seq(S)
         /\ \A s \in Seq(S) : s # <<>> => Tail(s) \in Seq(S) /\ Head(s) \in S
OBVIOUS

\* A write on the current connection, whatever becomes of it, keeps the types of
\* the network (SendCoreAsync).
LEMMA NetworkType ==
  ASSUME TypeOK, NEW m \in Messages, NEW a \in SUBSET {"started", "subscribed"},
         NEW w \in BOOLEAN, Delivered(m, a, w) \/ Vanished \/ Refused
  PROVE  /\ live' \in [Conns -> BOOLEAN] /\ muddled' \in [Conns -> BOOLEAN]
         /\ inbox' \in [Conns -> Seq(Messages)]
         /\ session' \in [Conns -> SUBSET {"started", "subscribed"}]
<1>1. CASE Delivered(m, a, w)
  <2>1. connection \in Conns
    BY <1>1 DEF TypeOK, Delivered, Up
  <2>2. inbox' \in [Conns -> Seq(Messages)]
    <3>1. Append(inbox[connection], m) \in Seq(Messages)
      BY <2>1 DEF TypeOK
    <3>2. QED BY <1>1, <2>1, <3>1 DEF TypeOK, Delivered
  <2>3. session' \in [Conns -> SUBSET {"started", "subscribed"}]
    BY <1>1, <2>1 DEF TypeOK, Delivered
  <2>4. QED BY <1>1, <2>1, <2>2, <2>3 DEF TypeOK, Delivered, Muddle
<1>2. CASE Vanished \/ Refused
  BY <1>2 DEF TypeOK, Vanished, Refused, netVars
<1>3. QED BY <1>1, <1>2

\* TeardownAsync cancels a keep-alive loop without taking _sendLock from it.
LEMMA CancelledType ==
  ASSUME TypeOK
  PROVE  /\ CancelledKeepAlive \in [Conns -> {"off", "sleep", "queued", "send", "stopping"}]
         /\ \A c \in Conns : CancelledKeepAlive[c] \in {"send", "stopping"}
                              <=> ka[c] \in {"send", "stopping"}
BY DEF TypeOK, CancelledKeepAlive

\* A fresh endpoint satisfies the inductive invariant.
LEMMA InitIInv == Init => IInv
<1> SUFFICES ASSUME Init PROVE IInv
  OBVIOUS
<1>1. TypeOK
  <2>1. \A S : <<>> \in Seq(S)
    OBVIOUS
  <2>2. /\ pc \in [Requesters -> {"idle"}] /\ tcs \in [Requesters -> {"none"}]
        /\ inbox \in [Conns -> Seq(Messages)] /\ live \in [Conns -> BOOLEAN]
        /\ muddled \in [Conns -> BOOLEAN]
        /\ session \in [Conns -> SUBSET {"started", "subscribed"}]
        /\ rx \in [Conns -> {"done"}] /\ ka \in [Conns -> {"off"}]
    BY <2>1 DEF Init
  <2>3. QED BY <2>1, <2>2 DEF Init, TypeOK, States
<1>2. SendDiscipline
  BY <1>1, NamesDistinct DEF Init, SendDiscipline
<1>3. NoOrphanedRequest
  BY NamesDistinct DEF Init, NoOrphanedRequest
<1>4. LifeOK
  BY NamesDistinct DEF Init, LifeOK
<1>5. QED BY <1>1, <1>2, <1>3, <1>4 DEF IInv

\* Every step of every task, of the controller and of the network preserves it.
LEMMA NextIInv == IInv /\ [Next]_vars => IInv'
<1> SUFFICES ASSUME IInv, [Next]_vars PROVE IInv'
  OBVIOUS
<1> USE NamesDistinct, CancelledType
        DEF IInv, sendVars, lifeVars, netVars, kaVars, subVars, endVars
<1>1. ASSUME NEW p \in Requesters, Call(p) PROVE IInv'
  <2>1. TypeOK'
    BY <1>1 DEF TypeOK, Call
  <2>2. SendDiscipline'
    BY <1>1 DEF TypeOK, SendDiscipline, NoOrphanedRequest, Call
  <2>3. NoOrphanedRequest'
    BY <1>1 DEF TypeOK, NoOrphanedRequest, LifeOK, Call
  <2>4. LifeOK'
    BY <1>1 DEF TypeOK, NoOrphanedRequest, LifeOK, Call
  <2>5. QED BY <2>1, <2>2, <2>3, <2>4
<1>2. ASSUME NEW p \in Requesters, Acquire(p) PROVE IInv'
  <2>1. TypeOK'
    <3>1. /\ pc' \in [Requesters -> {"idle", "queued", "send", "await", "return", "register"}]
          /\ tcs' \in [Requesters -> {"none", "pending"} \cup Messages \cup Failures]
          /\ sendHolder' = p /\ responseTcs' \in {p, responseTcs}
      BY <1>2 DEF TypeOK, Acquire, Failures
    <3>2. UNCHANGED <<state, op, step, todo, closing, loops, connection, live, rx, inbox, session,
                      muddled, keepAliveTask, ka, acks, handlers, replay, disposed, stranded>>
      BY <1>2 DEF Acquire
    <3>3. /\ sendHolder' \in Requesters \cup {KeepAlive, Ack, NoOne}
          /\ responseTcs' \in Requesters \cup {NoOne}
      BY <3>1 DEF TypeOK
    <3> QED BY <3>1, <3>2, <3>3 DEF TypeOK
  <2>2. SendDiscipline'
    BY <1>2 DEF TypeOK, SendDiscipline, NoOrphanedRequest, Acquire
  <2>3. NoOrphanedRequest'
    BY <1>2 DEF TypeOK, NoOrphanedRequest, LifeOK, Acquire
  <2>4. LifeOK'
    BY <1>2 DEF TypeOK, NoOrphanedRequest, LifeOK, Acquire
  <2>5. QED BY <2>1, <2>2, <2>3, <2>4
<1>3. ASSUME NEW p \in Requesters, SendRequest(p) PROVE IInv'
  <2>1. TypeOK'
    <3>1. Accepts(p) \in SUBSET {"started", "subscribed"} /\ p \in Messages
      BY DEF Accepts, Messages
    <3>2. Delivered(p, Accepts(p), tcs[p] = "pending") \/ Vanished \/ Refused
      BY <1>3 DEF SendRequest
    <3>3. /\ live' \in [Conns -> BOOLEAN] /\ muddled' \in [Conns -> BOOLEAN]
          /\ inbox' \in [Conns -> Seq(Messages)]
          /\ session' \in [Conns -> SUBSET {"started", "subscribed"}]
      BY <3>1, <3>2, NetworkType
    <3>4. /\ pc' \in [Requesters -> {"idle", "queued", "send", "await", "return", "register"}]
          /\ tcs' \in [Requesters -> {"none", "pending"} \cup Messages \cup Failures]
          /\ responseTcs' \in Requesters \cup {NoOne}
      BY <1>3 DEF TypeOK, SendRequest, Failures
    <3>5. QED BY <1>3, <3>3, <3>4 DEF TypeOK, SendRequest
  <2>2. SendDiscipline'
    BY <1>3
    DEF TypeOK, SendDiscipline, NoOrphanedRequest, SendRequest, Accepts, Delivered,
        Vanished, Refused, Muddle, Up
  <2>3. NoOrphanedRequest'
    BY <1>3
    DEF TypeOK, NoOrphanedRequest, LifeOK, SendRequest, Accepts, Delivered, Vanished,
        Refused, Muddle, Up
  <2>4. LifeOK'
    BY <1>3
    DEF TypeOK, NoOrphanedRequest, LifeOK, SendRequest, Accepts, Delivered, Vanished,
        Refused, Muddle, Up
  <2>5. QED BY <2>1, <2>2, <2>3, <2>4
<1>4. ASSUME NEW p \in Requesters, GiveUp(p) PROVE IInv'
  <2>1. TypeOK'
    BY <1>4 DEF TypeOK, GiveUp, Muddle, Failures
  <2>2. SendDiscipline'
    BY <1>4 DEF TypeOK, SendDiscipline, NoOrphanedRequest, GiveUp, Muddle, Failures
  <2>3. NoOrphanedRequest'
    BY <1>4 DEF TypeOK, NoOrphanedRequest, LifeOK, GiveUp, Muddle, Failures
  <2>4. LifeOK'
    BY <1>4 DEF TypeOK, NoOrphanedRequest, LifeOK, GiveUp, Muddle, Failures
  <2>5. QED BY <2>1, <2>2, <2>3, <2>4
<1>5. ASSUME NEW p \in Requesters, LeaveQueue(p) PROVE IInv'
  <2>1. TypeOK'
    BY <1>5 DEF TypeOK, LeaveQueue, Failures
  <2>2. SendDiscipline'
    BY <1>5 DEF TypeOK, SendDiscipline, NoOrphanedRequest, LeaveQueue, Failures
  <2>3. NoOrphanedRequest'
    BY <1>5 DEF TypeOK, NoOrphanedRequest, LifeOK, LeaveQueue, Failures
  <2>4. LifeOK'
    BY <1>5 DEF TypeOK, NoOrphanedRequest, LifeOK, LeaveQueue, Failures
  <2>5. QED BY <2>1, <2>2, <2>3, <2>4
<1>6. ASSUME NEW p \in Requesters, Return(p) PROVE IInv'
  <2>1. TypeOK'
    <3>1. /\ pc' \in [Requesters -> {"idle", "queued", "send", "await", "return", "register"}]
          /\ tcs' \in [Requesters -> {"none", "pending"} \cup Messages \cup Failures]
          /\ sendHolder' \in Requesters \cup {KeepAlive, Ack, NoOne}
      BY <1>6 DEF TypeOK, Return, Release
    <3>2. QED BY <1>6, <3>1 DEF TypeOK, Return
  <2>2. SendDiscipline'
    BY <1>6 DEF TypeOK, SendDiscipline, NoOrphanedRequest, Return, Release, Finished
  <2>3. NoOrphanedRequest'
    BY <1>6 DEF TypeOK, NoOrphanedRequest, LifeOK, Return, Release, Finished
  <2>4. LifeOK'
    BY <1>6 DEF TypeOK, NoOrphanedRequest, LifeOK, Return, Release, Finished
  <2>5. QED BY <2>1, <2>2, <2>3, <2>4
<1>7. ASSUME NEW p \in Requesters, Register(p) PROVE IInv'
  <2>1. TypeOK'
    <3>1. p \in Subscribers
      BY <1>7 DEF Register, LifeOK
    <3>2. replay' \in Seq(Subscribers)
      <4>1. Append(replay, p) \in Seq(Subscribers) /\ replay \in Seq(Subscribers)
        BY <3>1, SeqType DEF TypeOK
      <4>2. replay' \in {Append(replay, p), replay}
        BY <1>7 DEF Register
      <4>3. QED BY <4>1, <4>2
    <3>3. QED BY <1>7, <3>2 DEF TypeOK, Register
  <2>2. SendDiscipline'
    BY <1>7 DEF TypeOK, SendDiscipline, NoOrphanedRequest, Register, Answered
  <2>3. NoOrphanedRequest'
    BY <1>7 DEF TypeOK, NoOrphanedRequest, LifeOK, Register, Answered
  <2>4. LifeOK'
    BY <1>7 DEF TypeOK, NoOrphanedRequest, LifeOK, Register, Answered
  <2>5. QED BY <2>1, <2>2, <2>3, <2>4
<1>8. ASSUME BeginConnect PROVE IInv'
  <2>1. TypeOK'
    BY <1>8 DEF TypeOK, BeginConnect, States
  <2>2. SendDiscipline'
    BY <1>8 DEF TypeOK, SendDiscipline, NoOrphanedRequest, BeginConnect, States
  <2>3. NoOrphanedRequest'
    BY <1>8 DEF TypeOK, NoOrphanedRequest, LifeOK, BeginConnect, States
  <2>4. LifeOK'
    BY <1>8 DEF TypeOK, NoOrphanedRequest, LifeOK, BeginConnect, States
  <2>5. QED BY <2>1, <2>2, <2>3, <2>4
<1>9. ASSUME BeginDisconnect PROVE IInv'
  <2>1. TypeOK'
    BY <1>9 DEF TypeOK, BeginDisconnect, States
  <2>2. SendDiscipline'
    BY <1>9 DEF TypeOK, SendDiscipline, NoOrphanedRequest, BeginDisconnect, States
  <2>3. NoOrphanedRequest'
    BY <1>9 DEF TypeOK, NoOrphanedRequest, LifeOK, BeginDisconnect, States
  <2>4. LifeOK'
    BY <1>9 DEF TypeOK, NoOrphanedRequest, LifeOK, BeginDisconnect, States
  <2>5. QED BY <2>1, <2>2, <2>3, <2>4
<1>10. ASSUME BeginReconnect PROVE IInv'
  <2>1. TypeOK'
    BY <1>10 DEF TypeOK, BeginReconnect, States
  <2>2. SendDiscipline'
    BY <1>10 DEF TypeOK, SendDiscipline, NoOrphanedRequest, BeginReconnect, States
  <2>3. NoOrphanedRequest'
    BY <1>10 DEF TypeOK, NoOrphanedRequest, LifeOK, BeginReconnect, States
  <2>4. LifeOK'
    BY <1>10 DEF TypeOK, NoOrphanedRequest, LifeOK, BeginReconnect, States
  <2>5. QED BY <2>1, <2>2, <2>3, <2>4
<1>11. ASSUME Backoff PROVE IInv'
  <2>1. TypeOK'
    <3>1. todo' \in Seq(Subscribers)
      <4>1. <<>> \in Seq(Subscribers) /\ todo \in Seq(Subscribers)
        BY SeqType DEF TypeOK
      <4>2. todo' \in {<<>>, todo}
        BY <1>11 DEF Backoff, ReleaseLifecycle
      <4>3. QED BY <4>1, <4>2
    <3>2. QED BY <1>11, <3>1 DEF TypeOK, Backoff, ReleaseLifecycle
  <2>2. SendDiscipline'
    BY <1>11 DEF TypeOK, SendDiscipline, NoOrphanedRequest, Backoff, ReleaseLifecycle
  <2>3. NoOrphanedRequest'
    BY <1>11 DEF TypeOK, NoOrphanedRequest, LifeOK, Backoff, ReleaseLifecycle
  <2>4. LifeOK'
    BY <1>11 DEF TypeOK, NoOrphanedRequest, LifeOK, Backoff, ReleaseLifecycle
  <2>5. QED BY <2>1, <2>2, <2>3, <2>4
<1>12. ASSUME NEW c \in Conns, DialOk(c) PROVE IInv'
  <2>1. TypeOK'
    BY <1>12 DEF TypeOK, DialOk, Unused
  <2>2. SendDiscipline'
    BY <1>12 DEF TypeOK, SendDiscipline, NoOrphanedRequest, DialOk, Unused
  <2>3. NoOrphanedRequest'
    BY <1>12 DEF TypeOK, NoOrphanedRequest, LifeOK, DialOk, Unused
  <2>4. LifeOK'
    BY <1>12 DEF TypeOK, NoOrphanedRequest, LifeOK, DialOk, Unused
  <2>5. QED BY <2>1, <2>2, <2>3, <2>4
<1>13. ASSUME DialFails PROVE IInv'
  <2>1. TypeOK'
    <3>1. todo' \in Seq(Subscribers)
      <4>1. <<>> \in Seq(Subscribers) /\ todo \in Seq(Subscribers)
        BY SeqType DEF TypeOK
      <4>2. todo' \in {<<>>, todo}
        BY <1>13 DEF DialFails, AttemptFailed, ReleaseLifecycle, States
      <4>3. QED BY <4>1, <4>2
    <3>2. QED BY <1>13, <3>1
              DEF TypeOK, DialFails, AttemptFailed, ReleaseLifecycle, States
  <2>2. SendDiscipline'
    BY <1>13
    DEF TypeOK, SendDiscipline, NoOrphanedRequest, DialFails, AttemptFailed,
        ReleaseLifecycle, States
  <2>3. NoOrphanedRequest'
    BY <1>13
    DEF TypeOK, NoOrphanedRequest, LifeOK, DialFails, AttemptFailed, ReleaseLifecycle,
        States
  <2>4. LifeOK'
    BY <1>13
    DEF TypeOK, NoOrphanedRequest, LifeOK, DialFails, AttemptFailed, ReleaseLifecycle,
        States
  <2>5. QED BY <2>1, <2>2, <2>3, <2>4
<1>14. ASSUME HandshakeReturns PROVE IInv'
  <2>1. TypeOK'
    BY <1>14 DEF TypeOK, HandshakeReturns, Release, Finished, Answered
  <2>2. SendDiscipline'
    BY <1>14
    DEF TypeOK, SendDiscipline, NoOrphanedRequest, HandshakeReturns, Release, Finished,
        Answered
  <2>3. NoOrphanedRequest'
    BY <1>14
    DEF TypeOK, NoOrphanedRequest, LifeOK, HandshakeReturns, Release, Finished, Answered
  <2>4. LifeOK'
    BY <1>14
    DEF TypeOK, NoOrphanedRequest, LifeOK, HandshakeReturns, Release, Finished, Answered
  <2>5. QED BY <2>1, <2>2, <2>3, <2>4
<1>15. ASSUME ReplayReturns PROVE IInv'
  <2>1. TypeOK'
    <3>1. todo' \in Seq(Subscribers)
      BY <1>15, SeqType DEF TypeOK, ReplayReturns, LifeOK
    <3>2. QED BY <1>15, <3>1 DEF TypeOK, ReplayReturns, Release
  <2>2. SendDiscipline'
    BY <1>15
    DEF TypeOK, SendDiscipline, NoOrphanedRequest, ReplayReturns, Release, Finished
  <2>3. NoOrphanedRequest'
    BY <1>15 DEF TypeOK, NoOrphanedRequest, LifeOK, ReplayReturns, Release, Finished
  <2>4. LifeOK'
    BY <1>15 DEF TypeOK, NoOrphanedRequest, LifeOK, ReplayReturns, Release, Finished
  <2>5. QED BY <2>1, <2>2, <2>3, <2>4
<1>16. ASSUME Publish PROVE IInv'
  <2>1. TypeOK'
    BY <1>16 DEF TypeOK, Publish, ReleaseLifecycle, States
  <2>2. SendDiscipline'
    BY <1>16
    DEF TypeOK, SendDiscipline, NoOrphanedRequest, Publish, ReleaseLifecycle, States
  <2>3. NoOrphanedRequest'
    BY <1>16 DEF TypeOK, NoOrphanedRequest, LifeOK, Publish, ReleaseLifecycle, States
  <2>4. LifeOK'
    BY <1>16 DEF TypeOK, NoOrphanedRequest, LifeOK, Publish, ReleaseLifecycle, States
  <2>5. QED BY <2>1, <2>2, <2>3, <2>4
<1>17. ASSUME SendBye PROVE IInv'
  <2>1. TypeOK'
    <3>1. /\ live' \in [Conns -> BOOLEAN] /\ muddled' \in [Conns -> BOOLEAN]
          /\ inbox' \in [Conns -> Seq(Messages)]
          /\ session' \in [Conns -> SUBSET {"started", "subscribed"}]
      BY <1>17, NetworkType DEF SendBye, Messages
    <3>2. QED BY <1>17, <3>1 DEF TypeOK, SendBye
  <2>2. SendDiscipline'
    BY <1>17 DEF TypeOK, SendDiscipline, NoOrphanedRequest, SendBye
  <2>3. NoOrphanedRequest'
    BY <1>17 DEF TypeOK, NoOrphanedRequest, LifeOK, SendBye
  <2>4. LifeOK'
    BY <1>17 DEF TypeOK, NoOrphanedRequest, LifeOK, SendBye
  <2>5. QED BY <2>1, <2>2, <2>3, <2>4
<1>18. ASSUME ByeReturns PROVE IInv'
  <2>1. TypeOK'
    BY <1>18 DEF TypeOK, ByeReturns, Release
  <2>2. SendDiscipline'
    BY <1>18 DEF TypeOK, SendDiscipline, NoOrphanedRequest, ByeReturns, Release
  <2>3. NoOrphanedRequest'
    BY <1>18 DEF TypeOK, NoOrphanedRequest, LifeOK, ByeReturns, Release
  <2>4. LifeOK'
    BY <1>18 DEF TypeOK, NoOrphanedRequest, LifeOK, ByeReturns, Release
  <2>5. QED BY <2>1, <2>2, <2>3, <2>4
<1>19. ASSUME Detach PROVE IInv'
  <2>1. TypeOK'
    BY <1>19 DEF TypeOK, Detach
  <2>2. SendDiscipline'
    BY <1>19 DEF TypeOK, SendDiscipline, NoOrphanedRequest, Detach
  <2>3. NoOrphanedRequest'
    BY <1>19 DEF TypeOK, NoOrphanedRequest, LifeOK, Detach
  <2>4. LifeOK'
    BY <1>19 DEF TypeOK, NoOrphanedRequest, LifeOK, Detach
  <2>5. QED BY <2>1, <2>2, <2>3, <2>4
<1>20. ASSUME CloseSocket PROVE IInv'
  <2>1. TypeOK'
    BY <1>20 DEF TypeOK, CloseSocket, SocketClosed
  <2>2. SendDiscipline'
    BY <1>20 DEF TypeOK, SendDiscipline, NoOrphanedRequest, CloseSocket, SocketClosed
  <2>3. NoOrphanedRequest'
    BY <1>20 DEF TypeOK, NoOrphanedRequest, LifeOK, CloseSocket, SocketClosed
  <2>4. LifeOK'
    BY <1>20 DEF TypeOK, NoOrphanedRequest, LifeOK, CloseSocket, SocketClosed
  <2>5. QED BY <2>1, <2>2, <2>3, <2>4
<1>21. ASSUME TornDown PROVE IInv'
  <2>1. TypeOK'
    <3>1. todo' \in Seq(Subscribers)
      <4>1. <<>> \in Seq(Subscribers) /\ todo \in Seq(Subscribers)
        BY SeqType DEF TypeOK
      <4>2. todo' \in {<<>>, todo}
        BY <1>21 DEF TornDown, AttemptFailed, ReleaseLifecycle
      <4>3. QED BY <4>1, <4>2
    <3>2. /\ responseTcs' \in Requesters \cup {NoOne}
          /\ tcs' \in [Requesters -> {"none", "pending"} \cup Messages \cup Failures]
      BY <1>21 DEF TypeOK, TornDown, FailPending, Failures
    <3>3. QED
      BY <1>21, <3>1, <3>2
      DEF TypeOK, TornDown, AttemptFailed, ReleaseLifecycle, States
  <2>2. SendDiscipline'
    BY <1>21
    DEF TypeOK, SendDiscipline, NoOrphanedRequest, TornDown, AttemptFailed,
        ReleaseLifecycle, FailPending, Failures, States
  <2>3. NoOrphanedRequest'
    <3>1. CASE op = "disconnect"
      BY <1>21, <3>1 DEF TypeOK, NoOrphanedRequest, TornDown, FailPending
    <3>2. CASE op # "disconnect"
      BY <1>21, <3>2 DEF NoOrphanedRequest, TornDown
    <3>3. QED BY <3>1, <3>2
  <2>4. LifeOK'
    BY <1>21
    DEF TypeOK, NoOrphanedRequest, LifeOK, TornDown, AttemptFailed, ReleaseLifecycle,
        FailPending, Failures, States
  <2>5. QED BY <2>1, <2>2, <2>3, <2>4
<1>22. ASSUME NEW c \in Conns, Drop(c) PROVE IInv'
  <2>1. TypeOK'
    <3>1. inbox' \in [Conns -> Seq(Messages)]
      <4>1. inbox \in [Conns -> Seq(Messages)] /\ <<>> \in Seq(Messages)
        BY SeqType DEF TypeOK
      <4>2. inbox' = inbox \/ inbox' = [inbox EXCEPT ![c] = <<>>]
        BY <1>22 DEF Drop
      <4>3. QED BY <4>1, <4>2
    <3>2. /\ live' \in [Conns -> BOOLEAN]
          /\ session' \in [Conns -> SUBSET {"started", "subscribed"}]
      BY <1>22 DEF TypeOK, Drop
    <3>3. QED BY <1>22, <3>1, <3>2 DEF TypeOK, Drop
  <2>2. SendDiscipline'
    BY <1>22 DEF TypeOK, SendDiscipline, NoOrphanedRequest, Drop
  <2>3. NoOrphanedRequest'
    BY <1>22 DEF TypeOK, NoOrphanedRequest, LifeOK, Drop
  <2>4. LifeOK'
    BY <1>22 DEF TypeOK, NoOrphanedRequest, LifeOK, Drop
  <2>5. QED BY <2>1, <2>2, <2>3, <2>4
<1>23. ASSUME NEW c \in Conns, ServerPush(c) PROVE IInv'
  <2>1. TypeOK'
    <3>1. inbox' \in [Conns -> Seq(Messages)]
      BY <1>23, SeqType DEF TypeOK, ServerPush, Messages
    <3>2. QED BY <1>23, <3>1 DEF TypeOK, ServerPush
  <2>2. SendDiscipline'
    BY <1>23 DEF TypeOK, SendDiscipline, NoOrphanedRequest, ServerPush
  <2>3. NoOrphanedRequest'
    BY <1>23 DEF TypeOK, NoOrphanedRequest, LifeOK, ServerPush
  <2>4. LifeOK'
    BY <1>23 DEF TypeOK, NoOrphanedRequest, LifeOK, ServerPush
  <2>5. QED BY <2>1, <2>2, <2>3, <2>4
<1>24. ASSUME NEW c \in Conns, Receive(c) PROVE IInv'
  <2>1. TypeOK'
    <3>1. inbox' \in [Conns -> Seq(Messages)] /\ Head(inbox[c]) \in Messages
      BY <1>24, SeqType DEF TypeOK, Receive
    <3>2. Cardinality(handlers) \in Nat
      BY CallersAssumption, FS_Subset, FS_CardinalityType DEF TypeOK
    <3>3. acks' \in Nat
      BY <1>24, <3>2 DEF TypeOK, Receive
    <3>4. /\ responseTcs' \in Requesters \cup {NoOne}
          /\ tcs' \in [Requesters -> {"none", "pending"} \cup Messages \cup Failures]
      <4>1. CASE UNCHANGED <<responseTcs, tcs>>
        BY <4>1 DEF TypeOK
      <4>2. CASE responseTcs' = NoOne /\ tcs' = tcs
        BY <4>2 DEF TypeOK
      <4>3. CASE /\ responseTcs \in Requesters /\ responseTcs' = NoOne
                 /\ tcs' = [tcs EXCEPT ![responseTcs] = Head(inbox[c])]
        BY <4>3, <3>1 DEF TypeOK
      <4>4. QED BY <1>24, <4>1, <4>2, <4>3 DEF Receive, TypeOK
    <3>5. QED BY <1>24, <3>1, <3>3, <3>4 DEF TypeOK, Receive
  <2>2. SendDiscipline'
    BY <1>24 DEF TypeOK, SendDiscipline, NoOrphanedRequest, Receive
  <2>3. NoOrphanedRequest'
    BY <1>24 DEF TypeOK, NoOrphanedRequest, LifeOK, Receive
  <2>4. LifeOK'
    BY <1>24 DEF TypeOK, NoOrphanedRequest, LifeOK, Receive
  <2>5. QED BY <2>1, <2>2, <2>3, <2>4
<1>25. ASSUME NEW c \in Conns, ReceiveEnds(c) PROVE IInv'
  <2>1. TypeOK'
    BY <1>25 DEF TypeOK, ReceiveEnds
  <2>2. SendDiscipline'
    BY <1>25 DEF TypeOK, SendDiscipline, NoOrphanedRequest, ReceiveEnds
  <2>3. NoOrphanedRequest'
    BY <1>25 DEF TypeOK, NoOrphanedRequest, LifeOK, ReceiveEnds
  <2>4. LifeOK'
    BY <1>25 DEF TypeOK, NoOrphanedRequest, LifeOK, ReceiveEnds
  <2>5. QED BY <2>1, <2>2, <2>3, <2>4
<1>26. ASSUME NEW c \in Conns, OnDisconnectedCheck(c) PROVE IInv'
  <2>1. TypeOK'
    BY <1>26 DEF TypeOK, OnDisconnectedCheck
  <2>2. SendDiscipline'
    BY <1>26 DEF TypeOK, SendDiscipline, NoOrphanedRequest, OnDisconnectedCheck
  <2>3. NoOrphanedRequest'
    BY <1>26 DEF TypeOK, NoOrphanedRequest, LifeOK, OnDisconnectedCheck
  <2>4. LifeOK'
    BY <1>26 DEF TypeOK, NoOrphanedRequest, LifeOK, OnDisconnectedCheck
  <2>5. QED BY <2>1, <2>2, <2>3, <2>4
<1>27. ASSUME NEW c \in Conns, OnDisconnectedMark(c) PROVE IInv'
  <2>1. TypeOK'
    BY <1>27 DEF TypeOK, OnDisconnectedMark, States
  <2>2. SendDiscipline'
    BY <1>27 DEF TypeOK, SendDiscipline, NoOrphanedRequest, OnDisconnectedMark, States
  <2>3. NoOrphanedRequest'
    BY <1>27 DEF TypeOK, NoOrphanedRequest, LifeOK, OnDisconnectedMark, States
  <2>4. LifeOK'
    BY <1>27 DEF TypeOK, NoOrphanedRequest, LifeOK, OnDisconnectedMark, States
  <2>5. QED BY <2>1, <2>2, <2>3, <2>4
<1>28. ASSUME NEW c \in Conns, OnDisconnectedFail(c) PROVE IInv'
  <2>1. TypeOK'
    BY <1>28 DEF TypeOK, OnDisconnectedFail, FailPending, Muddle, Failures
  <2>2. SendDiscipline'
    BY <1>28
    DEF TypeOK, SendDiscipline, NoOrphanedRequest, OnDisconnectedFail, FailPending,
        Muddle, Failures
  <2>3. NoOrphanedRequest'
    BY <1>28
    DEF TypeOK, NoOrphanedRequest, LifeOK, OnDisconnectedFail, FailPending, Muddle,
        Failures
  <2>4. LifeOK'
    BY <1>28
    DEF TypeOK, NoOrphanedRequest, LifeOK, OnDisconnectedFail, FailPending, Muddle,
        Failures
  <2>5. QED BY <2>1, <2>2, <2>3, <2>4
<1>29. ASSUME NEW c \in Conns, KeepAliveDue(c) PROVE IInv'
  <2>1. TypeOK'
    BY <1>29 DEF TypeOK, KeepAliveDue
  <2>2. SendDiscipline'
    BY <1>29 DEF TypeOK, SendDiscipline, NoOrphanedRequest, KeepAliveDue
  <2>3. NoOrphanedRequest'
    BY <1>29 DEF TypeOK, NoOrphanedRequest, LifeOK, KeepAliveDue
  <2>4. LifeOK'
    BY <1>29 DEF TypeOK, NoOrphanedRequest, LifeOK, KeepAliveDue
  <2>5. QED BY <2>1, <2>2, <2>3, <2>4
<1>30. ASSUME NEW c \in Conns, KeepAliveAcquire(c) PROVE IInv'
  <2>1. TypeOK'
    BY <1>30 DEF TypeOK, KeepAliveAcquire
  <2>2. SendDiscipline'
    BY <1>30 DEF TypeOK, SendDiscipline, NoOrphanedRequest, KeepAliveAcquire
  <2>3. NoOrphanedRequest'
    BY <1>30 DEF TypeOK, NoOrphanedRequest, LifeOK, KeepAliveAcquire
  <2>4. LifeOK'
    BY <1>30 DEF TypeOK, NoOrphanedRequest, LifeOK, KeepAliveAcquire
  <2>5. QED BY <2>1, <2>2, <2>3, <2>4
<1>31. ASSUME NEW c \in Conns, KeepAliveSend(c) PROVE IInv'
  <2>1. TypeOK'
    <3>1. /\ live' \in [Conns -> BOOLEAN] /\ muddled' \in [Conns -> BOOLEAN]
          /\ inbox' \in [Conns -> Seq(Messages)]
          /\ session' \in [Conns -> SUBSET {"started", "subscribed"}]
      BY <1>31, NetworkType DEF KeepAliveSend, Messages
    <3>2. ka' \in [Conns -> {"off", "sleep", "queued", "send", "stopping"}]
      BY <1>31 DEF TypeOK, KeepAliveSend
    <3>3. QED BY <1>31, <3>1, <3>2 DEF TypeOK, KeepAliveSend, Release
  <2>2. SendDiscipline'
    <3>1. sendHolder = KeepAlive /\ \A d \in Conns : d # c => ka[d] \notin {"send", "stopping"}
      BY <1>31 DEF SendDiscipline, KeepAliveSend
    <3>2. ka'[c] \notin {"send", "stopping"} /\ \A d \in Conns : d # c => ka'[d] = ka[d]
      BY <1>31 DEF TypeOK, KeepAliveSend
    <3>3. responseTcs = NoOne /\ \A p \in Requesters : pc[p] \notin {"send", "await"}
      BY <3>1 DEF SendDiscipline, TypeOK
    <3>4. QED
      BY <1>31, <3>1, <3>2, <3>3 DEF SendDiscipline, KeepAliveSend
  <2>3. NoOrphanedRequest'
    BY <1>31 DEF TypeOK, NoOrphanedRequest, LifeOK, KeepAliveSend, Release
  <2>4. LifeOK'
    BY <1>31 DEF TypeOK, NoOrphanedRequest, LifeOK, KeepAliveSend, Release
  <2>5. QED BY <2>1, <2>2, <2>3, <2>4
<1>32. ASSUME AckAcquire PROVE IInv'
  <2>1. TypeOK'
    BY <1>32 DEF TypeOK, AckAcquire
  <2>2. SendDiscipline'
    BY <1>32 DEF TypeOK, SendDiscipline, NoOrphanedRequest, AckAcquire
  <2>3. NoOrphanedRequest'
    BY <1>32 DEF TypeOK, NoOrphanedRequest, LifeOK, AckAcquire
  <2>4. LifeOK'
    BY <1>32 DEF TypeOK, NoOrphanedRequest, LifeOK, AckAcquire
  <2>5. QED BY <2>1, <2>2, <2>3, <2>4
<1>33. ASSUME AckSend PROVE IInv'
  <2>1. TypeOK'
    BY <1>33 DEF TypeOK, AckSend, Release
  <2>2. SendDiscipline'
    BY <1>33 DEF TypeOK, SendDiscipline, NoOrphanedRequest, AckSend, Release
  <2>3. NoOrphanedRequest'
    BY <1>33 DEF TypeOK, NoOrphanedRequest, LifeOK, AckSend, Release
  <2>4. LifeOK'
    BY <1>33 DEF TypeOK, NoOrphanedRequest, LifeOK, AckSend, Release
  <2>5. QED BY <2>1, <2>2, <2>3, <2>4
<1>34. ASSUME Dispose PROVE IInv'
  <2>1. TypeOK'
    BY <1>34 DEF TypeOK, Dispose, FailPending, SocketClosed, Failures
  <2>2. SendDiscipline'
    BY <1>34
    DEF TypeOK, SendDiscipline, NoOrphanedRequest, Dispose, FailPending, SocketClosed,
        Failures
  <2>3. NoOrphanedRequest'
    BY <1>34
    DEF TypeOK, NoOrphanedRequest, LifeOK, Dispose, FailPending, SocketClosed, Failures
  <2>4. LifeOK'
    BY <1>34
    DEF TypeOK, NoOrphanedRequest, LifeOK, Dispose, FailPending, SocketClosed, Failures
  <2>5. QED BY <2>1, <2>2, <2>3, <2>4
<1>35. CASE UNCHANGED vars
  BY <1>35 DEF vars, TypeOK, SendDiscipline, NoOrphanedRequest, LifeOK
<1>36. QED
  BY <1>1, <1>2, <1>3, <1>4, <1>5, <1>6, <1>7, <1>8, <1>9, <1>10, <1>11, <1>12, <1>13,
     <1>14, <1>15, <1>16, <1>17, <1>18, <1>19, <1>20, <1>21, <1>22, <1>23, <1>24, <1>25,
     <1>26, <1>27, <1>28, <1>29, <1>30, <1>31, <1>32, <1>33, <1>34, <1>35
  DEF Next, SendSteps, LifeSteps, ConnSteps, Environment

\* The inductive invariant holds in every reachable state.
LEMMA Inductive == Spec => []IInv
BY InitIInv, NextIInv, PTL DEF Spec

\* The variables of the endpoint keep their types.
THEOREM TypeCorrect == Spec => []TypeOK
<1>1. IInv => TypeOK
  BY DEF IInv
<1>2. QED BY <1>1, Inductive, PTL

\* SendDiscipline: _sendLock excludes, _responseTcs belongs to its holder, and
\* SendAndWaitCoreAsync never finds _responseTcs in use.
THEOREM SendLockSafe == Spec => []SendDiscipline
<1>1. IInv => SendDiscipline
  BY DEF IInv
<1>2. QED BY <1>1, Inductive, PTL

\* NoOrphanedRequest: a pending request is always the one that _responseTcs names,
\* whichever of response, timeout, drop, DisconnectAsync and Dispose come first.
THEOREM NoRequestOrphaned == Spec => []NoOrphanedRequest
<1>1. IInv => NoOrphanedRequest
  BY DEF IInv
<1>2. QED BY <1>1, Inductive, PTL

\* StoppedIsSticky: no reconnect loop and no attempt under way undoes
\* DisconnectAsync; only ConnectAsync and a late OnDisconnected do.
THEOREM StoppedStays == Spec => StoppedIsSticky
<1> DEFINE Sticky == state = "Stopped" /\ state' # "Stopped"
                       => \/ op' = "connect"
                          \/ \E c \in Conns : rx[c] = "mark" /\ rx'[c] = "fail"
<1>1. IInv /\ [Next]_vars => [Sticky]_vars
  <2> SUFFICES ASSUME IInv, [Next]_vars, state = "Stopped", state' # "Stopped"
               PROVE  Sticky
    OBVIOUS
  <2>1. CASE BeginConnect
    BY <2>1 DEF BeginConnect
  <2>2. ASSUME NEW c \in Conns, OnDisconnectedMark(c) PROVE Sticky
    BY <2>2 DEF OnDisconnectedMark, IInv, TypeOK
  <2>3. CASE BeginReconnect
    BY <2>3 DEF BeginReconnect
  <2>4. CASE DialFails
    BY <2>4 DEF DialFails, AttemptFailed, IInv, LifeOK
  <2>5. CASE Publish
    BY <2>5 DEF Publish, IInv, LifeOK, TypeOK
  <2>6. CASE TornDown
    BY <2>6 DEF TornDown, AttemptFailed, IInv, LifeOK
  <2>7. CASE BeginDisconnect
    BY <2>7 DEF BeginDisconnect
  <2>8. QED
    BY <2>1, <2>2, <2>3, <2>4, <2>5, <2>6, <2>7
    DEF Next, SendSteps, LifeSteps, ConnSteps, Environment, vars, Call, Acquire,
        SendRequest, GiveUp, LeaveQueue, Return, Register, Backoff, DialOk,
        HandshakeReturns, ReplayReturns, SendBye, ByeReturns, Detach, CloseSocket,
        Drop, ServerPush, Receive, ReceiveEnds, OnDisconnectedCheck,
        OnDisconnectedFail, KeepAliveDue, KeepAliveAcquire, KeepAliveSend,
        AckAcquire, AckSend, Dispose
<1>2. QED BY <1>1, Inductive, PTL DEF Spec, StoppedIsSticky

-----------------------------------------------------------------------------
(***************************************************************************)
(* The connections: there is one at a time, it is Connected only after its *)
(* handshake, and DisconnectAsync leaves nothing of it.                    *)
(***************************************************************************)
\* Which connection can be up, or still notify, at each point of the lifecycle: an
\* attempt begins only when the connection before it is dead and has notified.
ConnOK ==
  /\ NoForgottenConnection
  /\ closing # NoConn => step = "awaitReceive" /\ rx[closing] # "run"
  /\ step \in {"awaitReceive", "awaitKeepAlive"} => connection = NoConn
  /\ ~disposed =>
       \A c \in Conns : rx[c] \in {"run", "check", "mark"} => c \in {connection, closing}
  /\ Up => rx[connection] = "run"
  /\ \/ step \in {"delay", "dial"}
     \/ op = "none" /\ ~disposed /\ state \notin {"Connected", "Connecting"}
     => connection = NoConn \/ rx[connection] \in {"fail", "done"}

\* The keep-alive loops other than _keepAliveTask are over or in their last write, and
\* nothing is left in Stopped.
QuietOK ==
  /\ \A c \in Conns : ka[c] \in {"sleep", "queued", "send"} => c = keepAliveTask
  /\ step = "awaitKeepAlive" /\ keepAliveTask # NoConn
       => ka[keepAliveTask] \in {"off", "stopping"}
  /\ state = "Stopped" /\ op = "none" =>
       /\ connection = NoConn /\ keepAliveTask = NoConn
       /\ \A p \in Requesters : ~(pc[p] = "await" /\ tcs[p] = "pending")

\* The current connection, if it is up, has been through MID0001.
Begun == Up => "started" \in session[connection]

\* How far the attempt of the holder of _lifecycleLock is.
HandshakeOK ==
  /\ op # "none" => state # "Connected"
  /\ step = "handshake" /\ pc[Life] = "await" => Begun
  /\ step = "handshake" /\ pc[Life] = "return" => tcs[Life] \in Failures
  /\ step \in {"replay", "publish"} => Begun
  /\ state = "Connected" => Begun

\* A step that leaves the connections and the lifecycle alone.
connVars == <<live, closing, step, connection, rx, op, state, disposed>>

\* ConnOK is preserved by every step.
LEMMA ConnNext == IInv /\ ConnOK /\ [Next]_vars => ConnOK'
<1> SUFFICES ASSUME IInv, ConnOK, [Next]_vars PROVE ConnOK'
  OBVIOUS
<1> USE ConnsAssumption, NamesDistinct
        DEF IInv, sendVars, lifeVars, netVars, kaVars, subVars, endVars
<1>1. ASSUME UNCHANGED connVars PROVE ConnOK'
  BY <1>1 DEF connVars, ConnOK, NoForgottenConnection, Up
<1>2. ASSUME NEW p \in Requesters, SendSteps(p) \/ LeaveQueue(p) \/ Call(p)
      PROVE  UNCHANGED connVars
  BY <1>2 DEF connVars, SendSteps, Call, Acquire, SendRequest, GiveUp, Return, Register,
              LeaveQueue, Delivered, Vanished, Refused
<1>3. ASSUME NEW c \in Conns, \/ Receive(c) \/ KeepAliveAcquire(c) \/ KeepAliveSend(c)
                              \/ ServerPush(c) \/ KeepAliveDue(c)
      PROVE  UNCHANGED connVars
  BY <1>3 DEF connVars, Receive, KeepAliveAcquire, KeepAliveSend, ServerPush, KeepAliveDue,
              Delivered, Vanished, Refused
<1>4. ASSUME AckAcquire \/ AckSend \/ SendBye PROVE UNCHANGED connVars
  BY <1>4 DEF connVars, AckAcquire, AckSend, SendBye, Delivered, Vanished, Refused
<1>5. CASE BeginConnect
  BY <1>5 DEF BeginConnect, ConnOK, NoForgottenConnection, Up, LifeOK
<1>6. CASE BeginDisconnect
  BY <1>6 DEF BeginDisconnect, ConnOK, NoForgottenConnection, Up, LifeOK
<1>7. CASE BeginReconnect
  BY <1>7 DEF BeginReconnect, ConnOK, NoForgottenConnection, Up, LifeOK
<1>8. CASE Backoff
  BY <1>8 DEF Backoff, ReleaseLifecycle, ConnOK, NoForgottenConnection, Up, LifeOK
<1>9. ASSUME NEW c \in Conns, DialOk(c) PROVE ConnOK'
  BY <1>9 DEF DialOk, Unused, ConnOK, NoForgottenConnection, Up, LifeOK, TypeOK
<1>10. CASE DialFails
  BY <1>10 DEF DialFails, AttemptFailed, ReleaseLifecycle, ConnOK, NoForgottenConnection, Up,
               LifeOK
<1>11. CASE HandshakeReturns
  BY <1>11 DEF HandshakeReturns, ConnOK, NoForgottenConnection, Up, LifeOK
<1>12. CASE ReplayReturns
  BY <1>12 DEF ReplayReturns, ConnOK, NoForgottenConnection, Up, LifeOK
<1>13. CASE Publish
  BY <1>13 DEF Publish, ReleaseLifecycle, ConnOK, NoForgottenConnection, Up, LifeOK
<1>14. CASE ByeReturns
  BY <1>14 DEF ByeReturns, ConnOK, NoForgottenConnection, Up, LifeOK
<1>15. CASE Detach
  BY <1>15 DEF Detach, ConnOK, NoForgottenConnection, Up, LifeOK, TypeOK
<1>16. CASE CloseSocket
  BY <1>16 DEF CloseSocket, SocketClosed, ConnOK, NoForgottenConnection, Up, LifeOK, TypeOK
<1>17. CASE TornDown
  BY <1>17 DEF TornDown, AttemptFailed, ReleaseLifecycle, ConnOK, NoForgottenConnection, Up,
               LifeOK
<1>18. ASSUME NEW c \in Conns, Drop(c) PROVE ConnOK'
  BY <1>18 DEF Drop, ConnOK, NoForgottenConnection, Up, LifeOK, TypeOK
<1>19. ASSUME NEW c \in Conns, ReceiveEnds(c) PROVE ConnOK'
  BY <1>19 DEF ReceiveEnds, ConnOK, NoForgottenConnection, Up, LifeOK, TypeOK
<1>20. ASSUME NEW c \in Conns, OnDisconnectedCheck(c) PROVE ConnOK'
  BY <1>20 DEF OnDisconnectedCheck, ConnOK, NoForgottenConnection, Up, LifeOK, TypeOK
<1>21. ASSUME NEW c \in Conns, OnDisconnectedMark(c) PROVE ConnOK'
  BY <1>21 DEF OnDisconnectedMark, ConnOK, NoForgottenConnection, Up, LifeOK, TypeOK
<1>22. ASSUME NEW c \in Conns, OnDisconnectedFail(c) PROVE ConnOK'
  BY <1>22 DEF OnDisconnectedFail, ConnOK, NoForgottenConnection, Up, LifeOK, TypeOK
<1>23. CASE Dispose
  BY <1>23 DEF Dispose, SocketClosed, ConnOK, NoForgottenConnection, Up, LifeOK, TypeOK
<1>24. CASE UNCHANGED vars
  BY <1>24, <1>1 DEF vars, connVars
<1>25. QED
  BY <1>1, <1>2, <1>3, <1>4, <1>5, <1>6, <1>7, <1>8, <1>9, <1>10, <1>11, <1>12, <1>13,
     <1>14, <1>15, <1>16, <1>17, <1>18, <1>19, <1>20, <1>21, <1>22, <1>23, <1>24
  DEF Next, LifeSteps, ConnSteps, Environment, Requesters

\* A write of p, of MID0003 or of a keep-alive keeps what is begun.
LEMMA BegunKept ==
  ASSUME TypeOK, Begun, NEW m, NEW a \in SUBSET {"started", "subscribed"}, NEW w \in BOOLEAN,
         Delivered(m, a, w) \/ Vanished \/ Refused, UNCHANGED connection
  PROVE  Begun'
BY DEF TypeOK, Begun, Up, Delivered, Vanished, Refused, netVars

\* A step that leaves the keep-alive loops and the lifecycle alone.
quietVars == <<ka, keepAliveTask, step, state, op, connection>>

\* QuietOK is preserved by every step.
LEMMA QuietNext == IInv /\ ConnOK /\ QuietOK /\ [Next]_vars => QuietOK'
<1> SUFFICES ASSUME IInv, ConnOK, QuietOK, [Next]_vars PROVE QuietOK'
  OBVIOUS
<1> USE ConnsAssumption, NamesDistinct
        DEF IInv, sendVars, lifeVars, netVars, kaVars, subVars, endVars
<1> DEFINE Awaits(p) == pc[p] = "await" /\ tcs[p] = "pending"
<1>1. ASSUME UNCHANGED quietVars, \A p \in Requesters : Awaits(p)' => Awaits(p)
      PROVE  QuietOK'
  BY <1>1 DEF quietVars, QuietOK
<1>2. ASSUME NEW p \in Requesters, SendRequest(p) PROVE QuietOK'
  BY <1>2 DEF SendRequest, Delivered, Vanished, Up, QuietOK, TypeOK
<1>3. ASSUME NEW p \in Requesters,
             Acquire(p) \/ GiveUp(p) \/ Return(p) \/ Register(p) \/ LeaveQueue(p) \/ Call(p)
      PROVE  QuietOK'
  <2>1. \A q \in Requesters : Awaits(q)' => Awaits(q)
    BY <1>3 DEF Acquire, GiveUp, Return, Register, LeaveQueue, Call, TypeOK
  <2>2. UNCHANGED quietVars
    BY <1>3 DEF quietVars, Acquire, GiveUp, Return, Register, LeaveQueue, Call
  <2>3. QED BY <2>1, <2>2, <1>1
<1>4. ASSUME NEW c \in Conns,
             \/ Drop(c) \/ ServerPush(c) \/ ReceiveEnds(c) \/ OnDisconnectedCheck(c)
      PROVE  QuietOK'
  BY <1>4, <1>1 DEF quietVars, Drop, ServerPush, ReceiveEnds, OnDisconnectedCheck
<1>5. ASSUME NEW c \in Conns, Receive(c) PROVE QuietOK'
  <2>1. \A m \in Messages : m # "pending"
    OBVIOUS
  <2>2. Head(inbox[c]) \in Messages
    BY <1>5, SeqType DEF Receive, TypeOK
  <2>3. \A q \in Requesters : Awaits(q)' => Awaits(q)
    BY <1>5, <2>1, <2>2 DEF Receive, TypeOK
  <2>4. QED BY <1>5, <2>3, <1>1 DEF quietVars, Receive
<1>6. ASSUME NEW c \in Conns, OnDisconnectedMark(c) PROVE QuietOK'
  BY <1>6 DEF OnDisconnectedMark, QuietOK
<1>7. ASSUME NEW c \in Conns, OnDisconnectedFail(c) PROVE QuietOK'
  <2>1. \A q \in Requesters : Awaits(q)' => Awaits(q)
    BY <1>7 DEF OnDisconnectedFail, FailPending, TypeOK
  <2>2. QED BY <1>7, <2>1, <1>1 DEF quietVars, OnDisconnectedFail
<1>8. ASSUME NEW c \in Conns, KeepAliveDue(c) \/ KeepAliveAcquire(c) \/ KeepAliveSend(c)
      PROVE  QuietOK'
  BY <1>8 DEF KeepAliveDue, KeepAliveAcquire, KeepAliveSend, Delivered, Vanished, Refused,
              QuietOK, TypeOK
<1>9. CASE AckAcquire \/ AckSend
  BY <1>9, <1>1 DEF AckAcquire, AckSend, quietVars
<1>10. CASE BeginConnect \/ BeginDisconnect \/ BeginReconnect
  <2>1. CASE BeginConnect
    BY <2>1 DEF BeginConnect, QuietOK
  <2>2. CASE BeginDisconnect
    BY <2>2 DEF BeginDisconnect, QuietOK
  <2>3. CASE BeginReconnect
    BY <2>3 DEF BeginReconnect, QuietOK
  <2>4. QED BY <1>10, <2>1, <2>2, <2>3
<1>11. CASE Backoff
  BY <1>11 DEF Backoff, ReleaseLifecycle, QuietOK, LifeOK, TypeOK
<1>12. ASSUME NEW c \in Conns, DialOk(c) PROVE QuietOK'
  <2>1. \A d \in Conns : CancelledKeepAlive[d] \notin {"sleep", "queued", "send"}
    BY DEF CancelledKeepAlive, QuietOK, TypeOK
  <2>2. \A d \in Conns : ka'[d] \in {"sleep", "queued", "send"} => d = keepAliveTask'
    BY <1>12, <2>1 DEF DialOk
  <2>3. step' = "handshake" /\ UNCHANGED <<state, op>> /\ op # "none"
    BY <1>12 DEF DialOk, LifeOK
  <2>4. QED BY <2>2, <2>3 DEF QuietOK
<1>13. CASE DialFails \/ Publish
  BY <1>13 DEF DialFails, Publish, AttemptFailed, ReleaseLifecycle, QuietOK, LifeOK
<1>14. CASE HandshakeReturns \/ ReplayReturns
  BY <1>14 DEF HandshakeReturns, ReplayReturns, QuietOK, LifeOK
<1>15. CASE SendBye
  BY <1>15 DEF SendBye, QuietOK, LifeOK
<1>16. CASE ByeReturns
  BY <1>16 DEF ByeReturns, QuietOK, LifeOK
<1>17. CASE Detach
  BY <1>17 DEF Detach, QuietOK, LifeOK
<1>18. CASE CloseSocket
  BY <1>18 DEF CloseSocket, CancelledKeepAlive, QuietOK, LifeOK, TypeOK
<1>19. CASE TornDown
  <2>1. CASE op = "disconnect"
    <3>1. connection' = NoConn /\ keepAliveTask' = NoConn /\ UNCHANGED <<ka, state, pc>>
      BY <1>19, <2>1 DEF TornDown, ConnOK
    <3>2. \A c \in Conns : ka[c] \notin {"sleep", "queued", "send"}
      BY <1>19 DEF TornDown, QuietOK
    <3>3. \A p \in Requesters : tcs'[p] # "pending"
      BY <1>19, <2>1 DEF TornDown, FailPending, NoOrphanedRequest, TypeOK
    <3>4. QED BY <1>19, <2>1, <3>1, <3>2, <3>3 DEF TornDown, ReleaseLifecycle, QuietOK
  <2>2. CASE op # "disconnect"
    BY <1>19, <2>2 DEF TornDown, AttemptFailed, ReleaseLifecycle, QuietOK, LifeOK
  <2>3. QED BY <2>1, <2>2
<1>20. CASE Dispose
  <2>1. \A q \in Requesters : Awaits(q)' => Awaits(q)
    BY <1>20 DEF Dispose, FailPending, TypeOK
  <2>2. QED BY <1>20, <2>1 DEF Dispose, QuietOK
<1>21. CASE UNCHANGED vars
  BY <1>21, <1>1 DEF vars, quietVars
<1>22. QED
  BY <1>2, <1>3, <1>4, <1>5, <1>6, <1>7, <1>8, <1>9, <1>10, <1>11, <1>12, <1>13, <1>14,
     <1>15, <1>16, <1>17, <1>18, <1>19, <1>20, <1>21
  DEF Next, SendSteps, LifeSteps, ConnSteps, Environment, Requesters

\* HandshakeOK is preserved by every step.
LEMMA HandshakeNext == IInv /\ ConnOK /\ HandshakeOK /\ [Next]_vars => HandshakeOK'
<1> SUFFICES ASSUME IInv, ConnOK, HandshakeOK, [Next]_vars PROVE HandshakeOK'
  OBVIOUS
<1> USE ConnsAssumption, NamesDistinct
        DEF IInv, sendVars, lifeVars, netVars, kaVars, subVars, endVars
<1> DEFINE handVars == <<op, step, state>>
<1>1. ASSUME UNCHANGED handVars, Begun => Begun',
             pc'[Life] = "await" /\ step = "handshake" => pc[Life] = "await" \/ Begun',
             pc'[Life] = "return" /\ step = "handshake"
               => tcs'[Life] \in Failures \/ (pc[Life] = "return" /\ tcs'[Life] = tcs[Life])
      PROVE  HandshakeOK'
  BY <1>1 DEF HandshakeOK
<1>2. ASSUME UNCHANGED <<connection, live, session>> PROVE Begun => Begun'
  BY <1>2 DEF Begun, Up
<1>3. ASSUME NEW p \in Requesters, SendRequest(p) PROVE HandshakeOK'
  <2>1. Accepts(p) \in SUBSET {"started", "subscribed"}
    BY DEF Accepts
  <2>2. Begun => Begun'
    BY <1>3, <2>1 DEF SendRequest, Delivered, Vanished, Refused, Begun, Up, TypeOK
  <2>3. p = Life /\ step = "handshake" /\ pc'[p] = "await" => Begun'
    BY <1>3 DEF SendRequest, Delivered, Vanished, Accepts, Begun, Up, TypeOK
  <2>4. pc'[p] = "return" => tcs'[p] \in Failures
    BY <1>3 DEF SendRequest, Failures, TypeOK
  <2>5. p # Life => pc'[Life] = pc[Life] /\ tcs'[Life] = tcs[Life]
    BY <1>3 DEF SendRequest, TypeOK
  <2>6. QED BY <1>3, <1>1, <2>2, <2>3, <2>4, <2>5 DEF SendRequest
<1>4. ASSUME NEW p \in Requesters,
             Acquire(p) \/ GiveUp(p) \/ Return(p) \/ Register(p) \/ LeaveQueue(p) \/ Call(p)
      PROVE  HandshakeOK'
  <2>1. /\ UNCHANGED handVars
        /\ UNCHANGED <<connection, live, session>>
    BY <1>4 DEF Acquire, GiveUp, Return, Register, LeaveQueue, Call
  <2>2. pc'[Life] = "await" => pc[Life] = "await"
    BY <1>4 DEF Acquire, GiveUp, Return, Register, LeaveQueue, Call, TypeOK
  <2>3. pc'[Life] = "return"
          => tcs'[Life] \in Failures \/ (pc[Life] = "return" /\ tcs'[Life] = tcs[Life])
    BY <1>4 DEF Acquire, GiveUp, Return, Register, LeaveQueue, Call, TypeOK, Failures
  <2>4. QED BY <1>1, <1>2, <2>1, <2>2, <2>3
<1>5. ASSUME NEW c \in Conns, Receive(c) PROVE HandshakeOK'
  <2>1. pc[Life] = "return" => tcs'[Life] = tcs[Life]
    BY <1>5 DEF Receive, NoOrphanedRequest, TypeOK
  <2>2. QED BY <1>5, <1>1, <1>2, <2>1 DEF Receive
<1>6. ASSUME NEW c \in Conns, Drop(c) \/ ServerPush(c) PROVE HandshakeOK'
  <2>1. Begun => Begun'
    <3>1. CASE Drop(c)
      BY <3>1 DEF Drop, Begun, Up, TypeOK
    <3>2. CASE ServerPush(c)
      BY <3>2 DEF ServerPush, Begun, Up
    <3>3. QED BY <1>6, <3>1, <3>2
  <2>2. QED BY <1>6, <1>1, <2>1 DEF Drop, ServerPush
<1>7. ASSUME NEW c \in Conns, \/ ReceiveEnds(c) \/ OnDisconnectedCheck(c) \/ KeepAliveDue(c)
                              \/ KeepAliveAcquire(c)
      PROVE  HandshakeOK'
  BY <1>7, <1>1, <1>2 DEF ReceiveEnds, OnDisconnectedCheck, KeepAliveDue, KeepAliveAcquire
<1>8. ASSUME NEW c \in Conns, KeepAliveSend(c) PROVE HandshakeOK'
  <2>1. Begun => Begun'
    BY <1>8, BegunKept DEF KeepAliveSend
  <2>2. QED BY <1>8, <1>1, <2>1 DEF KeepAliveSend
<1>9. ASSUME NEW c \in Conns, OnDisconnectedMark(c) PROVE HandshakeOK'
  BY <1>9, <1>2 DEF OnDisconnectedMark, HandshakeOK
<1>10. ASSUME NEW c \in Conns, OnDisconnectedFail(c) PROVE HandshakeOK'
  <2>1. pc[Life] = "return" => tcs'[Life] = tcs[Life]
    BY <1>10 DEF OnDisconnectedFail, FailPending, NoOrphanedRequest, TypeOK
  <2>2. QED BY <1>10, <1>1, <1>2, <2>1 DEF OnDisconnectedFail
<1>11. CASE AckAcquire \/ AckSend
  BY <1>11, <1>1, <1>2 DEF AckAcquire, AckSend
<1>12. CASE BeginConnect \/ BeginDisconnect \/ BeginReconnect
  BY <1>12, <1>2 DEF BeginConnect, BeginDisconnect, BeginReconnect, HandshakeOK, LifeOK
<1>13. CASE Backoff \/ DialFails
  BY <1>13, <1>2 DEF Backoff, DialFails, AttemptFailed, ReleaseLifecycle, HandshakeOK, LifeOK
<1>14. ASSUME NEW c \in Conns, DialOk(c) PROVE HandshakeOK'
  BY <1>14 DEF DialOk, HandshakeOK, LifeOK, TypeOK
<1>15. CASE HandshakeReturns
  <2>1. Answered(Life) => tcs[Life] \notin Failures
    BY CallersAssumption
    DEF Answered, Messages, Requesters, Failures, Life, KeepAlive, Push
  <2>2. Answered(Life) => Begun
    BY <1>15, <2>1 DEF HandshakeReturns, Finished, HandshakeOK
  <2>3. QED BY <1>15, <1>2, <2>2 DEF HandshakeReturns, HandshakeOK, TypeOK, LifeOK
<1>16. CASE ReplayReturns
  BY <1>16, <1>2 DEF ReplayReturns, HandshakeOK, TypeOK, LifeOK
<1>17. CASE Publish
  BY <1>17, <1>2 DEF Publish, ReleaseLifecycle, HandshakeOK
<1>18. CASE SendBye
  BY <1>18 DEF SendBye, HandshakeOK, LifeOK
<1>19. CASE ByeReturns
  BY <1>19 DEF ByeReturns, HandshakeOK, LifeOK
<1>20. CASE Detach
  BY <1>20 DEF Detach, HandshakeOK, LifeOK
<1>21. CASE CloseSocket
  BY <1>21 DEF CloseSocket, HandshakeOK, LifeOK
<1>22. CASE TornDown
  BY <1>22 DEF TornDown, AttemptFailed, ReleaseLifecycle, HandshakeOK, LifeOK
<1>23. CASE Dispose
  <2>1. Begun'
    BY <1>23 DEF Dispose, Begun, Up
  <2>2. pc[Life] = "return" => tcs'[Life] = tcs[Life]
    BY <1>23 DEF Dispose, FailPending, NoOrphanedRequest, TypeOK
  <2>3. QED BY <1>23, <1>1, <2>1, <2>2 DEF Dispose
<1>24. CASE UNCHANGED vars
  BY <1>24, <1>1, <1>2 DEF vars
<1>25. QED
  BY <1>3, <1>4, <1>5, <1>6, <1>7, <1>8, <1>9, <1>10, <1>11, <1>12, <1>13, <1>14,
     <1>15, <1>16, <1>17, <1>18, <1>19, <1>20, <1>21, <1>22, <1>23, <1>24
  DEF Next, SendSteps, LifeSteps, ConnSteps, Environment, Requesters

\* A fresh endpoint satisfies all three, and so every reachable state does.
LEMMA ConnectionInductive == Spec => [](IInv /\ ConnOK /\ QuietOK /\ HandshakeOK)
<1>1. Init => ConnOK /\ QuietOK /\ HandshakeOK
  BY NamesDistinct
  DEF Init, ConnOK, QuietOK, HandshakeOK, NoForgottenConnection, Begun, Up
<1>2. QED BY <1>1, Inductive, ConnNext, QuietNext, HandshakeNext, PTL DEF Spec

-----------------------------------------------------------------------------
\* NoForgottenConnection: whatever connects, fails, drops and is torn down, in whatever
\* order, only the current connection or the one being closed can answer a request.
THEOREM OneConnection == Spec => []NoForgottenConnection
<1>1. ConnOK => NoForgottenConnection
  BY DEF ConnOK
<1>2. QED BY <1>1, ConnectionInductive, PTL

\* ConnectedMeansHandshaken: EnsureConnected lets nobody through to a live connection
\* that has not been through MID0001.
THEOREM HandshakeFirst == Spec => []ConnectedMeansHandshaken
<1>1. TypeOK /\ HandshakeOK => ConnectedMeansHandshaken
  BY ConnsAssumption DEF TypeOK, HandshakeOK, ConnectedMeansHandshaken, Begun, Up
<1>2. QED BY <1>1, ConnectionInductive, PTL DEF IInv

\* StoppedIsQuiet: DisconnectAsync leaves no socket, no keep-alive loop and no request
\* that waits for a response.
THEOREM StoppedQuiet == Spec => []StoppedIsQuiet
<1>1. IInv /\ ConnOK /\ QuietOK => StoppedIsQuiet
  <2> SUFFICES ASSUME IInv, ConnOK, QuietOK, state = "Stopped", op = "none", ~disposed
               PROVE  /\ connection = NoConn
                      /\ \A c \in Conns : ~live[c] /\ ka[c] \in {"off", "stopping"}
                      /\ \A p \in Requesters : ~(pc[p] = "await" /\ tcs[p] = "pending")
    BY DEF StoppedIsQuiet
  <2>1. closing = NoConn
    BY DEF IInv, LifeOK, ConnOK
  <2>2. \A c \in Conns : ~live[c]
    BY <2>1, ConnsAssumption DEF ConnOK, QuietOK, NoForgottenConnection, IInv, TypeOK
  <2>3. \A c \in Conns : ka[c] \in {"off", "stopping"}
    BY ConnsAssumption DEF QuietOK, IInv, TypeOK
  <2>4. QED BY <2>2, <2>3 DEF QuietOK
<1>2. QED BY <1>1, ConnectionInductive, PTL

-----------------------------------------------------------------------------
(***************************************************************************)
(* Answers and subscriptions: an answer reaches the request it belongs to, *)
(* and a subscription has its handler exactly if it is going to be         *)
(* replayed.                                                               *)
(***************************************************************************)
Replayed(p) == \E i \in DOMAIN replay : replay[i] = p

\* A subscription is remembered once, and not before its call is over.
SubOK ==
  ~disposed =>
    /\ \A i, j \in DOMAIN replay : replay[i] = replay[j] => i = j
    /\ \A p \in Subscribers : pc[p] # "idle" => p \in handlers /\ ~Replayed(p)
    /\ \A p \in Subscribers : pc[p] = "idle" => (p \in handlers <=> Replayed(p))

\* SubscribeAsync has been confirmed, or its request is out.
Confirming(p) ==
  Replayed(p) \/ (pc[p] \in {"await", "register"} /\ tcs[p] \in {"pending"} \cup Messages)

\* The receive loop of c reads, and nothing was sent on c whose answer nobody awaits.
Reading(c) == rx[c] = "run" /\ ~muddled[c] /\ ~disposed

\* Then what it is going to read is at most one answer, to the request that waits, and
\* pushes, for which there is a subscriber.
InboxOK(c) ==
  /\ \A i \in DOMAIN inbox[c] :
       inbox[c][i] # Push => inbox[c][i] = responseTcs /\ pc[responseTcs] = "await"
  /\ \A i, j \in DOMAIN inbox[c] : inbox[c][i] # Push /\ inbox[c][j] # Push => i = j
  /\ "subscribed" \in session[c] \/ (\E i \in DOMAIN inbox[c] : inbox[c][i] = Push)
       => \E p \in Subscribers : Confirming(p)

PairOK ==
  /\ disposed => responseTcs = NoOne
  /\ step = "replay" /\ ~disposed => replay # <<>>
  /\ \A c \in Conns : Reading(c) => InboxOK(c)

\* What Append adds to the subscriptions to replay.
LEMMA AppendReplay ==
  ASSUME NEW s \in Seq(Subscribers), NEW p \in Subscribers
  PROVE  /\ DOMAIN Append(s, p) = 1 .. Len(s) + 1 /\ DOMAIN s = 1 .. Len(s)
         /\ Len(s) \in Nat /\ Append(s, p)[Len(s) + 1] = p
         /\ \A i \in DOMAIN s : Append(s, p)[i] = s[i]
OBVIOUS

\* SubOK is preserved by every step.
LEMMA SubNext == IInv /\ SubOK /\ [Next]_vars => SubOK'
<1> SUFFICES ASSUME IInv, SubOK, [Next]_vars PROVE SubOK'
  OBVIOUS
<1> USE NamesDistinct DEF IInv, sendVars, lifeVars, netVars, kaVars, subVars, endVars
<1>1. ASSUME UNCHANGED <<handlers, replay, disposed>>,
             \A p \in Subscribers : pc'[p] = "idle" <=> pc[p] = "idle"
      PROVE  SubOK'
  BY <1>1 DEF SubOK, Replayed
<1>2. Life \notin Subscribers
  BY CallersAssumption DEF Life
<1>3. ASSUME NEW p \in Requesters, Call(p) PROVE SubOK'
  <2>1. CASE p \in Subscribers
    BY <1>3, <2>1 DEF Call, SubOK, Replayed, TypeOK
  <2>2. CASE p \notin Subscribers
    BY <1>3, <2>2 DEF Call, SubOK, Replayed, TypeOK
  <2>3. QED BY <2>1, <2>2
<1>4. ASSUME NEW p \in Requesters,
             Acquire(p) \/ SendRequest(p) \/ GiveUp(p) \/ Return(p) \/ LeaveQueue(p)
      PROVE  SubOK'
  <2>1. UNCHANGED <<handlers, replay, disposed>>
    BY <1>4 DEF Acquire, SendRequest, GiveUp, Return, LeaveQueue
  <2>2. \A q \in Subscribers : pc'[q] = "idle" <=> pc[q] = "idle"
    BY <1>4 DEF Acquire, SendRequest, GiveUp, Return, LeaveQueue, Finished, TypeOK
  <2>3. QED BY <1>1, <2>1, <2>2
<1>5. ASSUME NEW p \in Requesters, Register(p) PROVE SubOK'
  <2>1. p \in Subscribers /\ pc[p] = "register" /\ pc' = [pc EXCEPT ![p] = "idle"]
    BY <1>5 DEF Register, LifeOK
  <2>2. CASE Answered(p)
    <3>1. replay' = Append(replay, p) /\ UNCHANGED <<handlers, disposed>>
      BY <1>5, <2>2 DEF Register
    <3>2. \A q \in Subscribers : Replayed(q)' <=> Replayed(q) \/ q = p
      <4> DEFINE n == Len(replay)
      <4>1. /\ DOMAIN replay' = 1 .. n + 1 /\ DOMAIN replay = 1 .. n /\ n \in Nat
            /\ replay'[n + 1] = p /\ \A i \in 1 .. n : replay'[i] = replay[i]
        BY <2>1, <3>1, AppendReplay DEF TypeOK
      <4>2. 1 .. n + 1 = (1 .. n) \cup {n + 1}
        BY <4>1
      <4>3. QED BY <4>1, <4>2 DEF Replayed
    <3>3. ~disposed => \A i, j \in DOMAIN replay' : replay'[i] = replay'[j] => i = j
      BY <2>1, <3>1, AppendReplay DEF SubOK, Replayed, TypeOK
    <3>4. QED BY <2>1, <3>1, <3>2, <3>3 DEF SubOK, TypeOK
  <2>3. CASE ~Answered(p)
    BY <1>5, <2>1, <2>3 DEF Register, SubOK, Replayed, TypeOK
  <2>4. QED BY <2>2, <2>3
<1>6. CASE LifeSteps \/ BeginConnect \/ BeginDisconnect
  <2>1. UNCHANGED <<handlers, replay, disposed>>
    BY <1>6
    DEF LifeSteps, BeginConnect, BeginDisconnect, BeginReconnect, Backoff, DialOk, DialFails,
        HandshakeReturns, ReplayReturns, Publish, SendBye, ByeReturns, Detach, CloseSocket,
        TornDown
  <2>2. \A q \in Subscribers : pc'[q] = pc[q]
    BY <1>2, <1>6
    DEF LifeSteps, BeginConnect, BeginDisconnect, BeginReconnect, Backoff, DialOk, DialFails,
        HandshakeReturns, ReplayReturns, Publish, SendBye, ByeReturns, Detach, CloseSocket,
        TornDown, TypeOK
  <2>3. QED BY <1>1, <2>1, <2>2
<1>7. ASSUME NEW c \in Conns,
             ConnSteps(c) \/ Drop(c) \/ ServerPush(c) \/ KeepAliveDue(c)
      PROVE  SubOK'
  BY <1>1, <1>7
  DEF ConnSteps, Drop, ServerPush, KeepAliveDue, Receive, ReceiveEnds, OnDisconnectedCheck,
      OnDisconnectedMark, OnDisconnectedFail, KeepAliveAcquire, KeepAliveSend
<1>8. CASE AckAcquire \/ AckSend \/ UNCHANGED vars
  BY <1>1, <1>8 DEF AckAcquire, AckSend, vars
<1>9. CASE Dispose
  BY <1>9 DEF Dispose, SubOK
<1>10. QED
  BY <1>3, <1>4, <1>5, <1>6, <1>7, <1>8, <1>9
  DEF Next, SendSteps, Environment, Requesters

\* Append leaves the elements where they are and adds one.
LEMMA AppendAt ==
  ASSUME NEW S, NEW s \in Seq(S), NEW x \in S
  PROVE  \A i \in DOMAIN Append(s, x) :
           \/ i \in DOMAIN s /\ Append(s, x)[i] = s[i]
           \/ i \notin DOMAIN s /\ i = Len(s) + 1 /\ Append(s, x)[i] = x
OBVIOUS

\* Tail moves every element one position forward.
LEMMA TailAt ==
  ASSUME NEW S, NEW s \in Seq(S), s # <<>>
  PROVE  /\ 1 \in DOMAIN s /\ Head(s) = s[1]
         /\ \A i \in DOMAIN Tail(s) : i + 1 \in DOMAIN s /\ i + 1 # 1 /\ Tail(s)[i] = s[i + 1]
         /\ \A i, j \in DOMAIN Tail(s) : i + 1 = j + 1 => i = j
OBVIOUS

\* Only the current connection is read from.
LEMMA ReadingCurrent ==
  ASSUME ConnOK, IInv, NEW c \in Conns, Reading(c)
  PROVE  c = connection /\ connection # NoConn
BY ConnsAssumption DEF ConnOK, Reading, IInv, TypeOK

\* The first two parts of PairOK are preserved by every step.
LEMMA SlotNext ==
  IInv /\ PairOK /\ [Next]_vars
    => (disposed => responseTcs = NoOne)' /\ (step = "replay" /\ ~disposed => replay # <<>>)'
<1> SUFFICES ASSUME IInv, PairOK, [Next]_vars
             PROVE  /\ disposed' => responseTcs' = NoOne
                    /\ step' = "replay" /\ ~disposed' => replay' # <<>>
  OBVIOUS
<1> USE NamesDistinct DEF IInv, sendVars, lifeVars, netVars, kaVars, subVars, endVars
<1>1. ASSUME NEW p \in Requesters, SendSteps(p) \/ LeaveQueue(p) \/ Call(p)
      PROVE  /\ UNCHANGED <<disposed, step>>
             /\ disposed => responseTcs' = NoOne
             /\ replay # <<>> => replay' # <<>>
  <2>1. CASE Register(p)
    BY <2>1, AppendReplay DEF Register, LifeOK, TypeOK, PairOK
  <2>2. QED
    BY <1>1, <2>1
    DEF SendSteps, Acquire, SendRequest, GiveUp, Return, LeaveQueue, Call, PairOK
<1>2. CASE LifeSteps \/ BeginConnect \/ BeginDisconnect
  <2>1. UNCHANGED <<disposed, replay>>
    BY <1>2
    DEF LifeSteps, BeginConnect, BeginDisconnect, BeginReconnect, Backoff, DialOk, DialFails,
        HandshakeReturns, ReplayReturns, Publish, SendBye, ByeReturns, Detach, CloseSocket,
        TornDown
  <2>2. responseTcs' \in {responseTcs, NoOne}
    BY <1>2
    DEF LifeSteps, BeginConnect, BeginDisconnect, BeginReconnect, Backoff, DialOk, DialFails,
        HandshakeReturns, ReplayReturns, Publish, SendBye, ByeReturns, Detach, CloseSocket,
        TornDown, FailPending
  <2>3. step' = "replay" /\ step # "replay" => replay # <<>>
    BY <1>2
    DEF LifeSteps, BeginConnect, BeginDisconnect, BeginReconnect, Backoff, DialOk, DialFails,
        HandshakeReturns, ReplayReturns, Publish, SendBye, ByeReturns, Detach, CloseSocket,
        TornDown, AttemptFailed, ReleaseLifecycle
  <2>4. QED BY <2>1, <2>2, <2>3 DEF PairOK
<1>3. ASSUME NEW c \in Conns,
             ConnSteps(c) \/ Drop(c) \/ ServerPush(c) \/ KeepAliveDue(c)
      PROVE  UNCHANGED <<disposed, step, replay>> /\ responseTcs' \in {responseTcs, NoOne}
  BY <1>3
  DEF ConnSteps, Drop, ServerPush, KeepAliveDue, Receive, ReceiveEnds, OnDisconnectedCheck,
      OnDisconnectedMark, OnDisconnectedFail, FailPending, KeepAliveAcquire, KeepAliveSend
<1>4. CASE AckAcquire \/ AckSend \/ UNCHANGED vars
  BY <1>4 DEF AckAcquire, AckSend, vars, PairOK
<1>5. CASE Dispose
  BY <1>5 DEF Dispose, FailPending
<1> DEFINE Slot == /\ disposed => responseTcs = NoOne
                   /\ step = "replay" /\ ~disposed => replay # <<>>
<1>6. ASSUME UNCHANGED <<disposed, step>>, replay # <<>> => replay' # <<>>,
             disposed => responseTcs' = NoOne
      PROVE  Slot'
  BY <1>6 DEF PairOK
<1>7. ASSUME NEW c \in Conns,
             ConnSteps(c) \/ Drop(c) \/ ServerPush(c) \/ KeepAliveDue(c)
      PROVE  Slot'
  <2>1. UNCHANGED <<disposed, step, replay>> /\ responseTcs' \in {responseTcs, NoOne}
    BY <1>3, <1>7
  <2>2. QED BY <2>1, <1>6 DEF PairOK
<1>8. ASSUME NEW p \in Requesters, SendSteps(p) \/ LeaveQueue(p) \/ Call(p) PROVE Slot'
  BY <1>1, <1>6, <1>8
<1>9. QED
  BY <1>2, <1>4, <1>5, <1>7, <1>8 DEF Next, Environment, Requesters

\* PairOK is preserved by every step.
LEMMA PairNext == IInv /\ ConnOK /\ SubOK /\ PairOK /\ [Next]_vars => PairOK'
<1> SUFFICES ASSUME IInv, ConnOK, SubOK, PairOK, [Next]_vars,
                    NEW c \in Conns, Reading(c)'
             PROVE  InboxOK(c)'
  BY SlotNext DEF PairOK
<1> USE NamesDistinct, ConnsAssumption
        DEF IInv, sendVars, lifeVars, netVars, kaVars, subVars, endVars
<1>1. Reading(c) => c = connection /\ connection # NoConn /\ InboxOK(c)
  BY ReadingCurrent DEF PairOK
<1>2. Push # NoOne /\ NoOne \notin Messages /\ Life \notin Subscribers
      /\ inbox[c] \in Seq(Messages)
  BY CallersAssumption DEF Push, NoOne, Messages, Requesters, Life, KeepAlive, TypeOK
<1> DEFINE Keeps == \A p \in Subscribers : Confirming(p) => Confirming(p)'
           OnlyPushes == \A i \in DOMAIN inbox[c] : inbox[c][i] = Push
\* A step that sends nothing and completes nothing.
<1>3. ASSUME UNCHANGED responseTcs, Keeps,
             rx'[c] = "run" /\ ~muddled'[c] /\ ~disposed'
               => rx[c] = "run" /\ ~muddled[c] /\ ~disposed,
             inbox'[c] = inbox[c] \/ inbox'[c] = <<>>, session'[c] \subseteq session[c],
             responseTcs # NoOne /\ pc[responseTcs] = "await" => pc'[responseTcs] = "await"
      PROVE  InboxOK(c)'
  <2>1. Reading(c)
    BY <1>3 DEF Reading
  <2>2. inbox'[c] = <<>> => DOMAIN inbox'[c] = {}
    OBVIOUS
  <2>3. \A i \in DOMAIN inbox[c] : inbox[c][i] \in Messages
    BY <1>2
  <2>4. QED BY <1>1, <1>2, <1>3, <2>1, <2>2, <2>3 DEF InboxOK
\* A step that completes nothing and leaves the network alone.
<1>4. ASSUME UNCHANGED <<responseTcs, rx, muddled, disposed, inbox, session>>, Keeps,
             responseTcs # NoOne /\ pc[responseTcs] = "await" => pc'[responseTcs] = "await"
      PROVE  InboxOK(c)'
  BY <1>3, <1>4
<1>5. ASSUME UNCHANGED <<pc, tcs, replay>> PROVE Keeps
  BY <1>5 DEF Confirming, Replayed
<1>6. ASSUME NEW p \in Requesters, Call(p) PROVE InboxOK(c)'
  <2>1. Keeps
    BY <1>6 DEF Call, Confirming, Replayed, TypeOK
  <2>2. responseTcs # p
    BY <1>6 DEF Call, NoOrphanedRequest
  <2>3. QED BY <1>4, <1>6, <2>1, <2>2 DEF Call, TypeOK
<1>7. ASSUME NEW p \in Requesters, Acquire(p) PROVE InboxOK(c)'
  <2>1. Keeps
    BY <1>7 DEF Acquire, Confirming, Replayed, TypeOK
  <2>2. CASE responseTcs # NoOne \/ (p = Life /\ step = "bye")
    <3>1. responseTcs # p
      BY <1>7 DEF Acquire, NoOrphanedRequest
    <3>2. QED BY <1>4, <1>7, <2>1, <2>2, <3>1 DEF Acquire, TypeOK
  <2>3. CASE responseTcs = NoOne /\ ~(p = Life /\ step = "bye")
    <3>1. Reading(c) /\ UNCHANGED <<inbox, session>>
      BY <1>7, <2>3 DEF Acquire, Reading
    <3>2. \A i \in DOMAIN inbox[c] : inbox[c][i] \in Messages
      BY <1>2
    <3>3. OnlyPushes
      BY <1>1, <1>2, <2>3, <3>1, <3>2 DEF InboxOK
    <3>4. QED BY <1>1, <2>1, <3>1, <3>3 DEF InboxOK
  <2>4. QED BY <2>2, <2>3
<1>8. ASSUME NEW p \in Requesters, SendRequest(p) PROVE InboxOK(c)'
  <2>1. Reading(c)
    BY <1>8 DEF SendRequest, Delivered, Vanished, Refused, Muddle, Reading, Up, TypeOK
  <2>2. responseTcs = p => OnlyPushes
    BY <1>1, <1>8, <2>1 DEF InboxOK, SendRequest
  <2>3. Keeps
    BY <1>8 DEF SendRequest, Confirming, Replayed, TypeOK
  <2>4. responseTcs # p /\ responseTcs \in Requesters => pc'[responseTcs] = pc[responseTcs]
    BY <1>8 DEF SendRequest, TypeOK
  <2>5. CASE Delivered(p, Accepts(p), tcs[p] = "pending") /\ UNCHANGED <<responseTcs, tcs>>
             /\ pc' = [pc EXCEPT ![p] = "await"]
    <3>1. connection = c
      BY <1>1, <2>1
    <3>2. tcs[p] = "pending" /\ responseTcs = p
      BY <2>5, <3>1 DEF Delivered, Muddle, Reading, NoOrphanedRequest, TypeOK
    <3>3. p \in Messages
      BY DEF Messages
    <3>4. /\ inbox'[c] = inbox[c] \/ inbox'[c] = Append(inbox[c], p)
          /\ session'[c] = session[c] \cup Accepts(p)
      BY <2>5, <3>1 DEF Delivered, TypeOK
    <3>5. \A i \in DOMAIN inbox'[c] :
            \/ i \in DOMAIN inbox[c] /\ inbox'[c][i] = Push
            \/ i = Len(inbox[c]) + 1 /\ inbox'[c][i] = p
      BY <1>2, <2>2, <3>2, <3>3, <3>4, AppendAt
    <3>6. pc'[p] = "await"
      BY <2>5 DEF TypeOK
    <3>7. \A i \in DOMAIN inbox'[c] : inbox'[c][i] = Push => \E q \in Subscribers : Confirming(q)'
      <4>1. SUFFICES ASSUME NEW i \in DOMAIN inbox'[c], inbox'[c][i] = Push
                     PROVE  \E q \in Subscribers : Confirming(q)
        BY <2>3
      <4>2. p # Push
        BY CallersAssumption DEF Requesters, Life, Push
      <4>3. QED BY <1>1, <2>1, <2>2, <3>2, <3>5, <4>1, <4>2 DEF InboxOK
    <3>8. "subscribed" \in session'[c] => \E q \in Subscribers : Confirming(q)'
      <4>1. CASE "subscribed" \in session[c]
        BY <1>1, <2>1, <2>3, <4>1 DEF InboxOK
      <4>2. CASE p \in Subscribers
        BY <2>5, <3>2, <3>6, <4>2 DEF Confirming
      <4>3. CASE p = Life /\ step = "replay"
        <5>1. replay # <<>> /\ replay \in Seq(Subscribers)
          BY <2>1, <4>3 DEF PairOK, Reading, TypeOK
        <5>2. replay[1] \in Subscribers /\ 1 \in DOMAIN replay
          BY <5>1
        <5>3. QED BY <2>3, <5>2 DEF Confirming, Replayed
      <4>4. QED BY <3>4, <4>1, <4>2, <4>3 DEF Accepts
    <3>9. QED BY <2>5, <3>2, <3>5, <3>6, <3>7, <3>8 DEF InboxOK
  <2>6. CASE Vanished /\ UNCHANGED <<responseTcs, tcs>> /\ pc' = [pc EXCEPT ![p] = "await"]
    BY <1>3, <1>8, <2>1, <2>3, <2>4, <2>6 DEF Vanished, SendRequest, Reading, TypeOK
  <2>7. CASE Refused /\ responseTcs' = IF responseTcs = p THEN NoOne ELSE responseTcs
    <3>1. UNCHANGED <<inbox, session>>
      BY <2>7 DEF Refused
    <3>2. CASE responseTcs = p
      BY <1>1, <2>1, <2>2, <2>3, <3>1, <3>2 DEF InboxOK
    <3>3. CASE responseTcs # p
      BY <1>3, <2>1, <2>3, <2>4, <2>7, <3>1, <3>3 DEF Reading, TypeOK
    <3>4. QED BY <3>2, <3>3
  <2>8. QED BY <1>8, <2>5, <2>6, <2>7 DEF SendRequest
<1>9. ASSUME NEW p \in Requesters, GiveUp(p) PROVE InboxOK(c)'
  BY <1>1, <1>9 DEF GiveUp, Muddle, Reading, TypeOK
<1>10. ASSUME NEW p \in Requesters, LeaveQueue(p) \/ Return(p) PROVE InboxOK(c)'
  <2>1. responseTcs # p
    BY <1>10 DEF LeaveQueue, Return, Finished, NoOrphanedRequest
  <2>2. Keeps
    <3>1. CASE LeaveQueue(p)
      BY <3>1 DEF LeaveQueue, Confirming, Replayed, TypeOK
    <3>2. CASE Return(p)
      BY <3>2 DEF Return, Finished, Confirming, Replayed, TypeOK
    <3>3. QED BY <1>10, <3>1, <3>2
  <2>3. QED BY <1>4, <1>10, <2>1, <2>2 DEF LeaveQueue, Return, TypeOK
<1>11. ASSUME NEW p \in Requesters, Register(p) PROVE InboxOK(c)'
  <2>1. responseTcs # p /\ tcs[p] # "pending" /\ p \in Subscribers
    BY <1>11 DEF Register, NoOrphanedRequest, LifeOK
  <2>2. Keeps
    <3>1. replay' = (IF Answered(p) THEN Append(replay, p) ELSE replay)
      BY <1>11 DEF Register
    <3>2. \A q \in Subscribers : Replayed(q) \/ (q = p /\ Answered(p)) => Replayed(q)'
      <4> DEFINE n == Len(replay)
      <4>1. /\ DOMAIN Append(replay, p) = 1 .. n + 1 /\ DOMAIN replay = 1 .. n /\ n \in Nat
            /\ Append(replay, p)[n + 1] = p
            /\ \A i \in 1 .. n : Append(replay, p)[i] = replay[i]
        BY <2>1, AppendReplay DEF TypeOK
      <4>2. 1 .. n + 1 = (1 .. n) \cup {n + 1}
        BY <4>1
      <4>3. QED BY <3>1, <4>1, <4>2 DEF Replayed
    <3>3. QED BY <1>11, <2>1, <3>2 DEF Register, Confirming, Answered, TypeOK
  <2>3. QED BY <1>4, <1>11, <2>1, <2>2 DEF Register, TypeOK
<1>12. ASSUME BeginConnect \/ BeginReconnect \/ Backoff \/ DialFails \/ Publish PROVE InboxOK(c)'
  BY <1>4, <1>5, <1>12 DEF BeginConnect, BeginReconnect, Backoff, DialFails, Publish
<1>13. ASSUME \/ BeginDisconnect \/ HandshakeReturns \/ ReplayReturns \/ ByeReturns
      PROVE  InboxOK(c)'
  <2>1. responseTcs # Life
    BY <1>13
    DEF BeginDisconnect, HandshakeReturns, ReplayReturns, ByeReturns, Finished, LifeOK,
        NoOrphanedRequest
  <2>2. /\ \A p \in Requesters \ {Life} : pc'[p] = pc[p] /\ tcs'[p] = tcs[p]
        /\ UNCHANGED <<responseTcs, rx, muddled, disposed, inbox, session, replay>>
    BY <1>13 DEF BeginDisconnect, HandshakeReturns, ReplayReturns, ByeReturns, TypeOK
  <2>3. Keeps
    BY <1>2, <2>2 DEF Confirming, Replayed
  <2>4. QED BY <1>4, <2>1, <2>2, <2>3 DEF TypeOK
<1>14. ASSUME NEW d \in Conns, DialOk(d) PROVE InboxOK(c)'
  <2>1. c = d
    BY <1>1, <1>14 DEF DialOk, ConnOK, Reading, TypeOK
  <2>2. inbox'[c] = <<>> /\ session'[c] = {}
    BY <1>14, <2>1 DEF DialOk, TypeOK
  <2>3. DOMAIN inbox'[c] = {}
    BY <2>2
  <2>4. QED BY <2>2, <2>3 DEF InboxOK
<1>15. CASE SendBye
  <2>1. responseTcs # Life
    BY <1>15 DEF SendBye, LifeOK
  <2>2. \A p \in Requesters \ {Life} : pc'[p] = pc[p]
    BY <1>15 DEF SendBye, TypeOK
  <2>3. Keeps
    BY <1>2, <1>15, <2>2 DEF SendBye, Confirming, Replayed
  <2>4. UNCHANGED netVars
    BY <1>1, <1>15
    DEF SendBye, Delivered, Muddle, Vanished, Refused, Reading, Up, TypeOK
  <2>5. QED BY <1>4, <1>15, <2>1, <2>2, <2>3, <2>4 DEF SendBye, TypeOK
<1>16. CASE Detach
  BY <1>1, <1>16 DEF Detach, Reading, TypeOK
<1>17. CASE CloseSocket \/ TornDown
  <2>1. connection = NoConn
    BY <1>17 DEF CloseSocket, TornDown, ConnOK
  <2>2. UNCHANGED <<rx, disposed>> /\ (muddled[c] => muddled'[c] \/ c = closing)
    BY <1>17 DEF CloseSocket, TornDown
  <2>3. ~disposed /\ rx[c] = "run"
    BY <2>2 DEF Reading
  <2>4. QED BY <2>1, <2>3 DEF ConnOK
<1>18. ASSUME NEW d \in Conns, Drop(d) PROVE InboxOK(c)'
  <2>1. /\ inbox'[c] = inbox[c] \/ inbox'[c] = <<>>
        /\ session'[c] \subseteq session[c]
    BY <1>18 DEF Drop, TypeOK
  <2>2. QED BY <1>3, <1>5, <1>18, <2>1 DEF Drop
<1>19. ASSUME NEW d \in Conns, ServerPush(d) PROVE InboxOK(c)'
  <2>1. Reading(c) /\ Push \in Messages
    BY <1>19 DEF ServerPush, Reading, Messages
  <2>2. CASE d # c
    <3>1. inbox'[c] = inbox[c]
      BY <1>19, <2>2 DEF ServerPush, TypeOK
    <3>2. QED BY <1>3, <1>5, <1>19, <3>1 DEF ServerPush
  <2>3. CASE d = c
    <3>1. inbox'[c] = Append(inbox[c], Push) /\ "subscribed" \in session[c]
      BY <1>19, <2>3 DEF ServerPush, TypeOK
    <3>2. \A i \in DOMAIN inbox'[c] :
            inbox'[c][i] = Push \/ (i \in DOMAIN inbox[c] /\ inbox'[c][i] = inbox[c][i])
      BY <1>2, <2>1, <3>1, AppendAt
    <3>3. Keeps /\ UNCHANGED <<responseTcs, pc, session>>
      BY <1>5, <1>19 DEF ServerPush
    <3>4. QED BY <1>1, <2>1, <3>1, <3>2, <3>3 DEF InboxOK
  <2>4. QED BY <2>2, <2>3
<1>20. ASSUME NEW d \in Conns, Receive(d) PROVE InboxOK(c)'
  <2>1. Reading(c) /\ c = d
    BY <1>20, <1>1 DEF Receive, Reading, ConnOK
  <2>2. inbox[c] # <<>> /\ inbox'[c] = Tail(inbox[c]) /\ UNCHANGED <<session, pc, replay>>
    BY <1>20, <2>1 DEF Receive, TypeOK
  <2>3. /\ 1 \in DOMAIN inbox[c] /\ Head(inbox[c]) = inbox[c][1]
        /\ Head(inbox[c]) \in Messages
        /\ \A i \in DOMAIN inbox'[c] : /\ i + 1 \in DOMAIN inbox[c] /\ i + 1 # 1
                                       /\ inbox'[c][i] = inbox[c][i + 1]
        /\ \A i, j \in DOMAIN inbox'[c] : i + 1 = j + 1 => i = j
    BY <1>2, <2>2, TailAt, SeqType
  <2>4. CASE Head(inbox[c]) = Push
    <3>1. PICK p \in Subscribers : Confirming(p)
      BY <1>1, <2>1, <2>3, <2>4 DEF InboxOK
    <3>2. p \in handlers
      BY <2>1, <3>1 DEF SubOK, Reading, Confirming
    <3>3. UNCHANGED <<responseTcs, tcs>>
      BY <1>20, <2>1, <2>4, <3>2 DEF Receive
    <3>4. Keeps
      BY <1>5, <2>2, <3>3
    <3>5. QED BY <1>1, <2>1, <2>2, <2>3, <3>1, <3>3, <3>4 DEF InboxOK
  <2>5. CASE Head(inbox[c]) # Push
    <3>1. responseTcs \in Requesters /\ tcs' = [tcs EXCEPT ![responseTcs] = Head(inbox[c])]
      BY <1>1, <1>2, <1>20, <2>1, <2>3, <2>5 DEF InboxOK, Receive, TypeOK
    <3>2. Keeps
      BY <2>2, <2>3, <3>1 DEF Confirming, Replayed, TypeOK
    <3>3. \A i \in DOMAIN inbox'[c] : inbox'[c][i] = Push
      BY <1>1, <2>1, <2>3, <2>5 DEF InboxOK
    <3>4. QED BY <1>1, <2>1, <2>2, <2>3, <3>2, <3>3 DEF InboxOK
  <2>6. QED BY <2>4, <2>5
<1>21. ASSUME NEW d \in Conns,
              ReceiveEnds(d) \/ OnDisconnectedCheck(d) \/ OnDisconnectedMark(d)
       PROVE  InboxOK(c)'
  <2>1. Reading(c)
    BY <1>21
    DEF ReceiveEnds, OnDisconnectedCheck, OnDisconnectedMark, Reading, TypeOK
  <2>2. QED
    BY <1>3, <1>5, <1>21, <2>1
    DEF ReceiveEnds, OnDisconnectedCheck, OnDisconnectedMark, Reading
<1>22. ASSUME NEW d \in Conns, OnDisconnectedFail(d) PROVE InboxOK(c)'
  <2>1. ~disposed /\ rx[c] = "run" /\ c # d
    BY <1>22 DEF OnDisconnectedFail, Reading, TypeOK
  <2>2. c = connection /\ connection # NoConn
    BY <2>1 DEF ConnOK, TypeOK
  <2>3. QED BY <1>22, <2>1, <2>2 DEF OnDisconnectedFail, Muddle, Reading, TypeOK
<1>23. ASSUME NEW d \in Conns, KeepAliveDue(d) \/ KeepAliveAcquire(d) \/ KeepAliveSend(d)
       PROVE  InboxOK(c)'
  <2>1. UNCHANGED netVars
    BY <1>1, <1>23
    DEF KeepAliveDue, KeepAliveAcquire, KeepAliveSend, Delivered, Muddle, Vanished, Refused,
        Reading, Up, TypeOK
  <2>2. QED BY <1>4, <1>5, <1>23, <2>1 DEF KeepAliveDue, KeepAliveAcquire, KeepAliveSend
<1>24. ASSUME AckAcquire \/ AckSend \/ UNCHANGED vars PROVE InboxOK(c)'
  BY <1>4, <1>5, <1>24 DEF AckAcquire, AckSend, vars
<1>25. CASE Dispose
  BY <1>25 DEF Dispose, Reading
<1>26. QED
  BY <1>6, <1>7, <1>8, <1>9, <1>10, <1>11, <1>12, <1>13, <1>14, <1>15, <1>16, <1>17, <1>18,
     <1>19, <1>20, <1>21, <1>22, <1>23, <1>24, <1>25
  DEF Next, SendSteps, LifeSteps, ConnSteps, Environment, Requesters

\* A fresh endpoint satisfies both, and so every reachable state does.
LEMMA PairingInductive == Spec => [](IInv /\ ConnOK /\ SubOK /\ PairOK)
<1>1. Init => SubOK /\ PairOK
  <2> SUFFICES ASSUME Init PROVE SubOK /\ PairOK
    OBVIOUS
  <2>1. DOMAIN replay = {} /\ replay = <<>>
    BY DEF Init
  <2>2. SubOK
    BY <2>1, NamesDistinct DEF Init, SubOK, Replayed
  <2>3. PairOK
    BY DEF Init, PairOK, Reading
  <2>4. QED BY <2>2, <2>3
<1>2. QED BY <1>1, ConnectionInductive, SubNext, PairNext, PTL DEF Spec

-----------------------------------------------------------------------------
\* SubscriptionsMatch: whatever happens during SubscribeAsync, between calls a
\* subscription has a handler exactly if it is replayed, and is replayed once.
THEOREM SubscriptionsKept == Spec => []SubscriptionsMatch
<1>1. IInv /\ SubOK => SubscriptionsMatch
  <2> SUFFICES ASSUME IInv, SubOK, ~disposed, NEW p \in Subscribers
               PROVE  /\ pc[p] = "idle" =>
                           Cardinality({i \in DOMAIN replay : replay[i] = p}) =
                             (IF p \in handlers THEN 1 ELSE 0)
                      /\ (\E i \in DOMAIN replay : replay[i] = p) => p \in handlers
    BY DEF SubscriptionsMatch
  <2> DEFINE at == {i \in DOMAIN replay : replay[i] = p}
  <2>1. (\E i \in DOMAIN replay : replay[i] = p) => p \in handlers
    BY DEF SubOK, Replayed
  <2>2. ASSUME pc[p] = "idle" PROVE Cardinality(at) = (IF p \in handlers THEN 1 ELSE 0)
    <3>1. CASE p \in handlers
      <4>1. PICK i \in DOMAIN replay : replay[i] = p
        BY <2>2, <3>1 DEF SubOK, Replayed
      <4>2. at = {i}
        BY <4>1 DEF SubOK
      <4>3. QED BY <3>1, <4>2, FS_Singleton
    <3>2. CASE p \notin handlers
      <4>1. at = {}
        BY <2>2, <3>2 DEF SubOK, Replayed
      <4>2. QED BY <3>2, <4>1, FS_EmptySet
    <3>3. QED BY <3>1, <3>2
  <2>3. QED BY <2>1, <2>2
<1>2. QED BY <1>1, PairingInductive, PTL

\* ResponsesPaired: as long as nothing was sent whose answer nobody awaits, what
\* completes a request is its own answer.
THEOREM AnswersPaired == Spec => ResponsesPaired
<1> DEFINE Paired == \A p \in Requesters : \A m \in Messages :
                       tcs[p] = "pending" /\ tcs'[p] = m
                         => m = p \/ \E c \in Conns : inbox'[c] # inbox[c] /\ muddled[c]
<1>1. IInv /\ ConnOK /\ SubOK /\ PairOK /\ [Next]_vars => [Paired]_vars
  <2> SUFFICES ASSUME IInv, ConnOK, SubOK, PairOK, Next,
                      NEW p \in Requesters, NEW m \in Messages,
                      tcs[p] = "pending", tcs'[p] = m
               PROVE  m = p \/ \E c \in Conns : inbox'[c] # inbox[c] /\ muddled[c]
    OBVIOUS
  <2> USE NamesDistinct DEF IInv
  <2>1. m \notin Failures \cup {"none", "pending"}
    BY CallersAssumption DEF Messages, Requesters, Failures, Life, KeepAlive, Push
  <2>2. PICK c \in Conns : Receive(c)
    <3>1. ASSUME NEW q \in Requesters, SendSteps(q) \/ LeaveQueue(q) \/ Call(q) PROVE FALSE
      BY <2>1, <3>1
      DEF SendSteps, Acquire, SendRequest, GiveUp, Return, Register, LeaveQueue, Call, TypeOK,
          Failures, Finished
    <3>2. CASE LifeSteps \/ BeginConnect \/ BeginDisconnect
      BY <2>1, <3>2
      DEF LifeSteps, BeginConnect, BeginDisconnect, BeginReconnect, Backoff, DialOk, DialFails,
          HandshakeReturns, ReplayReturns, Publish, SendBye, ByeReturns, Detach, CloseSocket,
          TornDown, FailPending, TypeOK, sendVars, Failures
    <3>3. ASSUME NEW d \in Conns, ~Receive(d),
                 ConnSteps(d) \/ Drop(d) \/ ServerPush(d) \/ KeepAliveDue(d)
          PROVE  FALSE
      BY <2>1, <3>3
      DEF ConnSteps, Drop, ServerPush, KeepAliveDue, ReceiveEnds, OnDisconnectedCheck,
          OnDisconnectedMark, OnDisconnectedFail, FailPending, KeepAliveAcquire,
          KeepAliveSend, TypeOK, sendVars, Failures
    <3>4. CASE AckAcquire \/ AckSend \/ Dispose
      BY <2>1, <3>4 DEF AckAcquire, AckSend, Dispose, FailPending, TypeOK, Failures
    <3>5. QED BY <3>1, <3>2, <3>3, <3>4 DEF Next, Environment, ConnSteps, Requesters
  <2>3. responseTcs = p /\ m = Head(inbox[c])
    BY <2>1, <2>2 DEF Receive, TypeOK
  <2>4. inbox[c] \in Seq(Messages) /\ inbox[c] # <<>> /\ inbox'[c] = Tail(inbox[c])
    BY <2>2 DEF Receive, TypeOK
  <2>5. 1 \in DOMAIN inbox[c] /\ Head(inbox[c]) = inbox[c][1] /\ inbox'[c] # inbox[c]
    <3>1. Len(Tail(inbox[c])) # Len(inbox[c])
      BY <2>4
    <3>2. QED BY <2>4, <3>1, TailAt
  <2>6. CASE muddled[c]
    BY <2>5, <2>6
  <2>7. CASE ~muddled[c]
    <3>1. Reading(c)
      BY <2>2, <2>3, <2>7 DEF Receive, Reading, PairOK
    <3>2. InboxOK(c)
      BY <3>1 DEF PairOK
    <3>3. CASE m = Push
      <4>1. PICK q \in Subscribers : Confirming(q)
        BY <2>3, <2>5, <3>2, <3>3 DEF InboxOK
      <4>2. q \in handlers
        BY <3>1, <4>1 DEF SubOK, Reading, Confirming
      <4>3. QED BY <2>1, <2>2, <2>3, <3>3, <4>2 DEF Receive
    <3>4. CASE m # Push
      BY <2>3, <2>5, <3>2, <3>4 DEF InboxOK
    <3>5. QED BY <3>3, <3>4
  <2>8. QED BY <2>6, <2>7
<1>2. QED BY <1>1, PairingInductive, PTL DEF Spec, ResponsesPaired

-----------------------------------------------------------------------------
(* Sets of naturals in order *)

(* A set of naturals that is not empty has a least member.                 *)
LEMMA LeastOf ==
  ASSUME NEW S, S \subseteq Nat, S # {}
  PROVE  \E x \in S : \A y \in S : x <= y
  <1>1. PICK x \in S : \A y \in S : ~ (<<y, x>> \in OpToRel(<, Nat))
    BY NatLessThanWellFounded, WFMin
  <1>2. \A y \in S : <<y, x>> \in OpToRel(<, Nat) <=> y < x
    BY DEF OpToRel
  <1>3. \A y \in S : ~ (y < x)
    BY <1>1, <1>2, Zenon
  <1> QED BY <1>3

Increasing(e) == \A k, l \in DOMAIN e : k < l => e[k] < e[l]
Lists(e, S)   == e \in [1 .. Cardinality(S) -> S] /\ Increasing(e)
Reaches(e, S) == \A x \in S : \E k \in 1 .. Cardinality(S) : e[k] = x

(* An increasing list of a finite set reaches all of it.                   *)
LEMMA ListsAll ==
  ASSUME NEW S, S \subseteq Nat, IsFiniteSet(S), NEW e, Lists(e, S)
  PROVE  Cardinality(S) \in Nat /\ Reaches(e, S)
  <1> DEFINE n == Cardinality(S)
  <1>1. n \in Nat
    BY FS_CardinalityType
  <1>2. IsFiniteSet(1 .. n) /\ Cardinality(1 .. n) = n
    BY <1>1, FS_Interval
  <1>3. \A k, l \in 1 .. n : e[k] = e[l] => k = l
    <2> SUFFICES ASSUME NEW k \in 1 .. n, NEW l \in 1 .. n, e[k] = e[l], k # l PROVE FALSE
      OBVIOUS
    <2>1. e[k] \in Nat /\ e[l] \in Nat
      BY DEF Lists
    <2>2. \A i, j \in 1 .. n : i < j => e[i] < e[j]
      BY DEF Lists, Increasing
    <2>3. k < l \/ l < k
      BY <1>1
    <2> QED BY <2>1, <2>2, <2>3
  <1>4. e \in Injection(1 .. n, S)
    BY <1>3 DEF Lists, Injection, IsInjective
  <1>5. e \in Surjection(1 .. n, S)
    BY <1>2, <1>4, FS_Injection
  <1> QED BY <1>1, <1>5 DEF Surjection, Reaches

(* There is one at most.                                                   *)
LEMMA ListsOnce ==
  ASSUME NEW S, S \subseteq Nat, IsFiniteSet(S), NEW e, Lists(e, S), NEW f, Lists(f, S)
  PROVE  e = f
  <1> DEFINE n == Cardinality(S)
             Differ == {k \in 1 .. n : e[k] # f[k]}
  <1>1. /\ n \in Nat
        /\ \A x \in S : \E k \in 1 .. n : e[k] = x
        /\ \A x \in S : \E k \in 1 .. n : f[k] = x
    <2>1. Cardinality(S) \in Nat /\ Reaches(e, S) /\ Reaches(f, S)
      BY ListsAll, Zenon
    <2> QED BY <2>1, Zenon DEF Reaches
  <1>2. \A k \in 1 .. n : e[k] \in S /\ f[k] \in S /\ e[k] \in Nat /\ f[k] \in Nat
    BY DEF Lists
  <1>3. \A k, l \in 1 .. n : k < l => e[k] < e[l] /\ f[k] < f[l]
    BY DEF Lists, Increasing
  <1>4. Differ = {}
    <2> SUFFICES ASSUME Differ # {} PROVE FALSE
      OBVIOUS
    <2>0. Differ \subseteq Nat
      BY <1>1
    <2>1. PICK k \in Differ : \A l \in Differ : k <= l
      BY <2>0, LeastOf, Zenon
    <2>2. \A l \in 1 .. n : l < k => e[l] = f[l]
      BY <2>1
    <2>3. CASE e[k] < f[k]
      <3>1. PICK l \in 1 .. n : f[l] = e[k]
        BY <1>1, <1>2
      <3>2. l < k
        BY <1>1, <1>2, <1>3, <2>3, <3>1
      <3>3. e[l] = e[k]
        BY <2>2, <3>1, <3>2
      <3> QED BY <1>2, <1>3, <3>2, <3>3
    <2>4. CASE f[k] < e[k]
      <3>1. PICK l \in 1 .. n : e[l] = f[k]
        BY <1>1, <1>2
      <3>2. l < k
        BY <1>1, <1>2, <1>3, <2>4, <3>1
      <3>3. f[l] = f[k]
        BY <2>2, <3>1, <3>2
      <3> QED BY <1>2, <1>3, <3>2, <3>3
    <2> QED BY <1>2, <2>1, <2>3, <2>4
  <1>5. \A k \in 1 .. n : e[k] = f[k]
    BY <1>4
  <1>6. e \in [1 .. n -> S] /\ f \in [1 .. n -> S]
    BY DEF Lists
  <1>7. e = [k \in 1 .. n |-> e[k]] /\ f = [k \in 1 .. n |-> f[k]]
    BY <1>6
  <1>8. [k \in 1 .. n |-> e[k]] = [k \in 1 .. n |-> f[k]]
    BY <1>5
  <1> QED BY <1>7, <1>8, Zenon

(* And there is one: a set within 1 .. n is one within 1 .. n - 1 and n,   *)
(* or not.                                                                 *)
LEMMA ListExists ==
  ASSUME NEW n \in Nat, NEW S, S \subseteq 1 .. n
  PROVE  IsFiniteSet(S) /\ \E e : Lists(e, S)
  <1> DEFINE Without == {m \in Nat : \E T : T \subseteq 1 .. m /\ ~ \E e : Lists(e, T)}
  <1>1. ASSUME NEW m \in Nat, NEW T, T \subseteq 1 .. m
        PROVE  IsFiniteSet(T) /\ T \subseteq Nat
    <2>1. IsFiniteSet(1 .. m)
      BY FS_Interval
    <2>2. IsFiniteSet(T)
      BY <1>1, <2>1, FS_Subset, Zenon
    <2> QED BY <1>1, <2>2
  <1>2. Without = {}
    <2> SUFFICES ASSUME Without # {} PROVE FALSE
      OBVIOUS
    <2>1. PICK m \in Without : \A l \in Without : m <= l
      BY LeastOf
    <2>2. m \in Nat
      OBVIOUS
    <2>3. PICK T : T \subseteq 1 .. m /\ ~ \E e : Lists(e, T)
      OBVIOUS
    <2>7. T \subseteq Nat /\ \A x \in T : 1 <= x /\ x <= m
      BY <2>2, <2>3
    <2>4. CASE T = {}
      <3>1. Cardinality(T) = 0
        BY <2>4, FS_EmptySet
      <3>2. Lists(<<>>, T)
        BY <3>1 DEF Lists, Increasing
      <3> QED BY <2>3, <3>2
    <2>5. CASE m \notin T /\ T # {}
      <3>0. \A x \in T : x # m
        BY <2>5
      <3>1. m - 1 \in Nat /\ T \subseteq 1 .. m - 1
        <4>1. m # 0
          <5>1. PICK x \in T : TRUE
            BY <2>5
          <5> QED BY <2>2, <2>7, <5>1
        <4>2. \A x \in T : x \in 1 .. m - 1
          BY <2>2, <2>7, <3>0
        <4> QED BY <2>2, <4>1, <4>2
      <3>2. m - 1 \in Without
        BY <2>3, <3>1
      <3> QED BY <2>1, <2>2, <3>2
    <2>6. CASE m \in T
      <3> DEFINE R == T \ {m}
      <3>1. m - 1 \in Nat /\ R \subseteq 1 .. m - 1
        <4>1. \A x \in R : x # m /\ x \in T
          OBVIOUS
        <4>2. \A x \in R : x \in 1 .. m - 1
          BY <2>2, <2>7, <4>1
        <4> QED BY <2>2, <2>6, <2>7, <4>2
      <3>2. m - 1 \notin Without
        BY <2>1, <2>2
      <3>3. PICK e : Lists(e, R)
        BY <3>1, <3>2
      <3>4. IsFiniteSet(R) /\ Cardinality(R) \in Nat
        BY <1>1, <3>1, FS_CardinalityType
      <3>5. Cardinality(T) = Cardinality(R) + 1
        <4>1. T = R \cup {m}
          BY <2>6
        <4> QED BY <3>4, <4>1, FS_AddElement
      <3> DEFINE f == [k \in 1 .. Cardinality(T) |-> IF k <= Cardinality(R) THEN e[k] ELSE m]
      <3>6. \A k \in 1 .. Cardinality(R) : e[k] \in R /\ e[k] \in 1 .. m - 1
        BY <3>1, <3>3 DEF Lists
      <3>7. f \in [1 .. Cardinality(T) -> T]
        <4> SUFFICES ASSUME NEW k \in 1 .. Cardinality(T)
                     PROVE  (IF k <= Cardinality(R) THEN e[k] ELSE m) \in T
          BY Zenon
        <4>1. k <= Cardinality(R) => k \in 1 .. Cardinality(R)
          BY <3>4, <3>5
        <4>2. k <= Cardinality(R) => e[k] \in R
          BY <3>6, <4>1
        <4> QED BY <2>6, <4>2
      <3>8. Increasing(f)
        <4> SUFFICES ASSUME NEW k \in 1 .. Cardinality(T), NEW l \in 1 .. Cardinality(T), k < l
                     PROVE  f[k] < f[l]
          BY Zenon DEF Increasing
        <4>4. k \in 1 .. Cardinality(R) /\ k <= Cardinality(R)
          BY <3>4, <3>5
        <4>1. f[k] = e[k] /\ f[k] \in 1 .. m - 1
          BY <3>6, <4>4
        <4>2. CASE l <= Cardinality(R)
          <5>1. l \in 1 .. Cardinality(R) /\ f[l] = e[l]
            BY <3>4, <3>5, <4>2
          <5>2. e[k] < e[l]
            BY <3>3, <4>4, <5>1 DEF Lists, Increasing
          <5> QED BY <4>1, <5>1, <5>2
        <4>3. CASE ~ (l <= Cardinality(R))
          <5>1. f[l] = m
            BY <4>3
          <5> QED BY <2>2, <4>1, <5>1
        <4> QED BY <4>2, <4>3
      <3>9. Lists(f, T)
        BY <3>7, <3>8 DEF Lists
      <3> QED BY <2>3, <3>9
    <2> QED BY <2>4, <2>5, <2>6
  <1> QED BY <1>1, <1>2

(* InOrder is that list.                                                   *)
LEMMA InOrderLists ==
  ASSUME NEW n \in Nat, NEW S, S \subseteq 1 .. n
  PROVE  Lists(InOrder(S), S)
  <1>1. \E e \in [1 .. Cardinality(S) -> S] : \A k, l \in DOMAIN e : k < l => e[k] < e[l]
    BY ListExists DEF Lists, Increasing
  <1> QED BY <1>1 DEF InOrder, Lists, Increasing

-----------------------------------------------------------------------------
(* Positions *)

(* What NextOf finds, and that nothing else is there to be found.          *)
LEMMA NextFound ==
  ASSUME NEW b \in Seq(Bytes), NEW i \in 1 .. Len(b) + 1, NEW S
  PROVE  /\ NextOf(S, b, i) \in i .. Len(b) + 1
         /\ NextOf(S, b, i) <= Len(b) => b[NextOf(S, b, i)] \in S
         /\ \A j \in i .. Len(b) : j < NextOf(S, b, i) => b[j] \notin S
  <1> DEFINE found == {j \in i .. Len(b) : b[j] \in S}
  <1>1. CASE found = {}
    BY <1>1 DEF NextOf
  <1>2. CASE found # {}
    <2>1. found \subseteq Nat
      OBVIOUS
    <2>2. \E x \in found : \A y \in found : x <= y
      BY <1>2, <2>1, LeastOf, Zenon
    <2>3. NextOf(S, b, i) = CHOOSE x \in found : \A y \in found : x <= y
      BY <1>2, Zenon DEF NextOf
    <2>4. NextOf(S, b, i) \in found /\ \A y \in found : NextOf(S, b, i) <= y
      BY <2>2, <2>3, Zenon
    <2>5. NextOf(S, b, i) \in i .. Len(b) /\ b[NextOf(S, b, i)] \in S
      BY <2>4
    <2> QED BY <2>4, <2>5
  <1> QED BY <1>1, <1>2

(* The first position of that kind is the only one that is first.          *)
LEMMA NextIs ==
  ASSUME NEW b \in Seq(Bytes), NEW i \in 1 .. Len(b) + 1, NEW S, NEW n \in i .. Len(b) + 1,
         n <= Len(b) => b[n] \in S, \A j \in i .. Len(b) : j < n => b[j] \notin S
  PROVE  NextOf(S, b, i) = n
  <1>1. /\ NextOf(S, b, i) \in i .. Len(b) + 1
        /\ NextOf(S, b, i) <= Len(b) => b[NextOf(S, b, i)] \in S
        /\ \A j \in i .. Len(b) : j < NextOf(S, b, i) => b[j] \notin S
    BY NextFound
  <1>2. ~ (NextOf(S, b, i) < n)
    BY <1>1
  <1>3. ~ (n < NextOf(S, b, i))
    BY <1>1
  <1> QED BY <1>1, <1>2, <1>3

(* What is left of b after m bytes.                                        *)
Rest(b, m) == SubSeq(b, m + 1, Len(b))

(* Its bytes are those of b, m positions on.                               *)
LEMMA RestFacts ==
  ASSUME NEW b \in Seq(Bytes), NEW m \in 0 .. Len(b)
  PROVE  /\ Rest(b, m) \in Seq(Bytes) /\ Len(Rest(b, m)) = Len(b) - m
         /\ \A j \in 1 .. Len(b) - m : Rest(b, m)[j] = b[m + j]
  <1>1. m + 1 \in Int /\ Len(b) \in Int /\ \A i \in m + 1 .. Len(b) : b[i] \in Bytes
    OBVIOUS
  <1>2. /\ SubSeq(b, m + 1, Len(b)) \in Seq(Bytes)
        /\ Len(SubSeq(b, m + 1, Len(b))) = IF m + 1 <= Len(b) THEN Len(b) - (m + 1) + 1 ELSE 0
        /\ \A i \in 1 .. Len(b) - (m + 1) + 1 : SubSeq(b, m + 1, Len(b))[i] = b[m + 1 + i - 1]
    BY <1>1, SubSeqProperties
  <1> QED BY <1>2 DEF Rest

(* A part of b behind the first m bytes is one of what is left.            *)
LEMMA SamePart ==
  ASSUME NEW b \in Seq(Bytes), NEW m \in 0 .. Len(b), NEW i \in 1 .. Len(b) - m + 1, NEW j \in Nat,
         j <= Len(b) - m
  PROVE  /\ SubSeq(b, m + i, m + j) = SubSeq(Rest(b, m), i, j)
         /\ SubSeq(b, m + i, m + j) \in Seq(Bytes)
         /\ Len(SubSeq(b, m + i, m + j)) = IF i <= j THEN j - i + 1 ELSE 0
  <1> DEFINE d == Rest(b, m)
             p == SubSeq(b, m + i, m + j)
             q == SubSeq(d, i, j)
  <1>1. d \in Seq(Bytes) /\ Len(d) = Len(b) - m /\ \A k \in 1 .. Len(b) - m : d[k] = b[m + k]
    BY RestFacts, Zenon
  <1> HIDE DEF d
  <1>2. /\ p \in Seq(Bytes) /\ Len(p) = IF m + i <= m + j THEN m + j - (m + i) + 1 ELSE 0
        /\ \A k \in 1 .. m + j - (m + i) + 1 : p[k] = b[m + i + k - 1]
    <2>1. m + i \in Int /\ m + j \in Int /\ \A k \in m + i .. m + j : b[k] \in Bytes
      OBVIOUS
    <2> QED BY <2>1, SubSeqProperties
  <1>3. /\ q \in Seq(Bytes) /\ Len(q) = IF i <= j THEN j - i + 1 ELSE 0
        /\ \A k \in 1 .. j - i + 1 : q[k] = d[i + k - 1]
    <2>1. i \in Int /\ j \in Int /\ \A k \in i .. j : d[k] \in Bytes
      BY <1>1
    <2> QED BY <2>1, SubSeqProperties
  <1>4. Len(p) = Len(q)
    BY <1>2, <1>3
  <1>5. \A k \in 1 .. Len(p) : p[k] = q[k]
    <2> TAKE k \in 1 .. Len(p)
    <2>1. k \in 1 .. j - i + 1 /\ i <= j
      BY <1>2
    <2>2. p[k] = b[m + i + k - 1] /\ q[k] = d[i + k - 1]
      BY <1>2, <1>3, <2>1
    <2>3. i + k - 1 \in 1 .. Len(b) - m
      BY <2>1
    <2>4. d[i + k - 1] = b[m + (i + k - 1)]
      BY <1>1, <2>3
    <2>5. m + (i + k - 1) = m + i + k - 1
      BY <2>1
    <2> HIDE DEF p, q
    <2> QED BY <2>2, <2>4, <2>5
  <1> HIDE DEF p, q
  <1>6. p = q
    BY <1>2, <1>3, <1>4, <1>5, SeqEqual
  <1> QED BY <1>2, <1>3, <1>6 DEF p, q, d

(* Dropping bytes moves what NextOf finds behind them.                     *)
LEMMA NextInRest ==
  ASSUME NEW b \in Seq(Bytes), NEW m \in 0 .. Len(b), NEW S, NEW i \in 1 .. Len(b) - m + 1
  PROVE  NextOf(S, b, m + i) = m + NextOf(S, Rest(b, m), i)
  <1> DEFINE d == Rest(b, m)
             n == NextOf(S, d, i)
  <1>1. d \in Seq(Bytes) /\ Len(d) = Len(b) - m /\ \A k \in 1 .. Len(b) - m : d[k] = b[m + k]
    BY RestFacts, Zenon
  <1> HIDE DEF d
  <1>2. i \in 1 .. Len(d) + 1
    BY <1>1
  <1>3. /\ n \in i .. Len(d) + 1
        /\ n <= Len(d) => d[n] \in S
        /\ \A j \in i .. Len(d) : j < n => d[j] \notin S
    BY <1>1, <1>2, NextFound
  <1> HIDE DEF n
  <1>4. m + i \in 1 .. Len(b) + 1 /\ m + n \in m + i .. Len(b) + 1
    BY <1>1, <1>3
  <1>5. m + n <= Len(b) => b[m + n] \in S
    BY <1>1, <1>3
  <1>6. ASSUME NEW j \in m + i .. Len(b), j < m + n
        PROVE  b[j] \notin S
    <2>1. j - m \in i .. Len(d) /\ j - m < n /\ j - m \in 1 .. Len(b) - m /\ m + (j - m) = j
      BY <1>1, <1>3, <1>6
    <2> QED BY <1>1, <1>3, <2>1
  <1>7. NextOf(S, b, m + i) = m + n
    BY <1>4, <1>5, <1>6, NextIs
  <1> QED BY <1>7 DEF n, d

(* Dropping m bytes and then n is dropping m + n.                          *)
LEMMA RestTwice ==
  ASSUME NEW b \in Seq(Bytes), NEW m \in 0 .. Len(b), NEW n \in 0 .. Len(b) - m
  PROVE  Rest(Rest(b, m), n) = Rest(b, m + n)
  <1> DEFINE d == Rest(b, m)
  <1>1. d \in Seq(Bytes) /\ Len(d) = Len(b) - m
    BY RestFacts, Zenon
  <1>2. SubSeq(b, m + (n + 1), m + (Len(b) - m)) = SubSeq(d, n + 1, Len(b) - m)
    BY SamePart
  <1>3. m + (n + 1) = m + n + 1 /\ m + (Len(b) - m) = Len(b)
    OBVIOUS
  <1>4. SubSeq(b, m + n + 1, Len(b)) = SubSeq(d, n + 1, Len(d))
    BY <1>1, <1>2, <1>3
  <1> QED BY <1>4 DEF Rest

(* Dropping bytes of b leaves what follows b.                              *)
LEMMA RestBefore ==
  ASSUME NEW b \in Seq(Bytes), NEW c \in Seq(Bytes), NEW m \in 0 .. Len(b)
  PROVE  Rest(b \o c, m) = Rest(b, m) \o c
  <1> DEFINE p == Rest(b \o c, m)
             d == Rest(b, m)
             q == d \o c
  <1>1. /\ b \o c \in Seq(Bytes) /\ Len(b \o c) = Len(b) + Len(c)
        /\ \A k \in 1 .. Len(b) + Len(c) : (b \o c)[k] = IF k <= Len(b) THEN b[k] ELSE c[k - Len(b)]
    BY ConcatProperties, Zenon
  <1>2. d \in Seq(Bytes) /\ Len(d) = Len(b) - m /\ \A k \in 1 .. Len(b) - m : d[k] = b[m + k]
    BY RestFacts, Zenon
  <1>3. m \in 0 .. Len(b \o c)
    BY <1>1
  <1>4. /\ p \in Seq(Bytes) /\ Len(p) = Len(b \o c) - m
        /\ \A k \in 1 .. Len(b \o c) - m : p[k] = (b \o c)[m + k]
    BY <1>1, <1>3, RestFacts, Zenon
  <1> HIDE DEF d, p
  <1>5. /\ q \in Seq(Bytes) /\ Len(q) = Len(d) + Len(c)
        /\ \A k \in 1 .. Len(d) + Len(c) : q[k] = IF k <= Len(d) THEN d[k] ELSE c[k - Len(d)]
    BY <1>2, ConcatProperties, Zenon
  <1> HIDE DEF q
  <1>6. Len(p) = Len(q)
    BY <1>1, <1>2, <1>4, <1>5
  <1>7. \A k \in 1 .. Len(p) : p[k] = q[k]
    <2> TAKE k \in 1 .. Len(p)
    <2>1. k \in 1 .. Len(b \o c) - m /\ k \in 1 .. Len(d) + Len(c) /\ m + k \in 1 .. Len(b) + Len(c)
      BY <1>1, <1>2, <1>4
    <2>2. p[k] = (b \o c)[m + k]
      BY <1>4, <2>1
    <2>3. CASE k <= Len(d)
      <3>1. k \in 1 .. Len(b) - m /\ m + k <= Len(b)
        BY <1>2, <2>3
      <3>2. p[k] = b[m + k] /\ q[k] = d[k] /\ d[k] = b[m + k]
        BY <1>1, <1>2, <1>5, <2>1, <2>2, <2>3, <3>1
      <3> QED BY <3>2
    <2>4. CASE ~ (k <= Len(d))
      <3>1. ~ (m + k <= Len(b)) /\ m + k - Len(b) = k - Len(d)
        BY <1>2, <2>4
      <3>2. p[k] = c[m + k - Len(b)] /\ q[k] = c[k - Len(d)]
        <4>1. (b \o c)[m + k] = IF m + k <= Len(b) THEN b[m + k] ELSE c[m + k - Len(b)]
          BY <1>1, <2>1
        <4>2. q[k] = IF k <= Len(d) THEN d[k] ELSE c[k - Len(d)]
          BY <1>5, <2>1
        <4> QED BY <2>2, <2>4, <3>1, <4>1, <4>2, Zenon
      <3> QED BY <3>1, <3>2
    <2> QED BY <2>3, <2>4
  <1>8. p = q
    BY <1>4, <1>5, <1>6, <1>7, SeqEqual
  <1> QED BY <1>8 DEF p, q, d

-----------------------------------------------------------------------------
(* The frames of a stream *)

(* The frames of b start within b, and InOrder lists where.                *)
LEMMA StartFacts ==
  ASSUME NEW b \in Seq(Bytes)
  PROVE  /\ Starts(b) \subseteq 1 .. Len(b) + 1
         /\ FrameStarts(b) \subseteq 1 .. Len(b)
         /\ IsFiniteSet(FrameStarts(b)) /\ FrameStarts(b) \subseteq Nat
         /\ Lists(InOrder(FrameStarts(b)), FrameStarts(b))
  <1>1. Starts(b) \subseteq 1 .. Len(b) + 1
    BY DEF Starts
  <1>2. ASSUME NEW i \in FrameStarts(b)
        PROVE  i \in 1 .. Len(b)
    <2>1. i \in 1 .. Len(b) + 1 /\ NextOf({Nul}, b, i) <= Len(b)
      BY <1>1 DEF FrameStarts
    <2>2. NextOf({Nul}, b, i) \in i .. Len(b) + 1
      BY <2>1, NextFound
    <2> QED BY <2>1, <2>2
  <1>3. Len(b) \in Nat /\ FrameStarts(b) \subseteq 1 .. Len(b)
    BY <1>2
  <1>4. IsFiniteSet(FrameStarts(b)) /\ Lists(InOrder(FrameStarts(b)), FrameStarts(b))
    BY <1>3, ListExists, InOrderLists, Zenon
  <1> QED BY <1>1, <1>3, <1>4

(* The segment from a start on, by its ends.                               *)
LEMMA SegmentFacts ==
  ASSUME NEW b \in Seq(Bytes), NEW i \in 1 .. Len(b) + 1
  PROVE  /\ Segment(b, i) \in Seq(Bytes)
         /\ Len(Segment(b, i)) = IF NextOf({Digit}, b, i) < NextOf({Nul}, b, i)
                                 THEN NextOf({Nul}, b, i) - NextOf({Digit}, b, i) ELSE 0
  <1> DEFINE p == NextOf({Digit}, b, i)
             n == NextOf({Nul}, b, i)
  <1>1. p \in 1 .. Len(b) + 1 /\ n \in 1 .. Len(b) + 1
    <2>1. p \in i .. Len(b) + 1 /\ n \in i .. Len(b) + 1
      BY NextFound
    <2> QED BY <2>1
  <1> HIDE DEF p, n
  <1>2. p \in Int /\ n - 1 \in Int /\ \A k \in p .. n - 1 : b[k] \in Bytes
    BY <1>1
  <1>3. /\ SubSeq(b, p, n - 1) \in Seq(Bytes)
        /\ Len(SubSeq(b, p, n - 1)) = IF p <= n - 1 THEN n - 1 - p + 1 ELSE 0
    BY <1>2, SubSeqProperties
  <1>4. Len(SubSeq(b, p, n - 1)) = IF p < n THEN n - p ELSE 0
    BY <1>1, <1>3
  <1>5. Segment(b, i) = SubSeq(b, p, n - 1)
    BY DEF Segment, p, n
  <1> QED BY <1>3, <1>4, <1>5 DEF p, n

(* The frames of a stream are a sequence of byte sequences.                *)
LEMMA FramesOfType ==
  ASSUME NEW b \in Seq(Bytes)
  PROVE  FramesOf(b) \in Seq(Seq(Bytes))
  <1> DEFINE S == FrameStarts(b)
             e == InOrder(S)
  <1>1. S \subseteq 1 .. Len(b) /\ IsFiniteSet(S) /\ Lists(e, S)
    BY StartFacts, Zenon
  <1>2. Cardinality(S) \in Nat
    BY <1>1, FS_CardinalityType
  <1>3. e \in [1 .. Cardinality(S) -> S]
    BY <1>1 DEF Lists
  <1>4. \A i \in S : Segment(b, i) \in Seq(Bytes)
    BY <1>1, SegmentFacts
  <1>5. FramesOf(b) = [k \in 1 .. Cardinality(S) |-> Segment(b, e[k])]
    BY <1>3, Zenon DEF FramesOf
  <1> HIDE DEF e, S
  <1>6. \A k \in 1 .. Cardinality(S) : Segment(b, e[k]) \in Seq(Bytes)
    BY <1>3, <1>4
  <1> QED BY <1>2, <1>5, <1>6, IsASeq

(* Frames whose starts are in one order are equal.                         *)
LEMMA SameFrames ==
  ASSUME NEW a \in Seq(Bytes), NEW b \in Seq(Bytes),
         NEW g, g \in [FrameStarts(b) -> FrameStarts(a)],
         \A i, j \in FrameStarts(b) : i < j => g[i] < g[j],
         \A i \in FrameStarts(a) : \E j \in FrameStarts(b) : g[j] = i,
         \A i \in FrameStarts(b) : Segment(a, g[i]) = Segment(b, i)
  PROVE  FramesOf(a) = FramesOf(b)
  <1> DEFINE A == FrameStarts(a)
             B == FrameStarts(b)
             n == Cardinality(B)
             f == InOrder(B)
             e == [k \in 1 .. n |-> g[f[k]]]
  <1>1. A \subseteq Nat /\ IsFiniteSet(A) /\ Lists(InOrder(A), A)
    BY StartFacts, Zenon
  <1>2. B \subseteq Nat /\ IsFiniteSet(B) /\ Lists(f, B)
    BY StartFacts, Zenon
  <1>3. n \in Nat
    BY <1>2, FS_CardinalityType
  <1>4. f \in [1 .. n -> B] /\ \A k, l \in 1 .. n : k < l => f[k] < f[l]
    BY <1>2 DEF Lists, Increasing
  <1> HIDE DEF A, B
  <1>g. /\ g \in [B -> A] /\ \A i, j \in B : i < j => g[i] < g[j]
        /\ \A i \in A : \E j \in B : g[j] = i
        /\ \A i \in B : Segment(a, g[i]) = Segment(b, i)
    BY Zenon DEF A, B
  <1>5. Cardinality(A) = n
    <2>1. \A i, j \in B : g[i] = g[j] => i = j
      <3> SUFFICES ASSUME NEW i \in B, NEW j \in B, g[i] = g[j], i # j PROVE FALSE
        OBVIOUS
      <3>1. g[i] \in Nat /\ g[j] \in Nat
        BY <1>1, <1>g
      <3>2. i < j \/ j < i
        BY <1>2
      <3> QED BY <1>g, <3>1, <3>2
    <2>2. g \in Bijection(B, A)
      BY <1>g, <2>1, Zenon DEF Bijection, Injection, Surjection, IsInjective
    <2>3. ExistsBijection(B, A)
      BY <2>2, Zenon DEF ExistsBijection
    <2> QED BY <1>2, <2>3, FS_Bijection, Zenon
  <1> HIDE DEF f, n
  <1>6. e \in [1 .. n -> A]
    BY <1>4, <1>g
  <1>7. \A k, l \in 1 .. n : k < l => e[k] < e[l]
    BY <1>4, <1>g
  <1> HIDE DEF e
  <1>8. Lists(e, A)
    BY <1>5, <1>6, <1>7 DEF Lists, Increasing
  <1>9. InOrder(A) = e
    BY <1>1, <1>8, ListsOnce, Zenon
  <1>10. FramesOf(a) = [k \in 1 .. n |-> Segment(a, e[k])]
    <2>1. FramesOf(a) = [k \in DOMAIN InOrder(A) |-> Segment(a, InOrder(A)[k])]
      BY Zenon DEF FramesOf, A
    <2>2. DOMAIN e = 1 .. n
      BY <1>6
    <2> QED BY <1>9, <2>1, <2>2, Zenon
  <1>11. FramesOf(b) = [k \in 1 .. n |-> Segment(b, f[k])]
    <2>1. FramesOf(b) = [k \in DOMAIN f |-> Segment(b, f[k])]
      BY Zenon DEF FramesOf, B, f
    <2>2. DOMAIN f = 1 .. n
      BY <1>4
    <2> QED BY <2>1, <2>2, Zenon
  <1>12. \A k \in 1 .. n : Segment(a, e[k]) = Segment(b, f[k])
    <2> TAKE k \in 1 .. n
    <2>1. e[k] = g[f[k]] /\ f[k] \in B
      BY <1>4, Zenon DEF e
    <2> QED BY <1>g, <2>1, Zenon
  <1> QED BY <1>10, <1>11, <1>12, Zenon

(* One frame before the others, at the start of the stream.                *)
LEMMA OneMoreFrame ==
  ASSUME NEW a \in Seq(Bytes), NEW b \in Seq(Bytes), NEW m \in Nat,
         m >= 1, FrameStarts(a) = {1} \cup {m + i : i \in FrameStarts(b)},
         \A i \in FrameStarts(b) : Segment(a, m + i) = Segment(b, i)
  PROVE  FramesOf(a) = <<Segment(a, 1)>> \o FramesOf(b)
  <1> DEFINE A == FrameStarts(a)
             B == FrameStarts(b)
             n == Cardinality(B)
             f == InOrder(B)
             e == [k \in 1 .. n + 1 |-> IF k = 1 THEN 1 ELSE m + f[k - 1]]
             Moved == {m + i : i \in B}
  <1>1. A \subseteq Nat /\ IsFiniteSet(A) /\ Lists(InOrder(A), A)
    BY StartFacts, Zenon
  <1>2. B \subseteq Nat /\ IsFiniteSet(B) /\ Lists(f, B) /\ B \subseteq 1 .. Len(b)
    BY StartFacts, Zenon
  <1>3. n \in Nat
    BY <1>2, FS_CardinalityType
  <1>4. f \in [1 .. n -> B] /\ \A k, l \in 1 .. n : k < l => f[k] < f[l]
    BY <1>2 DEF Lists, Increasing
  <1> HIDE DEF A, B
  <1>g. A = {1} \cup Moved /\ \A i \in B : Segment(a, m + i) = Segment(b, i)
    BY Zenon DEF A, B
  <1>p. \A i \in B : i \in Nat /\ i >= 1
    BY <1>2
  <1>5. Cardinality(A) = n + 1
    <2> DEFINE g == [i \in B |-> m + i]
    <2>2. g \in [B -> Moved] /\ (\A j \in Moved : \E i \in B : g[i] = j)
      OBVIOUS
    <2>3. \A i, j \in B : g[i] = g[j] => i = j
      BY <1>p
    <2>4. g \in Bijection(B, Moved)
      <3> HIDE DEF g, Moved
      <3> QED BY <2>2, <2>3, Zenon DEF Bijection, Injection, Surjection, IsInjective
    <2>5. ExistsBijection(B, Moved)
      BY <2>4, Zenon DEF ExistsBijection
    <2>6. IsFiniteSet(Moved) /\ Cardinality(Moved) = n
      BY <1>2, <2>5, FS_Bijection, Zenon
    <2>7. 1 \notin Moved
      BY <1>p
    <2>8. A = Moved \cup {1}
      BY <1>g
    <2> HIDE DEF Moved, n
    <2> QED BY <2>6, <2>7, <2>8, FS_AddElement
  <1> HIDE DEF f, n
  <1>6. e \in [1 .. n + 1 -> A]
    <2> SUFFICES ASSUME NEW k \in 1 .. n + 1
                 PROVE  (IF k = 1 THEN 1 ELSE m + f[k - 1]) \in A
      BY Zenon
    <2>1. CASE k = 1
      BY <1>g, <2>1
    <2>2. CASE k # 1
      <3>1. k - 1 \in 1 .. n
        BY <1>3, <2>2
      <3>2. f[k - 1] \in B
        BY <1>4, <3>1
      <3>3. m + f[k - 1] \in Moved
        BY <3>2
      <3> QED BY <1>g, <2>2, <3>3
    <2> QED BY <2>1, <2>2
  <1>7. \A k, l \in 1 .. n + 1 : k < l => e[k] < e[l]
    <2> SUFFICES ASSUME NEW k \in 1 .. n + 1, NEW l \in 1 .. n + 1, k < l
                 PROVE  e[k] < e[l]
      OBVIOUS
    <2>1. l # 1 /\ l - 1 \in 1 .. n
      BY <1>3
    <2>2. e[l] = m + f[l - 1] /\ f[l - 1] \in B
      BY <1>4, <2>1
    <2>3. CASE k = 1
      BY <1>p, <2>2, <2>3
    <2>4. CASE k # 1
      <3>1. k - 1 \in 1 .. n /\ k - 1 < l - 1
        BY <1>3, <2>4
      <3>2. e[k] = m + f[k - 1] /\ f[k - 1] \in B /\ f[k - 1] < f[l - 1]
        BY <1>4, <2>1, <2>4, <3>1
      <3> QED BY <1>p, <2>2, <3>2
    <2> QED BY <2>3, <2>4
  <1> HIDE DEF e
  <1>8. Lists(e, A)
    BY <1>5, <1>6, <1>7 DEF Lists, Increasing
  <1>9. InOrder(A) = e
    BY <1>1, <1>8, ListsOnce, Zenon
  <1>10. FramesOf(a) = [k \in 1 .. n + 1 |-> Segment(a, e[k])]
    <2>1. FramesOf(a) = [k \in DOMAIN InOrder(A) |-> Segment(a, InOrder(A)[k])]
      BY Zenon DEF FramesOf, A
    <2>2. DOMAIN e = 1 .. n + 1
      BY <1>6
    <2> QED BY <1>9, <2>1, <2>2, Zenon
  <1>11. FramesOf(b) = [k \in 1 .. n |-> Segment(b, f[k])]
    <2>1. FramesOf(b) = [k \in DOMAIN f |-> Segment(b, f[k])]
      BY Zenon DEF FramesOf, B, f
    <2>2. DOMAIN f = 1 .. n
      BY <1>4
    <2> QED BY <2>1, <2>2, Zenon
  <1> DEFINE w == FramesOf(b)
             v == <<Segment(a, 1)>>
             T == Seq(Bytes)
  <1>12. w \in Seq(T) /\ FramesOf(a) \in Seq(T)
    BY FramesOfType, Zenon
  <1>13. v \in Seq(T) /\ Len(v) = 1 /\ v[1] = Segment(a, 1)
    <2>1. 1 \in 1 .. Len(a) + 1
      OBVIOUS
    <2>2. Segment(a, 1) \in T
      BY <2>1, SegmentFacts, Zenon
    <2> HIDE DEF T
    <2> QED BY <2>2
  <1>14. Len(w) = n /\ Len(FramesOf(a)) = n + 1
    <2>1. DOMAIN w = 1 .. n /\ DOMAIN FramesOf(a) = 1 .. n + 1
      BY <1>10, <1>11
    <2> QED BY <1>3, <1>12, <2>1, LenProperties
  <1> HIDE DEF w, v, T
  <1>15. /\ v \o w \in Seq(T) /\ Len(v \o w) = 1 + n
         /\ \A k \in 1 .. 1 + n : (v \o w)[k] = IF k <= 1 THEN v[k] ELSE w[k - 1]
    <2>1. /\ v \o w \in Seq(T) /\ Len(v \o w) = Len(v) + Len(w)
          /\ \A k \in 1 .. Len(v) + Len(w) : (v \o w)[k] = IF k <= Len(v) THEN v[k] ELSE w[k - Len(v)]
      BY <1>12, <1>13, ConcatProperties, Zenon
    <2> QED BY <1>13, <1>14, <2>1
  <1>16. \A k \in 1 .. n + 1 : FramesOf(a)[k] = (v \o w)[k]
    <2> TAKE k \in 1 .. n + 1
    <2>1. FramesOf(a)[k] = Segment(a, e[k])
      BY <1>10
    <2>2. (v \o w)[k] = IF k <= 1 THEN v[k] ELSE w[k - 1]
      BY <1>3, <1>15
    <2>3. CASE k = 1
      <3>1. e[k] = 1
        BY <2>3 DEF e
      <3>2. (v \o w)[k] = v[1]
        BY <2>2, <2>3
      <3> QED BY <1>13, <2>1, <3>1, <3>2
    <2>4. CASE k # 1
      <3>1. k - 1 \in 1 .. n /\ ~ (k <= 1)
        BY <1>3, <2>4
      <3>2. e[k] = m + f[k - 1] /\ f[k - 1] \in B
        BY <1>4, <2>4, <3>1 DEF e
      <3>3. w[k - 1] = Segment(b, f[k - 1])
        BY <1>11, <3>1 DEF w
      <3>4. Segment(a, m + f[k - 1]) = Segment(b, f[k - 1])
        BY <1>g, <3>2
      <3>5. (v \o w)[k] = w[k - 1]
        BY <2>2, <3>1
      <3> QED BY <2>1, <3>2, <3>3, <3>4, <3>5, Zenon
    <2> QED BY <2>3, <2>4
  <1>17. FramesOf(a) = v \o w
    <2>1. Len(FramesOf(a)) = Len(v \o w)
      BY <1>3, <1>14, <1>15
    <2>2. \A k \in 1 .. Len(FramesOf(a)) : FramesOf(a)[k] = (v \o w)[k]
      BY <1>14, <1>16
    <2> QED BY <1>12, <1>15, <2>1, <2>2, SeqEqual
  <1> QED BY <1>17 DEF v, w

-----------------------------------------------------------------------------
(* What is dropped *)

(* Where a frame starts does not depend on what is before it.              *)
LEMMA StartsMove ==
  ASSUME NEW x \in Seq(Bytes), NEW m \in 0 .. Len(x), NEW i \in 1 .. Len(x) - m + 1
  PROVE  /\ Segment(x, m + i) = Segment(Rest(x, m), i)
         /\ i # 1 => (m + i \in Starts(x) <=> i \in Starts(Rest(x, m)))
         /\ (m + i \in Starts(x) <=> i \in Starts(Rest(x, m)))
              => (m + i \in FrameStarts(x) <=> i \in FrameStarts(Rest(x, m)))
  <1> DEFINE y == Rest(x, m)
             p == NextOf({Digit}, y, i)
             n == NextOf({Nul}, y, i)
  <1>1. y \in Seq(Bytes) /\ Len(y) = Len(x) - m /\ \A k \in 1 .. Len(x) - m : y[k] = x[m + k]
    BY RestFacts, Zenon
  <1>2. NextOf({Digit}, x, m + i) = m + p /\ NextOf({Nul}, x, m + i) = m + n
    BY NextInRest, Zenon
  <1>3. p \in i .. Len(y) + 1 /\ n \in i .. Len(y) + 1
    <2> HIDE DEF y
    <2>1. i \in 1 .. Len(y) + 1
      BY <1>1
    <2> QED BY <1>1, <2>1, NextFound
  <1>4. Segment(x, m + i) = Segment(y, i)
    <2>1. p \in 1 .. Len(x) - m + 1 /\ n - 1 \in Nat /\ n - 1 <= Len(x) - m
      BY <1>1, <1>3
    <2>2. SubSeq(x, m + p, m + (n - 1)) = SubSeq(y, p, n - 1)
      <3> HIDE DEF p, n
      <3> QED BY <2>1, SamePart, Zenon DEF y
    <2>3. m + (n - 1) = (m + n) - 1
      BY <1>3
    <2>4. Segment(x, m + i) = SubSeq(x, m + p, (m + n) - 1)
      <3>1. Segment(x, m + i) = SubSeq(x, NextOf({Digit}, x, m + i), NextOf({Nul}, x, m + i) - 1)
        BY Zenon DEF Segment
      <3> HIDE DEF y, p, n
      <3> QED BY <1>2, <3>1, Zenon
    <2>5. Segment(y, i) = SubSeq(y, p, n - 1)
      BY Zenon DEF Segment
    <2> QED BY <2>2, <2>3, <2>4, <2>5, Zenon
  <1> HIDE DEF y, p, n
  <1>5. ASSUME i # 1
        PROVE  m + i \in Starts(x) <=> i \in Starts(y)
    <2>1. i - 1 \in 1 .. Len(x) - m /\ y[i - 1] = x[m + (i - 1)] /\ m + (i - 1) = m + i - 1
      BY <1>1, <1>5
    <2>2. m + i # 1 /\ (m + i \in 2 .. Len(x) <=> i \in 2 .. Len(y))
      BY <1>1, <1>5
    <2> QED BY <1>5, <2>1, <2>2 DEF Starts
  <1>6. m + n <= Len(x) <=> n <= Len(y)
    BY <1>1, <1>3
  <1>7. /\ m + i \in FrameStarts(x) <=> m + i \in Starts(x) /\ m + n <= Len(x) /\ ValidLength(Len(Segment(x, m + i)))
        /\ i \in FrameStarts(y) <=> i \in Starts(y) /\ n <= Len(y) /\ ValidLength(Len(Segment(y, i)))
    BY <1>2, Zenon DEF FrameStarts, n
  <1>8. (m + i \in Starts(x) <=> i \in Starts(y)) => (m + i \in FrameStarts(x) <=> i \in FrameStarts(y))
    BY <1>4, <1>6, <1>7, Zenon
  <1> QED BY <1>4, <1>5, <1>8, Zenon DEF y

(* A first byte that is no digit has no frame.                             *)
LEMMA DropOne ==
  ASSUME NEW x \in Seq(Bytes), Len(x) >= 1, x[1] # Digit
  PROVE  FramesOf(x) = FramesOf(Rest(x, 1))
  <1> DEFINE y == Rest(x, 1)
             n == NextOf({Nul}, x, 1)
             p == NextOf({Digit}, x, 1)
             X == FrameStarts(x)
             Y == FrameStarts(y)
             g == [i \in Y |-> IF i = 1 /\ x[1] # Nul THEN 1 ELSE 1 + i]
  <1>0. 1 \in 0 .. Len(x) /\ 1 \in 1 .. Len(x) + 1 /\ Len(x) \in Nat
    OBVIOUS
  <1>1. y \in Seq(Bytes) /\ Len(y) = Len(x) - 1
    BY <1>0, RestFacts, Zenon
  <1> HIDE DEF y
  <1>2. \A i \in Y : i \in 1 .. Len(y)
    BY <1>1, StartFacts
  <1>3. \A i \in X : i \in 1 .. Len(x)
    BY StartFacts
  <1>4. \A i \in 1 .. Len(x) : Segment(x, 1 + i) = Segment(y, i)
    BY <1>0, StartsMove DEF y
  <1>5. \A i \in 1 .. Len(x) : i # 1 => (1 + i \in X <=> i \in Y)
    BY <1>0, StartsMove DEF y
  <1>6. CASE x[1] = Nul
    <2>1. n = 1
      <3>1. 1 \in 1 .. Len(x) + 1 /\ x[1] \in {Nul} /\ \A j \in 1 .. Len(x) : ~ (j < 1)
        BY <1>0, <1>6
      <3> QED BY <3>1, NextIs
    <2>2. p # 1 /\ p \in 1 .. Len(x) + 1
      <3>1. /\ p \in 1 .. Len(x) + 1
            /\ p <= Len(x) => x[p] \in {Digit}
        BY <1>0, NextFound
      <3> QED BY <1>0, <1>6, <3>1 DEF Nul, Digit
    <2>3. 1 \notin X
      <3>1. Len(Segment(x, 1)) = 0
        <4>1. Len(Segment(x, 1)) = IF p < n THEN n - p ELSE 0
          BY <1>0, SegmentFacts
        <4> QED BY <2>1, <2>2, <4>1
      <3>2. ~ ValidLength(0)
        BY LengthsAssumption DEF ValidLength
      <3> QED BY <3>1, <3>2, Zenon DEF FrameStarts
    <2>4. 2 <= Len(x) => (2 \in X <=> 1 \in Y)
      <3> SUFFICES ASSUME 2 <= Len(x) PROVE 2 \in X <=> 1 \in Y
        OBVIOUS
      <3>1. 1 + 1 \in Starts(x) /\ 1 \in Starts(y)
        BY <1>0, <1>6 DEF Starts
      <3>2. 1 \in 1 .. Len(x) - 1 + 1
        BY <1>0
      <3>3. 1 + 1 \in X <=> 1 \in Y
        BY <1>0, <3>1, <3>2, StartsMove, Zenon DEF y
      <3> QED BY <3>3
    <2>5. \A i \in Y : g[i] = 1 + i /\ 1 + i \in X
      <3> TAKE i \in Y
      <3>1. i \in 1 .. Len(y) /\ i \in 1 .. Len(x)
        BY <1>1, <1>2
      <3>2. CASE i = 1
        BY <1>1, <1>6, <2>4, <3>1, <3>2
      <3>3. CASE i # 1
        BY <1>5, <3>1, <3>3
      <3> QED BY <3>2, <3>3
    <2>6. \A i \in X : i - 1 \in Y
      <3> TAKE i \in X
      <3>1. i \in 1 .. Len(x) /\ i # 1
        BY <1>3, <2>3
      <3>2. CASE i = 2
        BY <2>4, <3>1, <3>2
      <3>3. CASE i # 2
        <4>1. i - 1 \in 1 .. Len(x) /\ i - 1 # 1 /\ 1 + (i - 1) = i
          BY <3>1, <3>3
        <4>2. 1 + (i - 1) \in X <=> i - 1 \in Y
          BY <1>5, <4>1
        <4> QED BY <4>1, <4>2
      <3> QED BY <3>2, <3>3
    <2> HIDE DEF g, X, Y
    <2>7. g \in [Y -> X]
      BY <2>5 DEF g
    <2>8. \A i, j \in Y : i < j => g[i] < g[j]
      BY <1>2, <2>5
    <2>9. \A i \in X : \E j \in Y : g[j] = i
      <3> TAKE i \in X
      <3>1. g[i - 1] = 1 + (i - 1) /\ 1 + (i - 1) = i
        BY <1>3, <2>5, <2>6
      <3> QED BY <2>6, <3>1
    <2>10. \A i \in Y : Segment(x, g[i]) = Segment(y, i)
      <3> TAKE i \in Y
      <3>1. i \in 1 .. Len(x)
        BY <1>1, <1>2
      <3> QED BY <1>4, <2>5, <3>1
    <2> QED BY <1>1, <2>7, <2>8, <2>9, <2>10, SameFrames, Zenon DEF X, Y, y
  <1>7. CASE x[1] # Nul
    <2>1. \A S : x[1] \notin S => NextOf(S, x, 1) = NextOf(S, x, 1 + 1)
      <3> SUFFICES ASSUME NEW S, x[1] \notin S PROVE NextOf(S, x, 1) = NextOf(S, x, 1 + 1)
        OBVIOUS
      <3> DEFINE q == NextOf(S, x, 1 + 1)
      <3>1. 1 + 1 \in 1 .. Len(x) + 1
        BY <1>0
      <3>2. /\ q \in 1 + 1 .. Len(x) + 1
            /\ q <= Len(x) => x[q] \in S
            /\ \A j \in 1 + 1 .. Len(x) : j < q => x[j] \notin S
        BY <3>1, NextFound, Zenon
      <3> HIDE DEF q
      <3>3. q \in 1 .. Len(x) + 1 /\ \A j \in 1 .. Len(x) : j < q => x[j] \notin S
        BY <1>0, <3>2
      <3>4. NextOf(S, x, 1) = q
        BY <1>0, <3>2, <3>3, NextIs, Zenon
      <3> QED BY <3>4 DEF q
    <2>2. p = NextOf({Digit}, x, 1 + 1) /\ n = NextOf({Nul}, x, 1 + 1)
      BY <1>7, <2>1
    <2>3. Segment(x, 1) = Segment(x, 1 + 1)
      BY <2>2, Zenon DEF Segment
    <2>4. Segment(x, 1) = Segment(y, 1)
      <3>1. 1 \in 1 .. Len(x)
        BY <1>0
      <3> QED BY <1>4, <2>3, <3>1
    <2>5. 1 \in X <=> 1 \in Y
      <3>1. n = 1 + NextOf({Nul}, y, 1)
        <4>1. 1 \in 1 .. Len(x) - 1 + 1
          BY <1>0
        <4> QED BY <1>0, <2>2, <4>1, NextInRest, Zenon DEF y
      <3>2. NextOf({Nul}, y, 1) \in 1 .. Len(y) + 1
        <4>1. 1 \in 1 .. Len(y) + 1
          BY <1>1
        <4> QED BY <1>1, <4>1, NextFound, Zenon
      <3>3. n <= Len(x) <=> NextOf({Nul}, y, 1) <= Len(y)
        BY <1>0, <1>1, <3>1, <3>2
      <3>4. 1 \in Starts(x) /\ 1 \in Starts(y)
        BY Zenon DEF Starts
      <3> QED BY <2>4, <3>3, <3>4, Zenon DEF FrameStarts
    <2>6. 2 \notin X
      <3>1. 2 \notin Starts(x)
        BY <1>0, <1>7 DEF Starts
      <3> QED BY <3>1, Zenon DEF FrameStarts
    <2>7. \A i \in Y : g[i] \in X /\ g[i] = IF i = 1 THEN 1 ELSE 1 + i
      <3> TAKE i \in Y
      <3>1. i \in 1 .. Len(x)
        BY <1>1, <1>2
      <3> QED BY <1>5, <1>7, <2>5, <3>1
    <2>8. \A i \in X : i = 1 \/ (i # 1 /\ i - 1 \in Y /\ i - 1 # 1)
      <3> TAKE i \in X
      <3>1. i \in 1 .. Len(x) /\ i # 2
        BY <1>3, <2>6
      <3>2. CASE i # 1
        <4>1. i - 1 \in 1 .. Len(x) /\ i - 1 # 1 /\ 1 + (i - 1) = i
          BY <3>1, <3>2
        <4>2. 1 + (i - 1) \in X <=> i - 1 \in Y
          BY <1>5, <4>1
        <4> QED BY <3>2, <4>1, <4>2
      <3> QED BY <3>2
    <2> HIDE DEF X, Y
    <2>9. g \in [Y -> X]
      BY <2>7
    <2> HIDE DEF g
    <2>10. \A i, j \in Y : i < j => g[i] < g[j]
      <3> SUFFICES ASSUME NEW i \in Y, NEW j \in Y, i < j PROVE g[i] < g[j]
        OBVIOUS
      <3>1. i \in Nat /\ j \in Nat /\ i >= 1
        BY <1>2
      <3> QED BY <2>7, <3>1
    <2>11. \A i \in X : \E j \in Y : g[j] = i
      <3> TAKE i \in X
      <3>1. CASE i = 1
        BY <2>5, <2>7, <3>1
      <3>2. CASE i # 1
        <4>1. i - 1 \in Y /\ i - 1 # 1 /\ i \in Nat
          BY <1>3, <2>8, <3>2
        <4>2. g[i - 1] = 1 + (i - 1)
          BY <2>7, <4>1
        <4> QED BY <4>1, <4>2
      <3> QED BY <3>1, <3>2
    <2>12. \A i \in Y : Segment(x, g[i]) = Segment(y, i)
      <3> TAKE i \in Y
      <3>1. i \in 1 .. Len(x)
        BY <1>1, <1>2
      <3> QED BY <1>4, <2>4, <2>7, <3>1
    <2> QED BY <1>1, <2>9, <2>10, <2>11, <2>12, SameFrames, Zenon DEF X, Y, y
  <1> QED BY <1>6, <1>7, Zenon DEF y

(* What is skipped to the next digit has no frame.                         *)
LEMMA DropOthers ==
  ASSUME NEW x \in Seq(Bytes), NEW m \in 0 .. Len(x), \A k \in 1 .. m : x[k] # Digit
  PROVE  FramesOf(x) = FramesOf(Rest(x, m))
  <1> DEFINE Bad == {l \in 0 .. m : FramesOf(x) # FramesOf(Rest(x, l))}
  <1>1. Bad = {}
    <2> SUFFICES ASSUME Bad # {} PROVE FALSE
      OBVIOUS
    <2>1. Bad \subseteq Nat
      OBVIOUS
    <2>2. PICK l \in Bad : \A k \in Bad : l <= k
      BY <2>1, LeastOf, Zenon
    <2>3. l \in 0 .. m /\ FramesOf(x) # FramesOf(Rest(x, l))
      OBVIOUS
    <2>4. CASE l = 0
      <3>1. Rest(x, 0) = x
        <4>1. SubSeq(x, 1, Len(x)) = x
          BY SubSeqFull
        <4> QED BY <4>1 DEF Rest
      <3> QED BY <2>3, <2>4, <3>1
    <2>5. CASE l # 0
      <3> DEFINE d == Rest(x, l - 1)
      <3>1. l - 1 \in 0 .. m /\ l - 1 \in 0 .. Len(x) /\ 1 \in 0 .. Len(x) - (l - 1) /\ l - 1 + 1 = l
        BY <2>3, <2>5
      <3>2. FramesOf(x) = FramesOf(d)
        <4>1. l - 1 \notin Bad
          BY <2>2, <2>3, <3>1
        <4> QED BY <3>1, <4>1
      <3>3. /\ d \in Seq(Bytes) /\ Len(d) = Len(x) - (l - 1)
            /\ \A j \in 1 .. Len(x) - (l - 1) : d[j] = x[l - 1 + j]
        BY <3>1, RestFacts, Zenon
      <3>4. Rest(d, 1) = Rest(x, l)
        BY <3>1, RestTwice
      <3> HIDE DEF d
      <3>5. Len(d) >= 1 /\ d[1] # Digit
        <4>1. 1 \in 1 .. Len(x) - (l - 1) /\ l \in 1 .. m
          BY <2>3, <2>5
        <4>2. d[1] = x[l - 1 + 1]
          BY <3>3, <4>1
        <4> QED BY <3>1, <3>3, <4>1, <4>2
      <3>6. FramesOf(d) = FramesOf(Rest(d, 1))
        BY <3>3, <3>5, DropOne, Zenon
      <3> QED BY <2>3, <3>2, <3>4, <3>6
    <2> QED BY <2>4, <2>5
  <1>2. m \in 0 .. m
    OBVIOUS
  <1> QED BY <1>1, <1>2

(* A stream that starts with a digit starts with a frame, or with one that *)
(* is discarded.                                                           *)
LEMMA FirstFrame ==
  ASSUME NEW x \in Seq(Bytes), NEW n \in 1 .. Len(x), x[1] = Digit, NextOf({Nul}, x, 1) = n
  PROVE  FramesOf(x) = (IF ValidLength(n - 1) THEN <<SubSeq(x, 1, n - 1)>> ELSE <<>>) \o FramesOf(Rest(x, n))
  <1> DEFINE y == Rest(x, n)
             X == FrameStarts(x)
             Y == FrameStarts(y)
  <1>0. 1 \in 1 .. Len(x) + 1 /\ Len(x) \in Nat /\ n \in 0 .. Len(x)
    OBVIOUS
  <1>1. y \in Seq(Bytes) /\ Len(y) = Len(x) - n
    BY <1>0, RestFacts, Zenon
  <1> HIDE DEF y
  <1>2. x[n] = Nul /\ \A j \in 1 .. Len(x) : j < n => x[j] # Nul
    BY <1>0, NextFound
  <1>3. NextOf({Digit}, x, 1) = 1
    <2>1. 1 \in 1 .. Len(x) + 1 /\ x[1] \in {Digit} /\ \A j \in 1 .. Len(x) : ~ (j < 1)
      BY <1>0
    <2> QED BY <2>1, NextIs
  <1>4. Segment(x, 1) = SubSeq(x, 1, n - 1) /\ Len(Segment(x, 1)) = n - 1
    <2>1. Segment(x, 1) = SubSeq(x, 1, n - 1)
      BY <1>3, Zenon DEF Segment
    <2>2. Len(Segment(x, 1)) = IF 1 < n THEN n - 1 ELSE 0
      BY <1>0, <1>3, SegmentFacts
    <2> QED BY <2>1, <2>2
  <1>5. 1 \in X <=> ValidLength(n - 1)
    <2>1. 1 \in Starts(x) /\ n <= Len(x)
      BY DEF Starts
    <2> QED BY <1>4, <2>1, Zenon DEF FrameStarts
  <1>6. \A i \in Y : i \in 1 .. Len(y)
    BY <1>1, StartFacts
  <1>7. \A i \in X : i \in 1 .. Len(x)
    BY StartFacts
  <1>8. \A i \in 1 .. Len(y) : Segment(x, n + i) = Segment(y, i) /\ (n + i \in X <=> i \in Y)
    <2> TAKE i \in 1 .. Len(y)
    <2>1. i \in 1 .. Len(x) - n + 1
      BY <1>1
    <2>2. n + i \in Starts(x) <=> i \in Starts(y)
      <3>1. CASE i = 1
        <4>1. n + 1 \in Starts(x) /\ 1 \in Starts(y)
          BY <1>1, <1>2, <3>1 DEF Starts
        <4> QED BY <3>1, <4>1
      <3>2. CASE i # 1
        BY <1>0, <2>1, <3>2, StartsMove, Zenon DEF y
      <3> QED BY <3>1, <3>2
    <2> QED BY <1>0, <2>1, <2>2, StartsMove, Zenon DEF y
  <1>9. \A i \in X : i # 1 => i - n \in 1 .. Len(y)
    <2> SUFFICES ASSUME NEW i \in X, i # 1 PROVE i - n \in 1 .. Len(y)
      OBVIOUS
    <2>1. i \in 2 .. Len(x) /\ x[i - 1] = Nul
      <3>1. i \in Starts(x)
        BY Zenon DEF FrameStarts
      <3> QED BY <1>7, <3>1 DEF Starts
    <2>2. ~ (i - 1 < n)
      BY <1>2, <2>1
    <2> QED BY <1>1, <2>1, <2>2
  <1>10. \A i \in X : i # 1 => i - n \in Y /\ n + (i - n) = i
    <2> SUFFICES ASSUME NEW i \in X, i # 1 PROVE i - n \in Y /\ n + (i - n) = i
      OBVIOUS
    <2>1. i - n \in 1 .. Len(y) /\ n + (i - n) = i
      BY <1>7, <1>9
    <2> QED BY <1>8, <2>1
  <1>11. FramesOf(y) \in Seq(Seq(Bytes))
    BY <1>1, FramesOfType
  <1> HIDE DEF X, Y
  <1>12. CASE ValidLength(n - 1)
    <2>1. X = {1} \cup {n + i : i \in Y}
      BY <1>5, <1>6, <1>8, <1>10, <1>12
    <2>2. FramesOf(x) = <<Segment(x, 1)>> \o FramesOf(y)
      <3>1. n \in Nat /\ n >= 1 /\ \A i \in Y : Segment(x, n + i) = Segment(y, i)
        BY <1>6, <1>8
      <3> QED BY <1>1, <2>1, <3>1, OneMoreFrame, Zenon DEF X, Y
    <2> QED BY <1>4, <1>12, <2>2, Zenon DEF y
  <1>13. CASE ~ ValidLength(n - 1)
    <2> DEFINE g == [i \in Y |-> n + i]
    <2>1. g \in [Y -> X] /\ \A i \in Y : Segment(x, g[i]) = Segment(y, i)
      BY <1>6, <1>8
    <2>2. \A i, j \in Y : i < j => g[i] < g[j]
      BY <1>6
    <2>3. \A i \in X : \E j \in Y : g[j] = i
      BY <1>5, <1>10, <1>13
    <2> HIDE DEF g
    <2>4. FramesOf(x) = FramesOf(y)
      BY <1>1, <2>1, <2>2, <2>3, SameFrames, Zenon DEF X, Y
    <2>5. <<>> \o FramesOf(y) = FramesOf(y)
      BY <1>11, ConcatEmptySeq, Zenon
    <2> QED BY <1>13, <2>4, <2>5, Zenon DEF y
  <1> QED BY <1>12, <1>13

-----------------------------------------------------------------------------
(* The loop *)

Handed(f) == IF f = NoFrame THEN <<>> ELSE <<f>>

(* One Decode: what it hands over and what it leaves are the frames of     *)
(* what it was given, whatever bytes c come later.                         *)
LEMMA DecodeFacts ==
  ASSUME NEW b \in Seq(Bytes), NEW o \in 0 .. Len(b)
  PROVE  LET d == Decode(b, o)
         IN  /\ d.consumed \in 0 .. Len(b) - o
             /\ d.frame # NoFrame => d.consumed >= 1 /\ d.frame \in Seq(Bytes) /\ IsFrame(d.frame)
             /\ \A c \in Seq(Bytes) : FramesOf(Rest(b, o) \o c)
                                        = Handed(d.frame) \o FramesOf(Rest(b, o + d.consumed) \o c)
  <1> DEFINE pos == NextOf({Digit}, b, o + 1)
             nul == NextOf({Nul}, b, pos)
             p == pos - 1
             q == nul - pos
             s == Rest(b, p)
             f == SubSeq(b, pos, nul - 1)
             d == Decode(b, o)
  <1>1. /\ pos \in o + 1 .. Len(b) + 1
        /\ pos <= Len(b) => b[pos] = Digit
        /\ \A j \in o + 1 .. Len(b) : j < pos => b[j] # Digit
    <2>1. o + 1 \in 1 .. Len(b) + 1
      OBVIOUS
    <2>2. /\ pos \in o + 1 .. Len(b) + 1
          /\ pos <= Len(b) => b[pos] \in {Digit}
          /\ \A j \in o + 1 .. Len(b) : j < pos => b[j] \notin {Digit}
      BY <2>1, NextFound, Zenon
    <2> QED BY <2>2
  <1> HIDE DEF pos
  <1>2. /\ nul \in pos .. Len(b) + 1
        /\ nul <= Len(b) => b[nul] = Nul
        /\ \A j \in pos .. Len(b) : j < nul => b[j] # Nul
    <2>1. pos \in 1 .. Len(b) + 1
      BY <1>1
    <2>2. /\ nul \in pos .. Len(b) + 1
          /\ nul <= Len(b) => b[nul] \in {Nul}
          /\ \A j \in pos .. Len(b) : j < nul => b[j] \notin {Nul}
      BY <2>1, NextFound, Zenon
    <2> QED BY <2>2
  <1>3. d = [frame |-> IF nul <= Len(b) /\ ValidLength(q) THEN f ELSE NoFrame,
             consumed |-> IF nul <= Len(b) THEN nul - o ELSE pos - 1 - o]
    BY Zenon DEF Decode, pos
  <1> HIDE DEF nul, d
  <1>4. p \in 0 .. Len(b) /\ o + (p - o) = p /\ p - o \in 0 .. Len(b) - o /\ pos - 1 - o = p - o
    BY <1>1
  <1> HIDE DEF p
  <1>5. s \in Seq(Bytes) /\ Len(s) = Len(b) - p /\ \A j \in 1 .. Len(b) - p : s[j] = b[p + j]
    BY <1>4, RestFacts, Zenon
  <1>6. ASSUME NEW c \in Seq(Bytes)
        PROVE  FramesOf(Rest(b, o) \o c) = FramesOf(s \o c)
    <2> DEFINE t == Rest(b, o)
               z == t \o c
    <2>1. t \in Seq(Bytes) /\ Len(t) = Len(b) - o /\ \A j \in 1 .. Len(b) - o : t[j] = b[o + j]
      BY RestFacts, Zenon
    <2>2. Rest(t, p - o) = s
      BY <1>4, RestTwice
    <2> HIDE DEF t
    <2>3. /\ z \in Seq(Bytes) /\ Len(z) = Len(t) + Len(c)
          /\ \A j \in 1 .. Len(t) + Len(c) : z[j] = IF j <= Len(t) THEN t[j] ELSE c[j - Len(t)]
      BY <2>1, ConcatProperties, Zenon
    <2>4. p - o \in 0 .. Len(t)
      BY <1>4, <2>1
    <2>5. Rest(z, p - o) = s \o c
      BY <2>1, <2>2, <2>4, RestBefore, Zenon
    <2> HIDE DEF z, s
    <2>6. ASSUME NEW j \in 1 .. p - o
          PROVE  z[j] # Digit
      <3>1. j \in 1 .. Len(t) + Len(c) /\ j <= Len(t) /\ j \in 1 .. Len(b) - o
        BY <1>4, <2>1, <2>4
      <3>2. z[j] = b[o + j]
        BY <2>1, <2>3, <3>1
      <3>3. o + j \in o + 1 .. Len(b) /\ o + j < pos
        BY <1>1, <1>4, <3>1 DEF p
      <3> QED BY <1>1, <3>2, <3>3
    <2>7. p - o \in 0 .. Len(z)
      BY <2>1, <2>3, <2>4
    <2>8. FramesOf(z) = FramesOf(Rest(z, p - o))
      BY <2>3, <2>6, <2>7, DropOthers, Zenon
    <2> QED BY <2>5, <2>8, Zenon DEF z, t
  <1>7. CASE ~ (nul <= Len(b))
    <2>1. d.frame = NoFrame /\ d.consumed = p - o
      BY <1>3, <1>4, <1>7
    <2>2. \A c \in Seq(Bytes) : FramesOf(Rest(b, o) \o c) = <<>> \o FramesOf(s \o c)
      <3> TAKE c \in Seq(Bytes)
      <3>1. s \o c \in Seq(Bytes)
        BY <1>5, ConcatProperties, Zenon
      <3>2. FramesOf(s \o c) \in Seq(Seq(Bytes))
        BY <3>1, FramesOfType, Zenon
      <3>3. <<>> \o FramesOf(s \o c) = FramesOf(s \o c)
        BY <3>2, ConcatEmptySeq, Zenon
      <3> QED BY <1>6, <3>3, Zenon
    <2>3. Rest(b, o + d.consumed) = s
      BY <1>4, <2>1
    <2>4. Handed(d.frame) = <<>>
      BY <2>1, Zenon DEF Handed
    <2>5. d.consumed \in 0 .. Len(b) - o
      BY <1>4, <2>1
    <2> HIDE DEF s
    <2>6. \A c \in Seq(Bytes) : FramesOf(Rest(b, o) \o c) = Handed(d.frame) \o FramesOf(Rest(b, o + d.consumed) \o c)
      BY <2>2, <2>3, <2>4, Zenon
    <2> QED BY <2>1, <2>5, <2>6, Zenon DEF d
  <1>8. CASE nul <= Len(b)
    <2>1. nul # pos
      BY <1>1, <1>2, <1>8 DEF Nul, Digit
    <2>2. q \in 1 .. Len(b) - p /\ q + 1 \in 1 .. Len(b) - p /\ p + (q + 1) = nul /\ p + q = nul - 1 /\ p + 1 = pos
          /\ nul - o \in 1 .. Len(b) - o /\ o + (nul - o) = nul
      BY <1>1, <1>2, <1>8, <2>1 DEF p
    <2>3. f = SubSeq(s, 1, q) /\ f \in Seq(Bytes) /\ Len(f) = q
      <3>1. 1 \in 1 .. Len(b) - p + 1 /\ q \in Nat /\ q <= Len(b) - p
        BY <1>4, <2>2
      <3>2. /\ SubSeq(b, p + 1, p + q) = SubSeq(s, 1, q)
            /\ SubSeq(b, p + 1, p + q) \in Seq(Bytes)
            /\ Len(SubSeq(b, p + 1, p + q)) = IF 1 <= q THEN q - 1 + 1 ELSE 0
        <4> HIDE DEF q
        <4> QED BY <1>4, <3>1, SamePart, Zenon
      <3>3. f = SubSeq(b, p + 1, p + q)
        BY <2>2, Zenon
      <3>4. 1 <= q /\ q - 1 + 1 = q
        BY <2>2
      <3>5. Len(f) = q
        <4> HIDE DEF q, f
        <4> QED BY <3>2, <3>3, <3>4, Zenon
      <3> QED BY <3>2, <3>3, <3>5, Zenon
    <2>4. \A j \in 1 .. q : f[j] = b[p + j] /\ b[p + j] # Nul
      <3> TAKE j \in 1 .. q
      <3>1. /\ pos \in Int /\ nul - 1 \in Int /\ \A i \in pos .. nul - 1 : b[i] \in Bytes
        BY <1>1, <1>2, <1>8
      <3>2. \A i \in 1 .. nul - 1 - pos + 1 : f[i] = b[pos + i - 1]
        BY <3>1, SubSeqProperties
      <3>3. j \in 1 .. nul - 1 - pos + 1 /\ pos + j - 1 = p + j
        <4>1. pos \in Nat /\ nul \in Nat /\ p \in Nat /\ p + 1 = pos
          BY <1>1, <1>2, <1>4, <2>2
        <4>2. j \in Nat /\ 1 <= j /\ j <= nul - pos
          BY <4>1
        <4> QED BY <4>1, <4>2
      <3>4. p + j \in pos .. Len(b) /\ p + j < nul
        BY <1>1, <1>2, <1>4, <1>8, <2>2
      <3> QED BY <1>2, <3>2, <3>3, <3>4
    <2> HIDE DEF f
    <2>5. IsFrame(f) <=> ValidLength(q)
      <3>1. f[1] = Digit
        <4>1. f[1] = b[pos] /\ pos <= Len(b)
          BY <1>1, <1>2, <1>8, <2>2, <2>4
        <4> QED BY <1>1, <4>1
      <3>2. Nul \notin Range(f)
        <4>1. DOMAIN f = 1 .. q
          BY <2>3
        <4> QED BY <2>4, <4>1, Zenon DEF Range
      <3> QED BY <2>3, <3>1, <3>2, Zenon DEF IsFrame
    <2>6. f # NoFrame
      <3>1. q # 0 /\ Len(<<>>) = 0
        BY <2>2
      <3> QED BY <2>3, <3>1, Zenon DEF NoFrame
    <2>7. d.consumed = nul - o /\ d.frame = IF ValidLength(q) THEN f ELSE NoFrame
      BY <1>3, <1>8
    <2>8. ASSUME NEW c \in Seq(Bytes)
          PROVE  FramesOf(s \o c) = Handed(d.frame) \o FramesOf(Rest(b, nul) \o c)
      <3> DEFINE x == s \o c
      <3>1. /\ x \in Seq(Bytes) /\ Len(x) = Len(s) + Len(c)
            /\ \A j \in 1 .. Len(s) + Len(c) : x[j] = IF j <= Len(s) THEN s[j] ELSE c[j - Len(s)]
        BY <1>5, ConcatProperties, Zenon
      <3>2. \A j \in 1 .. q + 1 : x[j] = b[p + j]
        <4> TAKE j \in 1 .. q + 1
        <4>1. j \in 1 .. Len(b) - p /\ j <= Len(s) /\ j \in 1 .. Len(s) + Len(c)
          BY <1>5, <2>2
        <4> HIDE DEF s, x
        <4> QED BY <1>5, <3>1, <4>1
      <3>3. SubSeq(x, 1, q) = f
        <4>1. 1 \in 1 .. Len(s) /\ q \in 1 .. Len(s)
          BY <1>5, <2>2
        <4>2. SubSeq(x, 1, q) = SubSeq(s, 1, q)
          BY <1>5, <4>1, SubSeqOfConcat1, Zenon
        <4> QED BY <2>3, <4>2
      <3>4. Rest(x, q + 1) = Rest(b, nul) \o c
        <4>1. q + 1 \in 0 .. Len(s)
          BY <1>5, <2>2
        <4>2. Rest(x, q + 1) = Rest(s, q + 1) \o c
          BY <1>5, <4>1, RestBefore, Zenon
        <4>3. q + 1 \in 0 .. Len(b) - p
          BY <2>2
        <4>4. Rest(s, q + 1) = Rest(b, p + (q + 1))
          BY <1>4, <4>3, RestTwice, Zenon
        <4> QED BY <2>2, <4>2, <4>4
      <3> HIDE DEF x, s
      <3>5. q + 1 \in 1 .. Len(x)
        BY <1>5, <2>2, <3>1
      <3>6. x[1] = Digit
        <4>1. 1 \in 1 .. q + 1 /\ pos <= Len(b)
          BY <1>1, <1>2, <1>8, <2>2
        <4>2. x[1] = b[pos]
          BY <2>2, <3>2, <4>1
        <4> QED BY <1>1, <4>1, <4>2
      <3>7. NextOf({Nul}, x, 1) = q + 1
        <4>1. 1 \in 1 .. Len(x) + 1 /\ q + 1 \in 1 .. Len(x) + 1
          BY <3>5
        <4>2. x[q + 1] \in {Nul}
          <5>1. q + 1 \in 1 .. q + 1
            BY <2>2
          <5>2. x[q + 1] = b[p + (q + 1)]
            BY <3>2, <5>1
          <5> QED BY <1>2, <1>8, <2>2, <5>2
        <4>3. \A j \in 1 .. Len(x) : j < q + 1 => x[j] \notin {Nul}
          <5> SUFFICES ASSUME NEW j \in 1 .. Len(x), j < q + 1 PROVE x[j] # Nul
            OBVIOUS
          <5>1. j \in 1 .. q /\ j \in 1 .. q + 1
            BY <2>2
          <5> QED BY <2>4, <3>2, <5>1
        <4> QED BY <3>1, <4>1, <4>2, <4>3, NextIs
      <3>8. (q + 1) - 1 = q
        BY <2>2
      <3>9. FramesOf(x) = (IF ValidLength((q + 1) - 1) THEN <<SubSeq(x, 1, (q + 1) - 1)>> ELSE <<>>) \o FramesOf(Rest(x, q + 1))
        <4> DEFINE n == q + 1
        <4> HIDE DEF n
        <4>1. n \in 1 .. Len(x) /\ NextOf({Nul}, x, 1) = n
          BY <3>5, <3>7, Zenon DEF n
        <4>2. FramesOf(x) = (IF ValidLength(n - 1) THEN <<SubSeq(x, 1, n - 1)>> ELSE <<>>) \o FramesOf(Rest(x, n))
          BY <3>1, <3>6, <4>1, FirstFrame
        <4> QED BY <4>2, Zenon DEF n
      <3>10. (IF ValidLength(q) THEN <<f>> ELSE <<>>) = Handed(d.frame)
        BY <2>6, <2>7, Zenon DEF Handed
      <3>11. FramesOf(x) = Handed(d.frame) \o FramesOf(Rest(b, nul) \o c)
        BY <3>3, <3>4, <3>8, <3>9, <3>10
      <3> QED BY <3>11 DEF x
    <2>9. \A c \in Seq(Bytes) : FramesOf(Rest(b, o) \o c) = Handed(d.frame) \o FramesOf(Rest(b, o + d.consumed) \o c)
      <3>1. o + d.consumed = nul
        BY <2>2, <2>7
      <3> HIDE DEF s
      <3> QED BY <1>6, <2>8, <3>1, Zenon
    <2>10. d.consumed \in 0 .. Len(b) - o /\ d.consumed >= 1
      BY <2>2, <2>7
    <2>11. d.frame # NoFrame => d.frame \in Seq(Bytes) /\ IsFrame(d.frame)
      BY <2>3, <2>5, <2>7, Zenon
    <2> QED BY <2>9, <2>10, <2>11, Zenon DEF d
  <1> QED BY <1>7, <1>8

(* One turn of the loop, with r what the later ones do.                    *)
Turn(b, r, offset) ==
  LET d == Decode(b, offset)
      rest == r[offset + d.consumed]
  IN  IF offset = Len(b) THEN [frames |-> <<>>, offset |-> offset]
      ELSE IF d.frame = NoFrame
      THEN [frames |-> <<>>, offset |-> offset + d.consumed]
      ELSE [frames |-> <<d.frame>> \o rest.frames, offset |-> rest.offset]

Runs(b, r, first) == r = [offset \in first .. Len(b) |-> Turn(b, r, offset)]

(* Each turn depends on later ones only, so there is such a function.      *)
LEMMA RunExists ==
  ASSUME NEW b \in Seq(Bytes)
  PROVE  \E r : Runs(b, r, 0)
  <1> DEFINE Some == {k \in 0 .. Len(b) : \E r : Runs(b, r, k)}
  <1>1. Len(b) \in Some
    <2> DEFINE r == [offset \in Len(b) .. Len(b) |-> [frames |-> <<>>, offset |-> offset]]
    <2>1. \A o \in Len(b) .. Len(b) : Turn(b, r, o) = [frames |-> <<>>, offset |-> o]
      BY DEF Turn
    <2>2. Runs(b, r, Len(b))
      BY <2>1, Zenon DEF Runs
    <2>3. Len(b) \in 0 .. Len(b)
      OBVIOUS
    <2> QED BY <2>2, <2>3
  <1>2. PICK l \in Some : \A k \in Some : l <= k
    <2>1. Some \subseteq Nat /\ Some # {}
      BY <1>1
    <2> QED BY <2>1, LeastOf, Zenon
  <1>3. CASE l = 0
    BY <1>3
  <1>4. CASE l # 0
    <2>1. PICK g : Runs(b, g, l)
      OBVIOUS
    <2> DEFINE m == l - 1
               h == [o \in m .. Len(b) |-> IF o = m THEN Turn(b, g, m) ELSE g[o]]
    <2>2. m \in 0 .. Len(b) /\ m + 1 = l
      BY <1>4
    <2> HIDE DEF m
    <2>3. \A o \in m + 1 .. Len(b) : h[o] = g[o]
      BY <2>2
    <2>4. ASSUME NEW o \in m .. Len(b)
          PROVE  Turn(b, h, o) = Turn(b, g, o)
      <3> DEFINE d == Decode(b, o)
      <3>1. CASE o = Len(b)
        BY <3>1, Zenon DEF Turn
      <3>2. CASE d.frame = NoFrame
        BY <3>2, Zenon DEF Turn
      <3>3. CASE o # Len(b) /\ d.frame # NoFrame
        <4>1. o \in 0 .. Len(b)
          BY <2>2
        <4>2. d.consumed \in 0 .. Len(b) - o /\ d.consumed >= 1
          BY <3>3, <4>1, DecodeFacts, Zenon
        <4> HIDE DEF d
        <4>3. o + d.consumed \in m + 1 .. Len(b)
          BY <2>2, <4>1, <4>2
        <4>4. h[o + d.consumed] = g[o + d.consumed]
          BY <2>3, <4>3
        <4> HIDE DEF h
        <4> QED BY <4>4, Zenon DEF Turn, d
      <3> QED BY <3>1, <3>2, <3>3
    <2>5. ASSUME NEW o \in m .. Len(b)
          PROVE  h[o] = Turn(b, h, o)
      <3>1. CASE o = m
        <4>1. h[o] = Turn(b, g, o)
          BY <3>1
        <4> HIDE DEF h
        <4> QED BY <2>4, <4>1
      <3>2. CASE o # m
        <4>1. o \in l .. Len(b)
          BY <2>2, <3>2
        <4>2. h[o] = g[o]
          BY <3>2
        <4>3. g[o] = Turn(b, g, o)
          BY <2>1, <4>1, Zenon DEF Runs
        <4> HIDE DEF h
        <4> QED BY <2>4, <4>2, <4>3
      <3> QED BY <3>1, <3>2
    <2>6. h = [o \in m .. Len(b) |-> h[o]]
      OBVIOUS
    <2> HIDE DEF h
    <2>7. Runs(b, h, m)
      BY <2>5, <2>6, Zenon DEF Runs
    <2>8. m \in Some /\ ~ (l <= m)
      BY <2>2, <2>7
    <2> QED BY <1>2, <2>8
  <1> QED BY <1>3, <1>4

(* From offset o on, r says what is handed over and where the loop ends.   *)
Cuts(b, o, r) ==
  /\ r.offset \in 0 .. Len(b) /\ r.frames \in Seq(Seq(Bytes))
  /\ \A k \in DOMAIN r.frames : IsFrame(r.frames[k])
  /\ \A c \in Seq(Bytes) : FramesOf(Rest(b, o) \o c) = r.frames \o FramesOf(Rest(b, r.offset) \o c)

(* One turn continues what the later ones do.                              *)
LEMMA TurnCuts ==
  ASSUME NEW b \in Seq(Bytes), NEW r, NEW o \in 0 .. Len(b),
         \A k \in o + 1 .. Len(b) : Cuts(b, k, r[k])
  PROVE  Cuts(b, o, Turn(b, r, o))
  <1> DEFINE d == Decode(b, o)
             k == o + d.consumed
             t == Turn(b, r, o)
             T == Seq(Bytes)
             W(j, c) == FramesOf(Rest(b, j) \o c)
  <1>1. ASSUME NEW j \in 0 .. Len(b), NEW c \in Seq(Bytes)
        PROVE  W(j, c) \in Seq(T) /\ <<>> \o W(j, c) = W(j, c)
    <2>1. Rest(b, j) \o c \in Seq(Bytes)
      BY RestFacts, ConcatProperties, Zenon
    <2>2. W(j, c) \in Seq(T)
      BY <2>1, FramesOfType, Zenon
    <2> QED BY <2>2, ConcatEmptySeq, Zenon
  <1>2. /\ d.consumed \in 0 .. Len(b) - o
        /\ d.frame # NoFrame => d.consumed >= 1 /\ d.frame \in Seq(Bytes) /\ IsFrame(d.frame)
        /\ \A c \in Seq(Bytes) : W(o, c) = Handed(d.frame) \o W(k, c)
    BY DecodeFacts, Zenon
  <1>3. k \in 0 .. Len(b)
    <2> HIDE DEF d
    <2> QED BY <1>2
  <1>t. \A j \in 0 .. Len(b) : [frames |-> <<>>, offset |-> j].frames = <<>> /\ [frames |-> <<>>, offset |-> j].offset = j
    OBVIOUS
  <1>e. <<>> \in Seq(T) /\ DOMAIN <<>> = {}
    <2> HIDE DEF T
    <2> QED OBVIOUS
  <1>4. CASE o = Len(b)
    <2>1. t.frames = <<>> /\ t.offset = o
      BY <1>4 DEF Turn
    <2> HIDE DEF t
    <2> QED BY <1>1, <1>e, <2>1 DEF Cuts, t
  <1>5. CASE o # Len(b) /\ d.frame = NoFrame
    <2>1. t.frames = <<>> /\ t.offset = k
      <3>1. t = [frames |-> <<>>, offset |-> k]
        BY <1>5, Zenon DEF Turn
      <3> HIDE DEF t, k
      <3> QED BY <3>1
    <2>2. Handed(d.frame) = <<>>
      BY <1>5, Zenon DEF Handed
    <2> HIDE DEF t, k, d
    <2>3. t.offset \in 0 .. Len(b) /\ t.frames \in Seq(T) /\ \A i \in DOMAIN t.frames : IsFrame(t.frames[i])
      BY <1>3, <1>e, <2>1
    <2>4. \A c \in Seq(Bytes) : W(o, c) = t.frames \o W(t.offset, c)
      BY <1>2, <2>1, <2>2, Zenon
    <2> QED BY <2>3, <2>4, Zenon DEF Cuts, t
  <1>6. CASE o # Len(b) /\ d.frame # NoFrame
    <2>1. Cuts(b, k, r[k])
      <3>1. k \in o + 1 .. Len(b)
        <4> HIDE DEF d
        <4> QED BY <1>2, <1>3, <1>6
      <3> QED BY <3>1, Zenon
    <2>2. t.frames = <<d.frame>> \o r[k].frames /\ t.offset = r[k].offset
      <3>1. t = [frames |-> <<d.frame>> \o r[k].frames, offset |-> r[k].offset]
        BY <1>6, Zenon DEF Turn
      <3> HIDE DEF t, k, d
      <3> QED BY <3>1
    <2>3. Handed(d.frame) = <<d.frame>>
      BY <1>6, Zenon DEF Handed
    <2> DEFINE v == <<d.frame>>
               w == r[k].frames
    <2>4. d.frame \in T /\ IsFrame(d.frame)
      BY <1>2, <1>6, Zenon
    <2>5. /\ r[k].offset \in 0 .. Len(b) /\ w \in Seq(T)
          /\ \A i \in DOMAIN w : IsFrame(w[i])
          /\ \A c \in Seq(Bytes) : W(k, c) = w \o W(r[k].offset, c)
      BY <2>1, Zenon DEF Cuts
    <2> HIDE DEF t, k, d, w, T
    <2>6. v \in Seq(T) /\ Len(v) = 1 /\ v[1] = d.frame
      BY <2>4
    <2> HIDE DEF v
    <2>7. /\ v \o w \in Seq(T) /\ Len(v \o w) = Len(v) + Len(w)
          /\ \A i \in 1 .. Len(v) + Len(w) : (v \o w)[i] = IF i <= Len(v) THEN v[i] ELSE w[i - Len(v)]
      BY <2>5, <2>6, ConcatProperties, Zenon
    <2>8. ASSUME NEW i \in DOMAIN (v \o w)
          PROVE  IsFrame((v \o w)[i])
      <3>1. i \in 1 .. 1 + Len(w) /\ (v \o w)[i] = IF i <= 1 THEN v[i] ELSE w[i - 1]
        BY <2>6, <2>7
      <3>2. CASE i = 1
        <4>1. (v \o w)[i] = d.frame
          BY <2>6, <3>1, <3>2
        <4> QED BY <2>4, <4>1
      <3>3. CASE i # 1
        <4>1. (v \o w)[i] = w[i - 1] /\ i - 1 \in DOMAIN w
          BY <2>5, <3>1, <3>3
        <4> QED BY <2>5, <4>1
      <3> QED BY <3>2, <3>3
    <2>9. ASSUME NEW c \in Seq(Bytes)
          PROVE  W(o, c) = (v \o w) \o W(r[k].offset, c)
      <3> DEFINE u == W(r[k].offset, c)
      <3>1. W(o, c) = v \o (w \o u)
        BY <1>2, <2>3, <2>5, Zenon DEF v
      <3>2. u \in Seq(T)
        BY <1>1, <2>5, Zenon
      <3> HIDE DEF u
      <3>3. (v \o w) \o u = v \o (w \o u)
        <4>1. v \in Seq(T) /\ w \in Seq(T)
          BY <2>5, <2>6, Zenon
        <4> QED BY <3>2, <4>1, ConcatAssociative
      <3>4. W(o, c) = (v \o w) \o u
        BY <3>1, <3>3, Zenon
      <3> QED BY <3>4 DEF u
    <2>10. t.frames = v \o w /\ t.offset = r[k].offset
      BY <2>2, Zenon DEF v, w
    <2>11. Cuts(b, o, t)
      <3>1. \A i \in DOMAIN t.frames : IsFrame(t.frames[i])
        BY <2>8, <2>10, Zenon
      <3>2. \A c \in Seq(Bytes) : W(o, c) = t.frames \o W(t.offset, c)
        BY <2>9, <2>10, Zenon
      <3>3. t.offset \in 0 .. Len(b) /\ t.frames \in Seq(Seq(Bytes))
        BY <2>5, <2>7, <2>10, Zenon DEF T
      <3> QED BY <3>1, <3>2, <3>3, Zenon DEF Cuts
    <2> QED BY <2>11 DEF t
  <1> QED BY <1>4, <1>5, <1>6

(* What ProcessAvailableFrames hands over are frames, and the frames of    *)
(* what it is given and of what comes later are these and the frames of    *)
(* what it keeps and of what comes later.                                  *)
LEMMA LoopFacts ==
  ASSUME NEW b \in Seq(Bytes)
  PROVE  LET done == ProcessAvailableFrames(b)
         IN  /\ done.left \in Seq(Bytes) /\ done.frames \in Seq(Seq(Bytes))
             /\ \A k \in DOMAIN done.frames : IsFrame(done.frames[k])
             /\ \A c \in Seq(Bytes) : FramesOf(b \o c) = done.frames \o FramesOf(done.left \o c)
  <1>1. \E r : Runs(b, r, 0)
    BY RunExists
  <1>2. PICK r : /\ Runs(b, r, 0)
                 /\ ProcessAvailableFrames(b) = [frames |-> r[0].frames,
                                                 left |-> SubSeq(b, r[0].offset + 1, Len(b))]
    BY <1>1 DEF ProcessAvailableFrames, Runs, Turn
  <1> DEFINE L == Len(b)
             Bad == {j \in 0 .. L : ~ Cuts(b, L - j, r[L - j])}
  <1>3. Bad = {}
    <2> SUFFICES ASSUME Bad # {} PROVE FALSE
      OBVIOUS
    <2>1. Bad \subseteq Nat
      OBVIOUS
    <2>2. PICK j \in Bad : \A i \in Bad : j <= i
      BY <2>1, LeastOf, Zenon
    <2>3. ASSUME NEW k \in (L - j) + 1 .. L
          PROVE  Cuts(b, k, r[k])
      <3>1. L - k \in 0 .. L /\ L - (L - k) = k /\ L - k < j
        OBVIOUS
      <3>2. L - k \notin Bad
        BY <2>1, <2>2, <3>1
      <3>3. Cuts(b, L - (L - k), r[L - (L - k)])
        BY <3>1, <3>2
      <3> QED BY <3>1, <3>3
    <2>4. L - j \in 0 .. L
      OBVIOUS
    <2>5. Cuts(b, L - j, Turn(b, r, L - j))
      BY <2>3, <2>4, TurnCuts
    <2>6. r[L - j] = Turn(b, r, L - j)
      BY <1>2, <2>4, Zenon DEF Runs
    <2> QED BY <2>5, <2>6
  <1>4. Cuts(b, 0, r[0])
    <2>1. L \in 0 .. L /\ L - L = 0
      OBVIOUS
    <2>2. Cuts(b, L - L, r[L - L])
      BY <1>3, <2>1
    <2> QED BY <2>1, <2>2
  <1>5. Rest(b, 0) = b
    <2>1. SubSeq(b, 1, Len(b)) = b
      BY SubSeqFull
    <2> QED BY <2>1 DEF Rest
  <1> DEFINE done == ProcessAvailableFrames(b)
  <1>6. done.frames = r[0].frames /\ done.left = Rest(b, r[0].offset)
    <2>1. done = [frames |-> r[0].frames, left |-> Rest(b, r[0].offset)]
      BY <1>2, Zenon DEF Rest
    <2> HIDE DEF done
    <2> QED BY <2>1
  <1> HIDE DEF done
  <1>7. done.left \in Seq(Bytes)
    BY <1>4, <1>6, RestFacts, Zenon DEF Cuts
  <1>8. \A c \in Seq(Bytes) : FramesOf(b \o c) = done.frames \o FramesOf(done.left \o c)
    BY <1>4, <1>5, <1>6, Zenon DEF Cuts
  <1>9. done.frames \in Seq(Seq(Bytes)) /\ \A k \in DOMAIN done.frames : IsFrame(done.frames[k])
    BY <1>4, <1>6, Zenon DEF Cuts
  <1> QED BY <1>7, <1>8, <1>9, Zenon DEF done

-----------------------------------------------------------------------------
(* Theorems *)

(* Whatever comes later: what ChunkingIrrelevant says of the stream so     *)
(* far holds of every stream that starts with it.                          *)
FramesAgree == \A c \in Seq(Bytes) : FramesOf(stream \o c) = frames \o FramesOf(receiveBuffer \o c)

(* With no byte received nothing is delivered.                             *)
LEMMA FramingStarts ==
  ASSUME FramingInit
  PROVE  FramingTypeOK /\ FramesAgree
  <1>1. FramingTypeOK
    BY DEF FramingInit, FramingTypeOK
  <1>2. ASSUME NEW c \in Seq(Bytes)
        PROVE  FramesOf(stream \o c) = frames \o FramesOf(receiveBuffer \o c)
    <2>1. <<>> \o c = c
      BY ConcatEmptySeq, Zenon
    <2>2. FramesOf(c) \in Seq(Seq(Bytes))
      BY FramesOfType
    <2>3. <<>> \o FramesOf(c) = FramesOf(c)
      BY <2>2, ConcatEmptySeq, Zenon
    <2> QED BY <2>1, <2>3, Zenon DEF FramingInit
  <1> QED BY <1>1, <1>2 DEF FramesAgree

(* A read or a new connection keeps both.                                  *)
LEMMA FramingStep ==
  ASSUME FramingTypeOK /\ FramesAgree, [FramingNext]_framingVars
  PROVE  FramingTypeOK' /\ FramesAgree'
  <1>1. CASE UNCHANGED framingVars
    BY <1>1 DEF framingVars, FramingTypeOK, FramesAgree
  <1>2. CASE Reconnect
    <2>1. FramingInit'
      BY <1>2 DEF Reconnect, FramingInit
    <2>2. FramingTypeOK'
      BY <2>1 DEF FramingInit, FramingTypeOK
    <2>3. ASSUME NEW c \in Seq(Bytes)
          PROVE  FramesOf(stream' \o c) = frames' \o FramesOf(receiveBuffer' \o c)
      <3>1. <<>> \o c = c
        BY ConcatEmptySeq, Zenon
      <3>2. FramesOf(c) \in Seq(Seq(Bytes))
        BY FramesOfType
      <3>3. <<>> \o FramesOf(c) = FramesOf(c)
        BY <3>2, ConcatEmptySeq, Zenon
      <3> QED BY <2>1, <3>1, <3>3, Zenon DEF FramingInit
    <2> QED BY <2>2, <2>3 DEF FramesAgree
  <1>3. ASSUME NEW chunk \in Chunks, OnDataReceived(chunk)
        PROVE  FramingTypeOK' /\ FramesAgree'
    <2> DEFINE b == receiveBuffer \o chunk
               done == ProcessAvailableFrames(b)
    <2>1. chunk \in Seq(Bytes)
      BY DEF Chunks
    <2>2. receiveBuffer \in Seq(Bytes) /\ stream \in Seq(Bytes) /\ frames \in Seq(Seq(Bytes))
          /\ \A k \in DOMAIN frames : IsFrame(frames[k])
      BY Zenon DEF FramingTypeOK
    <2>3. b \in Seq(Bytes) /\ stream \o chunk \in Seq(Bytes)
      BY <2>1, <2>2, ConcatProperties, Zenon
    <2>4. stream' = stream \o chunk /\ frames' = frames \o done.frames /\ receiveBuffer' = done.left
      BY <1>3, Zenon DEF OnDataReceived
    <2>5. /\ done.left \in Seq(Bytes) /\ done.frames \in Seq(Seq(Bytes))
          /\ \A k \in DOMAIN done.frames : IsFrame(done.frames[k])
          /\ \A c \in Seq(Bytes) : FramesOf(b \o c) = done.frames \o FramesOf(done.left \o c)
      BY <2>3, LoopFacts, Zenon
    <2> HIDE DEF b, done
    <2> DEFINE T == Seq(Bytes)
               w == done.frames
    <2>6. w \in Seq(T) /\ frames \in Seq(T)
      BY <2>2, <2>5, Zenon
    <2>7. \A k \in DOMAIN w : IsFrame(w[k])
      BY <2>5, Zenon
    <2> HIDE DEF T, w
    <2>8. /\ frames \o w \in Seq(T) /\ Len(frames \o w) = Len(frames) + Len(w)
          /\ \A i \in 1 .. Len(frames) + Len(w) :
               (frames \o w)[i] = IF i <= Len(frames) THEN frames[i] ELSE w[i - Len(frames)]
      BY <2>6, ConcatProperties, Zenon
    <2>9. ASSUME NEW i \in DOMAIN (frames \o w)
          PROVE  IsFrame((frames \o w)[i])
      <3>1. i \in 1 .. Len(frames) + Len(w)
        BY <2>8
      <3>2. CASE i <= Len(frames)
        <4>1. (frames \o w)[i] = frames[i] /\ i \in DOMAIN frames
          BY <2>6, <2>8, <3>1, <3>2
        <4> QED BY <2>2, <4>1
      <3>3. CASE ~ (i <= Len(frames))
        <4>1. (frames \o w)[i] = w[i - Len(frames)] /\ i - Len(frames) \in DOMAIN w
          BY <2>6, <2>8, <3>1, <3>3
        <4> QED BY <2>7, <4>1
      <3> QED BY <3>2, <3>3
    <2>10. FramingTypeOK'
      <3>1. frames' = frames \o w /\ frames' \in Seq(Seq(Bytes))
        BY <2>4, <2>8, Zenon DEF w, T
      <3>2. \A i \in DOMAIN frames' : IsFrame(frames'[i])
        BY <2>9, <3>1, Zenon
      <3>3. receiveBuffer' \in Seq(Bytes) /\ stream' \in Seq(Bytes)
        BY <2>3, <2>4, <2>5, Zenon
      <3> QED BY <3>1, <3>2, <3>3 DEF FramingTypeOK, IsFrame, ValidLength
    <2>11. ASSUME NEW c \in Seq(Bytes)
           PROVE  FramesOf(stream' \o c) = frames' \o FramesOf(receiveBuffer' \o c)
      <3> DEFINE u == FramesOf(done.left \o c)
      <3>1. chunk \o c \in Seq(Bytes)
        BY <2>1, ConcatProperties, Zenon
      <3>2. (stream \o chunk) \o c = stream \o (chunk \o c) /\ b \o c = receiveBuffer \o (chunk \o c)
        <4>1. (stream \o chunk) \o c = stream \o (chunk \o c)
          <5>1. stream \in Seq(Bytes)
            BY <2>2, Zenon
          <5> QED BY <2>1, <5>1, ConcatAssociative
        <4>2. (receiveBuffer \o chunk) \o c = receiveBuffer \o (chunk \o c)
          <5>1. receiveBuffer \in Seq(Bytes)
            BY <2>2, Zenon
          <5> QED BY <2>1, <5>1, ConcatAssociative
        <4> QED BY <4>1, <4>2, Zenon DEF b
      <3>3. FramesOf(stream \o (chunk \o c)) = frames \o FramesOf(receiveBuffer \o (chunk \o c))
        BY <3>1, Zenon DEF FramesAgree
      <3>4. FramesOf(b \o c) = w \o u
        BY <2>5, Zenon DEF w
      <3>5. u \in Seq(T)
        <4>1. done.left \o c \in Seq(Bytes)
          BY <2>5, ConcatProperties, Zenon
        <4> QED BY <4>1, FramesOfType, Zenon DEF T
      <3>6. FramesOf(stream' \o c) = frames \o (w \o u)
        BY <2>4, <3>2, <3>3, <3>4, Zenon
      <3> HIDE DEF u
      <3>7. (frames \o w) \o u = frames \o (w \o u)
        BY <2>6, <3>5, ConcatAssociative
      <3>8. frames' = frames \o w
        BY <2>4, Zenon DEF w
      <3>9. FramesOf(stream' \o c) = frames' \o u
        BY <3>6, <3>7, <3>8, Zenon
      <3> QED BY <2>4, <3>9, Zenon DEF u
    <2> QED BY <2>10, <2>11 DEF FramesAgree
  <1> QED BY <1>1, <1>2, <1>3 DEF FramingNext

(* What is handed to ProcessFrame is a frame, for any lengths and chunks.  *)
THEOREM FramesValid == FramingSpec => []FramingTypeOK
  <1>1. FramingInit => FramingTypeOK /\ FramesAgree
    BY FramingStarts
  <1>2. (FramingTypeOK /\ FramesAgree) /\ [FramingNext]_framingVars => (FramingTypeOK /\ FramesAgree)'
    BY FramingStep
  <1> QED BY <1>1, <1>2, PTL DEF FramingSpec

(* For streams and chunks of any length.                                   *)
THEOREM ChunksDoNotMatter == FramingSpec => []ChunkingIrrelevant
  <1>1. FramingInit => FramingTypeOK /\ FramesAgree
    BY FramingStarts
  <1>2. (FramingTypeOK /\ FramesAgree) /\ [FramingNext]_framingVars => (FramingTypeOK /\ FramesAgree)'
    BY FramingStep
  <1>3. FramingTypeOK /\ FramesAgree => ChunkingIrrelevant
    <2> SUFFICES ASSUME FramingTypeOK, FramesAgree PROVE ChunkingIrrelevant
      OBVIOUS
    <2>1. stream \o <<>> = stream /\ receiveBuffer \o <<>> = receiveBuffer
      BY ConcatEmptySeq, Zenon DEF FramingTypeOK
    <2>2. <<>> \in Seq(Bytes)
      OBVIOUS
    <2>3. FramesOf(stream \o <<>>) = frames \o FramesOf(receiveBuffer \o <<>>)
      BY <2>2, Zenon DEF FramesAgree
    <2> QED BY <2>1, <2>3, Zenon DEF ChunkingIrrelevant
  <1> QED BY <1>1, <1>2, <1>3, PTL DEF FramingSpec
=============================================================================
