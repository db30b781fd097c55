--------------------------- MODULE UiBridge_proofs --------------------------
(***************************************************************************)
(* What holds of the bridge for any set of ids, any calls and any number   *)
(* of page loads. The argument: an id is taken only when nothing carries   *)
(* it, and every step moves a message on or drops it, so no two messages   *)
(* ever have one id (OneMessage); so what travels under an id is about the *)
(* call that took it (AnswerIsOwn); and what came over the native          *)
(* transport is answered to a promise that is in `pending`, or that hangs  *)
(* (NativeKnown), which leaves two ways to hang and no other.              *)
(***************************************************************************)
EXTENDS UiBridgeCalls, TLAPS

(* A sequence without its head. *)
LEMMA TailFacts ==
  ASSUME NEW S, NEW s \in Seq(S), s # <<>>
  PROVE  /\ Tail(s) \in Seq(S) /\ Head(s) \in S
         /\ 1 \in DOMAIN s /\ Head(s) = s[1]
         /\ \A k \in DOMAIN Tail(s) : k + 1 \in DOMAIN s /\ Tail(s)[k] = s[k + 1]
         /\ \A k \in DOMAIN s : k = 1 \/ k - 1 \in DOMAIN Tail(s)
         /\ DOMAIN s \subseteq Nat \ {0} /\ DOMAIN Tail(s) \subseteq Nat \ {0}
  OBVIOUS

(* A sequence and one more element. *)
LEMMA AppendFacts ==
  ASSUME NEW S, NEW s \in Seq(S), NEW e \in S
  PROVE  /\ Append(s, e) \in Seq(S)
         /\ s \o <<e>> = Append(s, e)
         /\ DOMAIN s \subseteq DOMAIN Append(s, e)
         /\ \A k \in DOMAIN s : Append(s, e)[k] = s[k]
         /\ \A k \in DOMAIN Append(s, e) : k \in DOMAIN s \/ Append(s, e)[k] = e
         /\ \A k, l \in DOMAIN Append(s, e) : k \notin DOMAIN s /\ l \notin DOMAIN s => k = l
         /\ \E k \in DOMAIN Append(s, e) : Append(s, e)[k] = e
  <1>1. Append(s, e) \in Seq(S) /\ s \o <<e>> = Append(s, e)
    OBVIOUS
  <1>2. DOMAIN s = 1..Len(s) /\ DOMAIN Append(s, e) = 1..(Len(s) + 1) /\ Len(s) \in Nat
    OBVIOUS
  <1>3. \A k \in 1..Len(s) : Append(s, e)[k] = s[k]
    OBVIOUS
  <1>4. Append(s, e)[Len(s) + 1] = e
    OBVIOUS
  <1> QED BY <1>1, <1>2, <1>3, <1>4

(* The ids of a sequence of messages, with and without its head. *)
LEMMA IdsOfTail ==
  ASSUME NEW S, NEW s \in Seq(S), s # <<>>
  PROVE  /\ IdsOf(s) = {Head(s).id} \cup IdsOf(Tail(s))
         /\ (\A k, l \in DOMAIN s : s[k].id = s[l].id => k = l)
              => /\ Head(s).id \notin IdsOf(Tail(s))
                 /\ \A k, l \in DOMAIN Tail(s) : Tail(s)[k].id = Tail(s)[l].id => k = l
  <1> USE TailFacts
  <1>1. IdsOf(s) \subseteq {Head(s).id} \cup IdsOf(Tail(s))
    <2> SUFFICES ASSUME NEW k \in DOMAIN s
                 PROVE  s[k].id \in {Head(s).id} \cup IdsOf(Tail(s))
      BY DEF IdsOf
    <2>1. CASE k = 1
      BY <2>1
    <2>2. CASE k - 1 \in DOMAIN Tail(s)
      <3>1. Tail(s)[k - 1] = s[k]
        BY <2>2
      <3> QED BY <2>2, <3>1 DEF IdsOf
    <2> QED BY <2>1, <2>2
  <1>2. {Head(s).id} \cup IdsOf(Tail(s)) \subseteq IdsOf(s)
    BY DEF IdsOf
  <1>3. ASSUME \A k, l \in DOMAIN s : s[k].id = s[l].id => k = l
        PROVE  /\ Head(s).id \notin IdsOf(Tail(s))
               /\ \A k, l \in DOMAIN Tail(s) : Tail(s)[k].id = Tail(s)[l].id => k = l
    <2>1. \A k \in DOMAIN Tail(s) : Tail(s)[k].id # Head(s).id
      BY <1>3
    <2>2. ASSUME NEW k \in DOMAIN Tail(s), NEW l \in DOMAIN Tail(s),
                 Tail(s)[k].id = Tail(s)[l].id
          PROVE  k = l
      <3>1. k + 1 = l + 1
        BY <1>3, <2>2
      <3> QED BY <3>1
    <2> QED BY <2>1, <2>2 DEF IdsOf
  <1> QED BY <1>1, <1>2, <1>3

LEMMA IdsOfAppend ==
  ASSUME NEW S, NEW s \in Seq(S), NEW e \in S
  PROVE  /\ IdsOf(Append(s, e)) = IdsOf(s) \cup {e.id}
         /\ (\A k, l \in DOMAIN s : s[k].id = s[l].id => k = l) /\ e.id \notin IdsOf(s)
              => \A k, l \in DOMAIN Append(s, e) :
                   Append(s, e)[k].id = Append(s, e)[l].id => k = l
  <1> USE AppendFacts
  <1>1. IdsOf(Append(s, e)) \subseteq IdsOf(s) \cup {e.id}
    BY DEF IdsOf
  <1>2. IdsOf(s) \cup {e.id} \subseteq IdsOf(Append(s, e))
    BY DEF IdsOf
  <1>3. ASSUME \A k, l \in DOMAIN s : s[k].id = s[l].id => k = l, e.id \notin IdsOf(s),
               NEW k \in DOMAIN Append(s, e), NEW l \in DOMAIN Append(s, e),
               Append(s, e)[k].id = Append(s, e)[l].id
        PROVE  k = l
    <2>1. \A j \in DOMAIN s : s[j].id # e.id
      BY <1>3 DEF IdsOf
    <2>2. CASE k \in DOMAIN s /\ l \in DOMAIN s
      BY <1>3, <2>2
    <2>3. CASE k \notin DOMAIN s /\ l \notin DOMAIN s
      BY <2>3
    <2>4. CASE (k \in DOMAIN s) # (l \in DOMAIN s)
      BY <1>3, <2>1, <2>4
    <2> QED BY <2>2, <2>3, <2>4
  <1> QED BY <1>1, <1>2, <1>3

-----------------------------------------------------------------------------
(* Where the ids are: in requests that are posted or served, and in answers. *)
RequestIds(S) == {m.id : m \in S}

Distinct(s) == \A k, l \in DOMAIN s : s[k].id = s[l].id => k = l

(* Taking a request leaves the others as they are, and nothing carries its id then. *)
LEMMA ReceivedFacts ==
  ASSUME TypeOK, OneMessage, NEW m \in Requests, Received(m)
  PROVE  /\ toNative' \in Seq(Requests) /\ http' \subseteq http
         /\ Distinct(toNative')
         /\ \A k \in DOMAIN toNative' : \E l \in DOMAIN toNative : toNative'[k] = toNative[l]
         /\ m \in http \/ \E k \in DOMAIN toNative : m = toNative[k]
         /\ IdsOf(toNative) \cup RequestIds(http)
              = {m.id} \cup IdsOf(toNative') \cup RequestIds(http')
         /\ m.id \notin IdsOf(toNative') \cup RequestIds(http')
         /\ m.id \notin RequestIds(running) \cup IdsOf(toWeb) \cup RequestIds(fetched)
  <1> USE DEF RequestIds, Distinct
  <1>0. toNative \in Seq(Requests) /\ http \subseteq Requests
    BY DEF TypeOK
  <1>1. CASE toNative # <<>> /\ m = Head(toNative) /\ toNative' = Tail(toNative) /\ http' = http
    <2>1. IdsOf(toNative) = {m.id} \cup IdsOf(toNative')
          /\ m.id \notin IdsOf(toNative') /\ Distinct(toNative')
      BY <1>0, <1>1, IdsOfTail DEF OneMessage
    <2>2. /\ toNative' \in Seq(Requests) /\ \E k \in DOMAIN toNative : m = toNative[k]
          /\ \A k \in DOMAIN toNative' : \E l \in DOMAIN toNative : toNative'[k] = toNative[l]
      BY <1>0, <1>1, TailFacts
    <2> QED BY <1>1, <2>1, <2>2 DEF OneMessage
  <1>2. CASE m \in http /\ http' = http \ {m} /\ toNative' = toNative
    BY <1>0, <1>2 DEF OneMessage
  <1> QED BY <1>1, <1>2 DEF Received

(* An answer goes to one place, unless nobody waits for it any more. *)
LEMMA RespondFacts ==
  ASSUME TypeOK, OneMessage, NEW m \in Requests, Respond(m, Served(m)),
         m.id \notin IdsOf(toWeb) \cup RequestIds(fetched)
  PROVE  /\ toWeb' \in Seq(Answers) /\ fetched' \subseteq Answers
         /\ Distinct(toWeb') /\ \A a, b \in fetched' : a.id = b.id => a = b
         /\ IdsOf(toWeb) \subseteq IdsOf(toWeb') /\ fetched \subseteq fetched'
         /\ IdsOf(toWeb') \subseteq IdsOf(toWeb) \cup {m.id}
         /\ RequestIds(fetched') \subseteq RequestIds(fetched) \cup {m.id}
         /\ IdsOf(toWeb') \cap RequestIds(fetched') = {}
         /\ promise[m.id] # None => m.id \in IdsOf(toWeb') \cup RequestIds(fetched')
         /\ ~m.web => toWeb' = toWeb
         /\ \A k \in DOMAIN toWeb' :
              (\E l \in DOMAIN toWeb : toWeb'[k] = toWeb[l])
              \/ (toWeb'[k].id = m.id /\ toWeb'[k].data = m.call)
         /\ \A a \in fetched' :
              a \in fetched \/ (a.id = m.id /\ a.data = m.call /\ promise[m.id] # None)
  <1> DEFINE answer == [id |-> m.id, ok |-> TRUE, data |-> m.call]
  <1>0. /\ toWeb \in Seq(Answers) /\ fetched \subseteq Answers /\ answer \in Answers
        /\ answer.id = m.id /\ answer.data = m.call /\ m.web \in BOOLEAN
    BY DEF TypeOK, Requests, Answers
  <1>1. Distinct(toWeb) /\ (\A a, b \in fetched : a.id = b.id => a = b)
        /\ IdsOf(toWeb) \cap RequestIds(fetched) = {}
    BY DEF OneMessage, Distinct, RequestIds
  <1>2. CASE m.web
    <2>1. toWeb' = Append(toWeb, answer) /\ fetched' = fetched
      BY <1>2 DEF Respond, Served
    <2>2. IdsOf(toWeb') = IdsOf(toWeb) \cup {m.id} /\ Distinct(toWeb')
      BY <1>0, <1>1, <2>1, IdsOfAppend DEF Distinct
    <2>3. toWeb' \in Seq(Answers)
          /\ \A k \in DOMAIN toWeb' :
               (\E l \in DOMAIN toWeb : toWeb'[k] = toWeb[l]) \/ toWeb'[k] = answer
      BY <1>0, <2>1, AppendFacts
    <2> HIDE DEF answer
    <2> QED BY <1>0, <1>1, <1>2, <2>1, <2>2, <2>3
  <1>3. CASE ~m.web
    <2>1. toWeb' = toWeb
          /\ fetched' = IF promise[m.id] = None THEN fetched ELSE fetched \cup {answer}
      BY <1>3 DEF Respond, Served
    <2> HIDE DEF answer
    <2>2. fetched' \subseteq Answers /\ (\A a, b \in fetched' : a.id = b.id => a = b)
      BY <1>0, <1>1, <2>1 DEF RequestIds
    <2>3. RequestIds(fetched') \subseteq RequestIds(fetched) \cup {m.id}
          /\ (promise[m.id] # None => m.id \in RequestIds(fetched'))
      BY <1>0, <2>1 DEF RequestIds
    <2>4. IdsOf(toWeb') \cap RequestIds(fetched') = {}
      BY <1>1, <2>1, <2>3
    <2>5. \A a \in fetched' :
            a \in fetched \/ (a.id = m.id /\ a.data = m.call /\ promise[m.id] # None)
      BY <1>0, <2>1
    <2>6. fetched \subseteq fetched' /\ Distinct(toWeb') /\ toWeb' \in Seq(Answers)
          /\ \A k \in DOMAIN toWeb' : \E l \in DOMAIN toWeb : toWeb'[k] = toWeb[l]
      BY <1>0, <1>1, <2>1
    <2> QED BY <1>3, <2>1, <2>2, <2>3, <2>4, <2>5, <2>6
  <1> QED BY <1>0, <1>2, <1>3

(* An answer that arrives leaves the others on their way. *)
LEMMA ArrivesFacts ==
  ASSUME TypeOK, OneMessage, NEW m \in Answers, Arrives(m)
  PROVE  /\ toWeb' \in Seq(Answers) /\ fetched' \subseteq fetched
         /\ Distinct(toWeb')
         /\ \A k \in DOMAIN toWeb' : \E l \in DOMAIN toWeb : toWeb'[k] = toWeb[l]
         /\ m \in fetched \/ \E k \in DOMAIN toWeb : m = toWeb[k]
         /\ IdsOf(toWeb) \cup RequestIds(fetched)
              = {m.id} \cup IdsOf(toWeb') \cup RequestIds(fetched')
         /\ IdsOf(toWeb') \subseteq IdsOf(toWeb)
         /\ m.id \notin IdsOf(toWeb') \cup RequestIds(fetched')
         /\ m.id \notin RequestIds(running) \cup IdsOf(toNative) \cup RequestIds(http)
  <1> USE DEF RequestIds, Distinct
  <1>0. toWeb \in Seq(Answers) /\ fetched \subseteq Answers
    BY DEF TypeOK
  <1>1. CASE toWeb # <<>> /\ m = Head(toWeb) /\ toWeb' = Tail(toWeb) /\ fetched' = fetched
    <2>1. IdsOf(toWeb) = {m.id} \cup IdsOf(toWeb')
          /\ m.id \notin IdsOf(toWeb') /\ Distinct(toWeb')
      BY <1>0, <1>1, IdsOfTail DEF OneMessage
    <2>2. /\ toWeb' \in Seq(Answers) /\ \E k \in DOMAIN toWeb : m = toWeb[k]
          /\ \A k \in DOMAIN toWeb' : \E l \in DOMAIN toWeb : toWeb'[k] = toWeb[l]
      BY <1>0, <1>1, TailFacts
    <2> QED BY <1>1, <2>1, <2>2 DEF OneMessage
  <1>2. CASE m \in fetched /\ fetched' = fetched \ {m} /\ toWeb' = toWeb
    BY <1>0, <1>2 DEF OneMessage
  <1> QED BY <1>1, <1>2 DEF Arrives

(* A call that is made: one id is taken, and one request posted or sent. *)
LEMMA InvokeFacts ==
  ASSUME TypeOK, NEW i \in Ids, NEW call \in Calls, Invoke(i, call)
  PROVE  /\ Request(i, call) \in Requests /\ Request(i, call).id = i
         /\ Request(i, call).call = call /\ Request(i, call).web = (platform = "webview")
         /\ promise[i] = None /\ i \notin Carried
         /\ promise' = [j \in Ids |-> IF j = i THEN call ELSE promise[j]]
         /\ IF platform = "webview"
            THEN /\ pending' = pending \cup {i} /\ http' = http
                 /\ toNative' = Append(toNative, Request(i, call))
            ELSE /\ pending' = pending /\ toNative' = toNative
                 /\ http' = http \cup {Request(i, call)}
         /\ UNCHANGED <<platform, injections, running, handler, fetched, toWeb, outcome, hung>>
  <1> DEFINE r == Request(i, call)
  <1>1. r \in Requests /\ r.id = i /\ r.call = call /\ r.web = (platform = "webview")
    BY DEF Request, Requests
  <1>2. promise[i] = None /\ i \notin Carried
    BY DEF Invoke, FreeIds
  <1>3. Turn({}, <<r>>)
        /\ UNCHANGED <<handler, fetched, toWeb, outcome, hung>>
    BY DEF Invoke, answerVars
  <1>4. UNCHANGED <<platform, injections, running>>
    BY <1>3 DEF Turn, transportVars
  <1>5. toNative \in Seq(Requests)
    BY DEF TypeOK
  <1> HIDE DEF r
  <1>6. DOMAIN <<r>> = {1} /\ <<r>>[1] = r
    OBVIOUS
  <1>7. IdsOf(<<r>>) = {i} /\ {<<r>>[k] : k \in DOMAIN <<r>>} = {r}
    BY <1>1, <1>6 DEF IdsOf
  <1>8. <<r>>[CHOOSE k \in DOMAIN <<r>> : <<r>>[k].id = i].call = call
    BY <1>1, <1>6
  <1>9. promise' = [j \in Ids |-> IF j = i THEN call ELSE promise[j]]
    <2>1. promise' = [j \in Ids |->
                        IF j \in IdsOf(<<r>>)
                        THEN <<r>>[CHOOSE k \in DOMAIN <<r>> : <<r>>[k].id = j].call
                        ELSE IF j \in {} THEN None ELSE promise[j]]
      BY <1>3 DEF Turn
    <2> QED BY <2>1, <1>7, <1>8
  <1>10. toNative \o <<r>> = Append(toNative, r)
    BY <1>1, <1>5, AppendFacts
  <1>11. CASE platform = "webview"
    <2>1. pending' = pending \cup {i} /\ toNative' = Append(toNative, r) /\ http' = http
      BY <1>3, <1>7, <1>10, <1>11 DEF Turn
    <2> QED BY <1>1, <1>2, <1>3, <1>4, <1>9, <1>11, <2>1 DEF r
  <1>12. CASE platform # "webview"
    <2>1. pending' = pending /\ toNative' = toNative /\ http' = http \cup {r}
      BY <1>3, <1>7, <1>12 DEF Turn
    <2> QED BY <1>1, <1>2, <1>3, <1>4, <1>9, <1>12, <2>1 DEF r
  <1> QED BY <1>11, <1>12

(* A promise that settles: its id is forgotten, and nothing is asked. *)
LEMMA SettleFacts ==
  ASSUME TypeOK, NEW m \in Answers, Settle(m)
  PROVE  /\ Arrives(m)
         /\ promise' = [j \in Ids |-> IF j = m.id THEN None ELSE promise[j]]
         /\ pending' = pending \ {m.id}
         /\ outcome' = [call |-> promise[m.id], answered |-> m.data]
         /\ UNCHANGED <<platform, injections, toNative, http, running, handler, hung>>
  <1>1. Turn({m.id}, <<>>) /\ Arrives(m) /\ UNCHANGED <<handler, hung>>
        /\ outcome' = [call |-> promise[m.id], answered |-> m.data]
    BY DEF Settle
  <1>2. IdsOf(<<>>) = {} /\ {(<< >>)[k] : k \in DOMAIN << >>} = {}
    BY DEF IdsOf
  <1>3. toNative \o <<>> = toNative
    BY DEF TypeOK
  <1>4. promise' = [j \in Ids |-> IF j = m.id THEN None ELSE promise[j]]
    <2>1. promise' = [j \in Ids |->
                        IF j \in IdsOf(<<>>)
                        THEN (<< >>)[CHOOSE k \in DOMAIN << >> : (<< >>)[k].id = j].call
                        ELSE IF j \in {m.id} THEN None ELSE promise[j]]
      BY <1>1 DEF Turn
    <2> QED BY <2>1, <1>2
  <1>5. UNCHANGED <<platform, injections, running>>
    BY <1>1 DEF Turn, transportVars
  <1>6. pending' = pending \ {m.id} /\ toNative' = toNative /\ http' = http
    BY <1>1, <1>2, <1>3 DEF Turn
  <1> QED BY <1>1, <1>4, <1>5, <1>6

-----------------------------------------------------------------------------
(* Messages carry ids. *)
LEMMA IdsTyped ==
  /\ \A s \in Seq(Requests) : IdsOf(s) \subseteq Ids
  /\ \A s \in Seq(Answers) : IdsOf(s) \subseteq Ids
  <1>1. ASSUME NEW s \in Seq(Requests) PROVE IdsOf(s) \subseteq Ids
    <2>1. \A k \in DOMAIN s : s[k] \in Requests
      OBVIOUS
    <2> QED BY <2>1 DEF IdsOf, Requests
  <1>2. ASSUME NEW s \in Seq(Answers) PROVE IdsOf(s) \subseteq Ids
    <2>1. \A k \in DOMAIN s : s[k] \in Answers
      OBVIOUS
    <2> QED BY <2>1 DEF IdsOf, Answers
  <1> QED BY <1>1, <1>2

(* Posted requests, scripts, requests that are served and responses share no id. *)
Apart(N, W, R, F) ==
  N \cap W = {} /\ N \cap R = {} /\ N \cap F = {} /\ W \cap R = {} /\ W \cap F = {} /\ R \cap F = {}

LEMMA OneMessageSets ==
  OneMessage <=>
    /\ Distinct(toNative) /\ Distinct(toWeb)
    /\ \A m, n \in http \cup running : m.id = n.id => m = n
    /\ \A m, n \in fetched : m.id = n.id => m = n
    /\ http \cap running = {}
    /\ Apart(IdsOf(toNative), IdsOf(toWeb), RequestIds(http \cup running), RequestIds(fetched))
  <1> DEFINE R == {m.id : m \in http \cup running}
             F == {m.id : m \in fetched}
             N == IdsOf(toNative)
             W == IdsOf(toWeb)
  <1>1. Apart(N, W, R, F) <=> N \cap W = {} /\ R \cap (N \cup W) = {} /\ F \cap (N \cup W \cup R) = {}
    <2> HIDE DEF R, F, N, W
    <2> QED BY DEF Apart
  <1>2. RequestIds(http \cup running) = R /\ RequestIds(fetched) = F
    BY DEF RequestIds
  <1> QED BY <1>1, <1>2 DEF OneMessage, Distinct

(* The same of the next state. *)
LEMMA OneMessageNext ==
  ASSUME Distinct(toNative'), Distinct(toWeb'),
         \A m, n \in http' \cup running' : m.id = n.id => m = n,
         \A m, n \in fetched' : m.id = n.id => m = n,
         http' \cap running' = {},
         Apart(IdsOf(toNative'), IdsOf(toWeb'), RequestIds(http' \cup running'),
               RequestIds(fetched'))
  PROVE  OneMessage'
  <1> DEFINE R == {m.id : m \in http' \cup running'}
             F == {m.id : m \in fetched'}
             N == IdsOf(toNative')
             W == IdsOf(toWeb')
  <1>1. Apart(N, W, R, F)
    BY DEF RequestIds
  <1>2. N \cap W = {} /\ R \cap (N \cup W) = {} /\ F \cap (N \cup W \cup R) = {}
    <2> HIDE DEF R, F, N, W
    <2> QED BY <1>1 DEF Apart
  <1> QED BY <1>2 DEF OneMessage, Distinct

(* A step that moves one id, and drops others, keeps them apart. *)
LEMMA ApartAfter ==
  ASSUME OneMessage, NEW x,
         IdsOf(toNative') \subseteq IdsOf(toNative) \cup {x},
         IdsOf(toWeb') \subseteq IdsOf(toWeb) \cup {x},
         RequestIds(http' \cup running') \subseteq RequestIds(http \cup running) \cup {x},
         RequestIds(fetched') \subseteq RequestIds(fetched) \cup {x},
         x \in IdsOf(toNative')
           => x \notin IdsOf(toWeb') \cup RequestIds(http' \cup running') \cup RequestIds(fetched'),
         x \in IdsOf(toWeb') => x \notin RequestIds(http' \cup running') \cup RequestIds(fetched'),
         x \in RequestIds(http' \cup running') => x \notin RequestIds(fetched')
  PROVE  Apart(IdsOf(toNative'), IdsOf(toWeb'), RequestIds(http' \cup running'),
               RequestIds(fetched'))
  <1>1. Apart(IdsOf(toNative), IdsOf(toWeb), RequestIds(http \cup running), RequestIds(fetched))
    BY OneMessageSets
  <1> QED BY <1>1 DEF Apart

Core == TypeOK /\ OneMessage

LEMMA CoreInit == Init => Core
  BY DEF Init, BridgeInit, Core, TypeOK, OneMessage, IdsOf

LEMMA CoreInvoke ==
  ASSUME Core, NEW i \in Ids, NEW call \in Calls, Invoke(i, call)
  PROVE  Core'
  <1> DEFINE r == Request(i, call)
  <1>0. TypeOK /\ OneMessage
    BY DEF Core
  <1>1. /\ r \in Requests /\ r.id = i
        /\ i \notin Carried
        /\ promise' = [j \in Ids |-> IF j = i THEN call ELSE promise[j]]
        /\ UNCHANGED <<platform, injections, running, handler, fetched, toWeb, outcome, hung>>
    BY <1>0, InvokeFacts
  <1>2. IF platform = "webview"
        THEN pending' = pending \cup {i} /\ http' = http /\ toNative' = Append(toNative, r)
        ELSE pending' = pending /\ toNative' = toNative /\ http' = http \cup {r}
    BY <1>0, InvokeFacts
  <1> HIDE DEF r
  <1>3. toNative \in Seq(Requests) /\ http \subseteq Requests /\ promise \in [Ids -> Calls \cup {None}]
    BY <1>0 DEF TypeOK
  <1>4. /\ i \notin IdsOf(toNative) \cup IdsOf(toWeb)
        /\ i \notin RequestIds(http \cup running) \cup RequestIds(fetched)
    BY <1>1 DEF Carried, RequestIds
  <1>5. TypeOK'
    <2>1. promise' \in [Ids -> Calls \cup {None}] /\ pending' \subseteq Ids
      BY <1>0, <1>1, <1>2 DEF TypeOK
    <2>2. toNative' \in Seq(Requests) /\ http' \subseteq Requests
      BY <1>1, <1>2, <1>3, AppendFacts
    <2> QED BY <1>0, <1>1, <2>1, <2>2 DEF TypeOK
  <1>6. OneMessage'
    <2>1. CASE platform = "webview"
      <3>1. toNative' = Append(toNative, r) /\ http' = http
        BY <1>2, <2>1
      <3>2. IdsOf(toNative') = IdsOf(toNative) \cup {i} /\ Distinct(toNative')
        <4>1. Distinct(toNative)
          BY <1>0, OneMessageSets
        <4> QED BY <1>1, <1>3, <1>4, <3>1, <4>1, IdsOfAppend DEF Distinct
      <3>3. Apart(IdsOf(toNative'), IdsOf(toWeb'), RequestIds(http' \cup running'),
                  RequestIds(fetched'))
        BY <1>0, <1>1, <1>4, <3>1, <3>2, ApartAfter
      <3> QED BY <1>0, <1>1, <3>1, <3>2, <3>3, OneMessageSets, OneMessageNext DEF OneMessage
    <2>2. CASE platform # "webview"
      <3>1. toNative' = toNative /\ http' = http \cup {r}
        BY <1>2, <2>2
      <3>2. http' \cap running' = {} /\ \A m, n \in http' \cup running' : m.id = n.id => m = n
        BY <1>0, <1>1, <1>4, <3>1 DEF OneMessage, RequestIds
      <3>3. RequestIds(http' \cup running') = RequestIds(http \cup running) \cup {i}
        BY <1>1, <3>1 DEF RequestIds
      <3>4. Apart(IdsOf(toNative'), IdsOf(toWeb'), RequestIds(http' \cup running'),
                  RequestIds(fetched'))
        BY <1>0, <1>1, <1>4, <3>1, <3>3, ApartAfter
      <3> QED BY <1>0, <1>1, <3>1, <3>2, <3>4, OneMessageSets, OneMessageNext DEF OneMessage
    <2> QED BY <2>1, <2>2
  <1> QED BY <1>5, <1>6 DEF Core

LEMMA CoreHandle ==
  ASSUME Core, NEW m \in Requests, Handle(m)
  PROVE  Core'
  <1>0. TypeOK /\ OneMessage
    BY DEF Core
  <1>1. Received(m) /\ UNCHANGED <<platform, injections, promise, pending, handler, outcome, hung>>
    BY DEF Handle, BeginInvoke, HandleInvoke, transportVars
  <1>2. /\ toNative' \in Seq(Requests) /\ http' \subseteq http /\ Distinct(toNative')
        /\ IdsOf(toNative) \cup RequestIds(http)
             = {m.id} \cup IdsOf(toNative') \cup RequestIds(http')
        /\ m.id \notin IdsOf(toNative') \cup RequestIds(http')
        /\ m.id \notin RequestIds(running) \cup IdsOf(toWeb) \cup RequestIds(fetched)
    BY <1>0, <1>1, ReceivedFacts
  <1>3. IdsOf(toNative') \subseteq IdsOf(toNative)
    <2>1. \A k \in DOMAIN toNative' : \E l \in DOMAIN toNative : toNative'[k] = toNative[l]
      BY <1>0, <1>1, ReceivedFacts
    <2> QED BY <2>1 DEF IdsOf
  <1>4. CASE m.call \in Awaiting
    <2>1. running' = running \cup {m} /\ fetched' = fetched /\ toWeb' = toWeb
      BY <1>4 DEF Handle, BeginInvoke, answerVars
    <2>2. TypeOK'
      BY <1>0, <1>1, <1>2, <2>1 DEF TypeOK
    <2>3. http' \cap running' = {} /\ \A a, b \in http' \cup running' : a.id = b.id => a = b
      BY <1>0, <1>2, <2>1 DEF OneMessage, RequestIds
    <2>4. RequestIds(http' \cup running') = RequestIds(http') \cup RequestIds(running) \cup {m.id}
      BY <2>1 DEF RequestIds
    <2>5. RequestIds(http') \subseteq RequestIds(http)
      BY <1>2 DEF RequestIds
    <2>6. RequestIds(http \cup running) = RequestIds(http) \cup RequestIds(running)
      BY DEF RequestIds
    <2>7. OneMessage'
      <3>1. Apart(IdsOf(toNative'), IdsOf(toWeb'), RequestIds(http' \cup running'),
                  RequestIds(fetched'))
        <4>1. RequestIds(http' \cup running') \subseteq RequestIds(http \cup running) \cup {m.id}
          BY <2>4, <2>5, <2>6
        <4> QED BY <1>0, <1>2, <1>3, <2>1, <4>1, ApartAfter
      <3> QED BY <1>0, <1>2, <2>1, <2>3, <3>1, OneMessageSets, OneMessageNext DEF OneMessage
    <2> QED BY <2>2, <2>7 DEF Core
  <1>5. CASE m.call \notin Awaiting
    <2>1. running' = running /\ Respond(m, Served(m))
      BY <1>5 DEF Handle, HandleInvoke
    <2>2. /\ toWeb' \in Seq(Answers) /\ fetched' \subseteq Answers
          /\ Distinct(toWeb') /\ \A a, b \in fetched' : a.id = b.id => a = b
          /\ IdsOf(toWeb') \subseteq IdsOf(toWeb) \cup {m.id}
          /\ RequestIds(fetched') \subseteq RequestIds(fetched) \cup {m.id}
          /\ IdsOf(toWeb') \cap RequestIds(fetched') = {}
      BY <1>0, <1>2, <2>1, RespondFacts
    <2>3. TypeOK'
      BY <1>0, <1>1, <1>2, <2>1, <2>2 DEF TypeOK
    <2>4. RequestIds(http' \cup running') \subseteq RequestIds(http \cup running)
          /\ m.id \notin RequestIds(http' \cup running')
      BY <1>2, <2>1 DEF RequestIds
    <2>5. http' \cap running' = {} /\ \A a, b \in http' \cup running' : a.id = b.id => a = b
      BY <1>0, <1>2, <2>1 DEF OneMessage
    <2>6. OneMessage'
      <3>1. Apart(IdsOf(toNative'), IdsOf(toWeb'), RequestIds(http' \cup running'),
                  RequestIds(fetched'))
        BY <1>0, <1>2, <1>3, <2>2, <2>4, ApartAfter
      <3> QED BY <1>2, <2>2, <2>5, <3>1, OneMessageNext
    <2> QED BY <2>3, <2>6 DEF Core
  <1> QED BY <1>4, <1>5

LEMMA CoreFinish ==
  ASSUME Core, NEW m \in running, Finish(m)
  PROVE  Core'
  <1>0. TypeOK /\ OneMessage /\ m \in Requests
    BY DEF Core, TypeOK
  <1>1. /\ running' = running \ {m} /\ Respond(m, Served(m))
        /\ UNCHANGED <<platform, injections, promise, pending, handler, toNative, http, outcome,
                       hung>>
    BY DEF Finish, FinishInvoke, transportVars
  <1>2. m.id \in RequestIds(http \cup running)
    BY DEF RequestIds
  <1>3. m.id \notin IdsOf(toNative) \cup IdsOf(toWeb) \cup RequestIds(fetched)
    BY <1>0, <1>2, OneMessageSets DEF Apart
  <1>4. /\ toWeb' \in Seq(Answers) /\ fetched' \subseteq Answers
        /\ Distinct(toWeb') /\ \A a, b \in fetched' : a.id = b.id => a = b
        /\ IdsOf(toWeb') \subseteq IdsOf(toWeb) \cup {m.id}
        /\ RequestIds(fetched') \subseteq RequestIds(fetched) \cup {m.id}
        /\ IdsOf(toWeb') \cap RequestIds(fetched') = {}
    BY <1>0, <1>1, <1>3, RespondFacts
  <1>5. TypeOK'
    BY <1>0, <1>1, <1>4 DEF TypeOK
  <1>6. /\ RequestIds(http' \cup running') \subseteq RequestIds(http \cup running)
        /\ m.id \notin RequestIds(http' \cup running')
    <2>1. m \in http \cup running /\ m \notin http' \cup running'
          /\ http' \cup running' \subseteq http \cup running
      BY <1>0, <1>1 DEF OneMessage
    <2> QED BY <1>0, <2>1, OneMessageSets DEF RequestIds
  <1>7. http' \cap running' = {} /\ \A a, b \in http' \cup running' : a.id = b.id => a = b
    BY <1>0, <1>1 DEF OneMessage
  <1>8. Apart(IdsOf(toNative'), IdsOf(toWeb'), RequestIds(http' \cup running'),
              RequestIds(fetched'))
    BY <1>0, <1>1, <1>3, <1>4, <1>6, ApartAfter
  <1> QED BY <1>0, <1>1, <1>4, <1>5, <1>7, <1>8, OneMessageSets, OneMessageNext DEF Core

LEMMA CoreSettle ==
  ASSUME Core, AnswerIsOwn, PendingAwaited, NEW m \in Answers, Settle(m)
  PROVE  Core' /\ promise[m.id] = m.data
  <1>0. TypeOK /\ OneMessage
    BY DEF Core
  <1>1. /\ Arrives(m) /\ promise' = [j \in Ids |-> IF j = m.id THEN None ELSE promise[j]]
        /\ pending' = pending \ {m.id}
        /\ outcome' = [call |-> promise[m.id], answered |-> m.data]
        /\ UNCHANGED <<platform, injections, toNative, http, running, handler, hung>>
    BY <1>0, SettleFacts
  <1>2. /\ toWeb' \in Seq(Answers) /\ fetched' \subseteq fetched /\ Distinct(toWeb')
        /\ IdsOf(toWeb') \subseteq IdsOf(toWeb)
        /\ m.id \notin IdsOf(toWeb') \cup RequestIds(fetched')
    BY <1>0, <1>1, ArrivesFacts
  <1>3. RequestIds(fetched') \subseteq RequestIds(fetched)
    BY <1>2 DEF RequestIds
  <1>4. Apart(IdsOf(toNative'), IdsOf(toWeb'), RequestIds(http' \cup running'),
              RequestIds(fetched'))
    BY <1>0, <1>1, <1>2, <1>3, OneMessageSets DEF Apart
  <1>5. OneMessage'
    BY <1>0, <1>1, <1>2, <1>4, OneMessageSets, OneMessageNext DEF OneMessage
  <1>6. promise[m.id] = m.data
    <2>1. CASE m \in fetched
      BY <2>1 DEF AnswerIsOwn
    <2>2. CASE toWeb # <<>> /\ m = Head(toWeb) /\ m.id \in pending
      <3>1. \E k \in DOMAIN toWeb : m = toWeb[k]
        BY <1>0, <2>2, TailFacts DEF TypeOK
      <3> QED BY <2>2, <3>1 DEF AnswerIsOwn, PendingAwaited
    <2> QED BY <1>1, <2>1, <2>2 DEF Arrives
  <1>7. TypeOK'
    <2>1. promise' \in [Ids -> Calls \cup {None}]
      BY <1>0, <1>1 DEF TypeOK
    <2>2. outcome' \in [call : Calls, answered : Calls]
      BY <1>1, <1>6 DEF Answers
    <2> QED BY <1>0, <1>1, <1>2, <2>1, <2>2 DEF TypeOK
  <1> QED BY <1>5, <1>6, <1>7 DEF Core

LEMMA CoreLoseAnswer ==
  ASSUME Core, NEW m \in Requests, LoseAnswer(m)
  PROVE  Core'
  <1>0. TypeOK /\ OneMessage
    BY DEF Core
  <1>1. UNCHANGED <<platform, injections, promise, pending, handler, fetched, toWeb, outcome>>
        /\ hung' = IF promise[m.id] = None THEN hung ELSE hung \cup {m.id}
    BY DEF LoseAnswer, transportVars, answerVars
  <1>2. hung' \subseteq Ids
    BY <1>0, <1>1 DEF TypeOK, Requests
  <1>3. CASE Received(m) /\ running' = running
    <2>1. /\ toNative' \in Seq(Requests) /\ http' \subseteq http /\ Distinct(toNative')
          /\ \A k \in DOMAIN toNative' : \E l \in DOMAIN toNative : toNative'[k] = toNative[l]
      BY <1>0, <1>3, ReceivedFacts
    <2>2. IdsOf(toNative') \subseteq IdsOf(toNative)
      BY <2>1 DEF IdsOf
    <2>3. RequestIds(http' \cup running') \subseteq RequestIds(http \cup running)
      BY <1>3, <2>1 DEF RequestIds
    <2>4. Apart(IdsOf(toNative'), IdsOf(toWeb'), RequestIds(http' \cup running'),
                RequestIds(fetched'))
      BY <1>0, <1>1, <2>2, <2>3, OneMessageSets DEF Apart
    <2>5. http' \cap running' = {} /\ \A a, b \in http' \cup running' : a.id = b.id => a = b
      BY <1>0, <1>3, <2>1 DEF OneMessage
    <2>6. OneMessage'
      BY <1>0, <1>1, <2>1, <2>4, <2>5, OneMessageSets, OneMessageNext
    <2> QED BY <1>0, <1>1, <1>2, <1>3, <2>1, <2>6 DEF Core, TypeOK
  <1>4. CASE m \in running /\ running' = running \ {m} /\ toNative' = toNative /\ http' = http
    <2>1. RequestIds(http' \cup running') \subseteq RequestIds(http \cup running)
      BY <1>4 DEF RequestIds
    <2>2. Apart(IdsOf(toNative'), IdsOf(toWeb'), RequestIds(http' \cup running'),
                RequestIds(fetched'))
      BY <1>0, <1>1, <1>4, <2>1, OneMessageSets DEF Apart
    <2>3. http' \cap running' = {} /\ \A a, b \in http' \cup running' : a.id = b.id => a = b
      BY <1>0, <1>4 DEF OneMessage
    <2>4. OneMessage'
      BY <1>0, <1>1, <1>4, <2>2, <2>3, OneMessageSets, OneMessageNext
    <2> QED BY <1>0, <1>1, <1>2, <1>4, <2>4 DEF Core, TypeOK
  <1> QED BY <1>3, <1>4 DEF LoseAnswer

LEMMA CoreIgnore ==
  ASSUME Core, Ignore
  PROVE  Core'
  <1>0. TypeOK /\ OneMessage
    BY DEF Core
  <1>1. /\ toWeb # <<>> /\ toWeb' = Tail(toWeb)
        /\ UNCHANGED <<platform, injections, promise, pending, handler, toNative, http, running,
                       fetched, outcome, hung>>
    BY DEF Ignore, OnUnknownMessage, transportVars, nativeVars
  <1>2. toWeb' \in Seq(Answers) /\ Distinct(toWeb') /\ IdsOf(toWeb') \subseteq IdsOf(toWeb)
    BY <1>0, <1>1, TailFacts, IdsOfTail DEF TypeOK, OneMessage, Distinct
  <1>3. Apart(IdsOf(toNative'), IdsOf(toWeb'), RequestIds(http' \cup running'),
              RequestIds(fetched'))
    BY <1>0, <1>1, <1>2, OneMessageSets DEF Apart
  <1>4. OneMessage'
    BY <1>0, <1>1, <1>2, <1>3, OneMessageSets, OneMessageNext DEF OneMessage
  <1> QED BY <1>0, <1>1, <1>2, <1>4 DEF Core, TypeOK

LEMMA CorePage ==
  ASSUME Core, Inject \/ Reload
  PROVE  Core'
  <1>0. TypeOK /\ OneMessage
    BY DEF Core
  <1>1. CASE Inject
    <2>1. TypeOK'
      BY <1>0, <1>1 DEF TypeOK, Inject, InjectBridge, nativeVars, answerVars
    <2>2. OneMessage'
      BY <1>0, <1>1 DEF OneMessage, Inject, InjectBridge, nativeVars, answerVars
    <2> QED BY <2>1, <2>2 DEF Core
  <1>2. CASE Reload
    <2>1. TypeOK'
      BY <1>0, <1>2 DEF TypeOK, Reload, nativeVars
    <2>2. OneMessage'
      BY <1>0, <1>2 DEF OneMessage, Reload, nativeVars
    <2> QED BY <2>1, <2>2 DEF Core
  <1> QED BY <1>1, <1>2

-----------------------------------------------------------------------------
(***************************************************************************)
(* The inductive invariant. NativeKnown is what HangsOnlyIfLost needs: a   *)
(* script finds its promise in `pending`, or the promise is known to hang. *)
(***************************************************************************)
NativeIds ==
  IdsOf(toNative) \cup IdsOf(toWeb) \cup {m.id : m \in {n \in running : n.web}}

NativeKnown ==
  /\ \A k \in DOMAIN toNative : toNative[k].web
  /\ \A m \in http : ~m.web
  /\ \A i \in NativeIds : promise[i] # None => i \in pending \cup hung

IInv == Core /\ AnswerIsOwn /\ PendingAwaited /\ HangsOnlyIfLost /\ NativeKnown

LEMMA IInvInit == Init => IInv
  <1> SUFFICES ASSUME Init PROVE IInv
    OBVIOUS
  <1>1. Core
    BY CoreInit
  <1>2. AnswerIsOwn /\ PendingAwaited /\ HangsOnlyIfLost
    BY DEF Init, BridgeInit, AnswerIsOwn, PendingAwaited, HangsOnlyIfLost
  <1>3. NativeKnown
    BY DEF Init, BridgeInit, NativeKnown, NativeIds, IdsOf
  <1> QED BY <1>1, <1>2, <1>3 DEF IInv

LEMMA IInvInvoke ==
  ASSUME IInv, NEW i \in Ids, NEW call \in Calls, Invoke(i, call)
  PROVE  IInv'
  <1> DEFINE r == Request(i, call)
  <1>0. TypeOK /\ OneMessage /\ Core'
    BY CoreInvoke DEF IInv, Core
  <1>1. /\ r \in Requests /\ r.id = i /\ r.call = call /\ r.web = (platform = "webview")
        /\ i \notin Carried
        /\ promise' = [j \in Ids |-> IF j = i THEN call ELSE promise[j]]
        /\ UNCHANGED <<platform, injections, running, handler, fetched, toWeb, outcome, hung>>
    BY <1>0, InvokeFacts
  <1>2. IF platform = "webview"
        THEN pending' = pending \cup {i} /\ http' = http /\ toNative' = Append(toNative, r)
        ELSE pending' = pending /\ toNative' = toNative /\ http' = http \cup {r}
    BY <1>0, InvokeFacts
  <1> HIDE DEF r
  <1>3. /\ toNative \in Seq(Requests) /\ toWeb \in Seq(Answers)
        /\ http \cup running \subseteq Requests /\ fetched \subseteq Answers
        /\ promise \in [Ids -> Calls \cup {None}] /\ call # None
    BY <1>0, CallsAssumption DEF TypeOK
  <1>4. /\ i \notin IdsOf(toNative) \cup IdsOf(toWeb)
        /\ \A m \in http \cup running \cup fetched : m.id # i
    BY <1>1 DEF Carried
  <1>5. \A k \in DOMAIN toNative' : (\E l \in DOMAIN toNative : toNative'[k] = toNative[l])
                                    \/ (toNative'[k] = r /\ platform = "webview")
    <2>1. \A k \in DOMAIN Append(toNative, r) :
            (\E l \in DOMAIN toNative : Append(toNative, r)[k] = toNative[l])
            \/ Append(toNative, r)[k] = r
      BY <1>1, <1>3, AppendFacts
    <2> QED BY <1>2, <2>1
  <1>6. (IF platform = "webview" THEN IdsOf(toNative') = IdsOf(toNative) \cup {i}
                                 ELSE IdsOf(toNative') = IdsOf(toNative))
        /\ http \subseteq http' /\ (platform # "webview" => r \in http')
    <2>1. IdsOf(Append(toNative, r)) = IdsOf(toNative) \cup {i}
      BY <1>1, <1>3, IdsOfAppend
    <2> QED BY <1>2, <2>1
  <1>7. AnswerIsOwn'
    <2>1. \A k \in DOMAIN toNative' : promise'[toNative'[k].id] \in {None, toNative'[k].call}
      <3>1. \A l \in DOMAIN toNative : toNative[l].id # i /\ toNative[l] \in Requests
        BY <1>3, <1>4 DEF IdsOf
      <3>2. \A l \in DOMAIN toNative : promise'[toNative[l].id] \in {None, toNative[l].call}
        BY <1>1, <3>1 DEF IInv, AnswerIsOwn, Requests
      <3> QED BY <1>1, <1>5, <3>2
    <2>2. \A m \in http' \cup running' : promise'[m.id] \in {None, m.call}
      BY <1>1, <1>2, <1>3, <1>4 DEF IInv, AnswerIsOwn, Requests
    <2>3. \A m \in fetched' : promise'[m.id] = m.data
      BY <1>1, <1>3, <1>4 DEF IInv, AnswerIsOwn, Answers
    <2>4. \A k \in DOMAIN toWeb' : promise'[toWeb'[k].id] \in {None, toWeb'[k].data}
      <3>1. \A l \in DOMAIN toWeb : toWeb[l].id # i /\ toWeb[l] \in Answers
        BY <1>3, <1>4 DEF IdsOf
      <3> QED BY <1>1, <3>1 DEF IInv, AnswerIsOwn, Answers
    <2> QED BY <2>1, <2>2, <2>3, <2>4 DEF AnswerIsOwn
  <1>8. PendingAwaited'
    <2>1. \A j \in pending' : promise'[j] # None
      BY <1>0, <1>1, <1>2, <1>3 DEF IInv, PendingAwaited, TypeOK
    <2>2. platform' = "browser" => pending' = {}
      BY <1>1, <1>2 DEF IInv, PendingAwaited
    <2> QED BY <2>1, <2>2 DEF PendingAwaited
  <1>9. HangsOnlyIfLost'
    <2> SUFFICES ASSUME NEW j \in Ids, promise'[j] # None
                 PROVE  j \in (Carried \cup hung)'
      BY DEF HangsOnlyIfLost
    <2>1. CASE j = i
      BY <1>1, <1>6, <2>1 DEF Carried
    <2>2. CASE j # i
      <3>1. j \in Carried \cup hung
        BY <1>1, <2>2 DEF IInv, HangsOnlyIfLost
      <3> QED BY <1>1, <1>6, <3>1 DEF Carried
    <2> QED BY <2>1, <2>2
  <1>10. NativeKnown'
    <2>1. \A k \in DOMAIN toNative' : toNative'[k].web
      BY <1>1, <1>5 DEF IInv, NativeKnown
    <2>2. \A m \in http' : ~m.web
      BY <1>1, <1>2 DEF IInv, NativeKnown
    <2>3. NativeIds' \subseteq NativeIds \cup {i}
      BY <1>1, <1>6 DEF NativeIds
    <2>4. i \in NativeIds' => i \in pending'
      <3>1. i \notin NativeIds
        BY <1>4 DEF NativeIds
      <3>2. platform # "webview" => NativeIds' = NativeIds
        BY <1>1, <1>6 DEF NativeIds
      <3> QED BY <1>2, <3>1, <3>2
    <2>5. \A j \in NativeIds' : promise'[j] # None => j \in pending' \cup hung'
      <3> SUFFICES ASSUME NEW j \in NativeIds', promise'[j] # None, j # i
                   PROVE  j \in pending' \cup hung'
        BY <2>4
      <3>1. j \in NativeIds /\ j \in Ids
        <4>1. IdsOf(toNative) \subseteq Ids /\ IdsOf(toWeb) \subseteq Ids
          BY <1>3, IdsTyped
        <4> QED BY <1>3, <2>3, <4>1 DEF NativeIds, Requests
      <3>2. j \in pending \cup hung
        BY <1>1, <3>1 DEF IInv, NativeKnown
      <3> QED BY <1>1, <1>2, <3>2
    <2> QED BY <2>1, <2>2, <2>5 DEF NativeKnown
  <1> QED BY <1>0, <1>7, <1>8, <1>9, <1>10 DEF IInv

(* The request that is taken is about the call that its promise is of. *)
LEMMA TakenIsOwn ==
  ASSUME IInv, NEW m \in Requests, Received(m)
  PROVE  /\ promise[m.id] \in {None, m.call}
         /\ m.web => m.id \in NativeIds
  <1>1. TypeOK /\ OneMessage
    BY DEF IInv, Core
  <1>2. m \in http \/ \E k \in DOMAIN toNative : m = toNative[k]
    BY <1>1, ReceivedFacts
  <1>3. promise[m.id] \in {None, m.call}
    BY <1>2 DEF IInv, AnswerIsOwn
  <1>4. m.web => \E k \in DOMAIN toNative : m = toNative[k]
    BY <1>2 DEF IInv, NativeKnown
  <1>5. (\E k \in DOMAIN toNative : m = toNative[k]) => m.id \in IdsOf(toNative)
    BY DEF IdsOf
  <1> QED BY <1>3, <1>4, <1>5 DEF NativeIds

LEMMA IInvHandle ==
  ASSUME IInv, NEW m \in Requests, Handle(m)
  PROVE  IInv'
  <1>0. TypeOK /\ OneMessage /\ Core'
    BY CoreHandle DEF IInv, Core
  <1>1. Received(m) /\ UNCHANGED <<platform, injections, promise, pending, handler, outcome, hung>>
    BY DEF Handle, BeginInvoke, HandleInvoke, transportVars
  <1>2. /\ \A k \in DOMAIN toNative' : \E l \in DOMAIN toNative : toNative'[k] = toNative[l]
        /\ http' \subseteq http
        /\ IdsOf(toNative) \cup RequestIds(http)
             = {m.id} \cup IdsOf(toNative') \cup RequestIds(http')
        /\ m.id \notin RequestIds(running) \cup IdsOf(toWeb) \cup RequestIds(fetched)
    BY <1>0, <1>1, ReceivedFacts
  <1>3. promise[m.id] \in {None, m.call} /\ (m.web => m.id \in NativeIds)
    BY <1>1, TakenIsOwn
  <1>4. PendingAwaited'
    BY <1>1 DEF IInv, PendingAwaited
  <1>5. (\A k \in DOMAIN toNative' : toNative'[k].web) /\ (\A n \in http' : ~n.web)
    BY <1>2 DEF IInv, NativeKnown
  <1>6. IdsOf(toNative') \subseteq IdsOf(toNative)
    BY <1>2 DEF IdsOf
  <1>7. \A k \in DOMAIN toNative' : promise'[toNative'[k].id] \in {None, toNative'[k].call}
    BY <1>1, <1>2 DEF IInv, AnswerIsOwn
  <1>8. CASE m.call \in Awaiting
    <2>1. running' = running \cup {m} /\ fetched' = fetched /\ toWeb' = toWeb
      BY <1>8 DEF Handle, BeginInvoke, answerVars
    <2>2. AnswerIsOwn'
      BY <1>1, <1>2, <1>3, <1>7, <2>1 DEF IInv, AnswerIsOwn
    <2>3. Carried \subseteq Carried'
      BY <1>2, <2>1 DEF Carried, RequestIds
    <2>4. NativeIds' \subseteq NativeIds
      BY <1>3, <1>6, <2>1 DEF NativeIds
    <2> QED BY <1>0, <1>1, <1>4, <1>5, <2>2, <2>3, <2>4
            DEF IInv, HangsOnlyIfLost, NativeKnown
  <1>9. CASE m.call \notin Awaiting
    <2>1. running' = running /\ Respond(m, Served(m))
      BY <1>9 DEF Handle, HandleInvoke
    <2>2. /\ IdsOf(toWeb) \subseteq IdsOf(toWeb') /\ fetched \subseteq fetched'
          /\ IdsOf(toWeb') \subseteq IdsOf(toWeb) \cup {m.id}
          /\ promise[m.id] # None => m.id \in IdsOf(toWeb') \cup RequestIds(fetched')
          /\ ~m.web => toWeb' = toWeb
          /\ \A k \in DOMAIN toWeb' :
               (\E l \in DOMAIN toWeb : toWeb'[k] = toWeb[l])
               \/ (toWeb'[k].id = m.id /\ toWeb'[k].data = m.call)
          /\ \A a \in fetched' :
               a \in fetched \/ (a.id = m.id /\ a.data = m.call /\ promise[m.id] # None)
      BY <1>0, <1>2, <2>1, RespondFacts
    <2>3. AnswerIsOwn'
      <3>1. \A n \in http' \cup running' : promise'[n.id] \in {None, n.call}
        BY <1>1, <1>2, <2>1 DEF IInv, AnswerIsOwn
      <3>2. \A a \in fetched' : promise'[a.id] = a.data
        BY <1>1, <1>3, <2>2 DEF IInv, AnswerIsOwn
      <3>3. \A k \in DOMAIN toWeb' : promise'[toWeb'[k].id] \in {None, toWeb'[k].data}
        BY <1>1, <1>3, <2>2 DEF IInv, AnswerIsOwn
      <3> QED BY <1>7, <3>1, <3>2, <3>3 DEF AnswerIsOwn
    <2>4. \A j \in Carried : j \in Carried' \/ promise[j] = None
      <3>1. Carried = IdsOf(toNative) \cup IdsOf(toWeb) \cup RequestIds(http)
                      \cup RequestIds(running) \cup RequestIds(fetched)
        BY DEF Carried, RequestIds
      <3>2. Carried' = IdsOf(toNative') \cup IdsOf(toWeb') \cup RequestIds(http')
                       \cup RequestIds(running') \cup RequestIds(fetched')
        BY DEF Carried, RequestIds
      <3>3. RequestIds(fetched) \subseteq RequestIds(fetched')
        BY <2>2 DEF RequestIds
      <3> QED BY <1>2, <2>1, <2>2, <3>1, <3>2, <3>3
    <2>5. NativeIds' \subseteq NativeIds
      BY <1>3, <1>6, <2>1, <2>2 DEF NativeIds
    <2> QED BY <1>0, <1>1, <1>4, <1>5, <2>3, <2>4, <2>5
            DEF IInv, HangsOnlyIfLost, NativeKnown
  <1> QED BY <1>8, <1>9

LEMMA IInvFinish ==
  ASSUME IInv, NEW m \in running, Finish(m)
  PROVE  IInv'
  <1>0. TypeOK /\ OneMessage /\ Core' /\ m \in Requests
    BY CoreFinish DEF IInv, Core, TypeOK
  <1>1. /\ running' = running \ {m} /\ Respond(m, Served(m))
        /\ UNCHANGED <<platform, injections, promise, pending, handler, toNative, http, outcome,
                       hung>>
    BY DEF Finish, FinishInvoke, transportVars
  <1>2. m.id \notin IdsOf(toNative) \cup IdsOf(toWeb) \cup RequestIds(fetched)
    <2>1. m.id \in RequestIds(http \cup running)
      BY DEF RequestIds
    <2> QED BY <1>0, <2>1, OneMessageSets DEF Apart
  <1>3. promise[m.id] \in {None, m.call} /\ (m.web => m.id \in NativeIds)
    BY DEF IInv, AnswerIsOwn, NativeIds
  <1>4. /\ IdsOf(toWeb) \subseteq IdsOf(toWeb') /\ fetched \subseteq fetched'
        /\ IdsOf(toWeb') \subseteq IdsOf(toWeb) \cup {m.id}
        /\ promise[m.id] # None => m.id \in IdsOf(toWeb') \cup RequestIds(fetched')
        /\ ~m.web => toWeb' = toWeb
        /\ \A k \in DOMAIN toWeb' :
             (\E l \in DOMAIN toWeb : toWeb'[k] = toWeb[l])
             \/ (toWeb'[k].id = m.id /\ toWeb'[k].data = m.call)
        /\ \A a \in fetched' :
             a \in fetched \/ (a.id = m.id /\ a.data = m.call /\ promise[m.id] # None)
    BY <1>0, <1>1, <1>2, RespondFacts
  <1>5. AnswerIsOwn'
    <2>1. \A a \in fetched' : promise'[a.id] = a.data
      BY <1>1, <1>3, <1>4 DEF IInv, AnswerIsOwn
    <2>2. \A k \in DOMAIN toWeb' : promise'[toWeb'[k].id] \in {None, toWeb'[k].data}
      BY <1>1, <1>3, <1>4 DEF IInv, AnswerIsOwn
    <2> QED BY <1>1, <2>1, <2>2 DEF IInv, AnswerIsOwn
  <1>6. \A j \in Carried : j \in Carried' \/ promise[j] = None
    <2>1. Carried = IdsOf(toNative) \cup IdsOf(toWeb) \cup RequestIds(http)
                    \cup RequestIds(running) \cup RequestIds(fetched)
      BY DEF Carried, RequestIds
    <2>2. Carried' = IdsOf(toNative') \cup IdsOf(toWeb') \cup RequestIds(http')
                     \cup RequestIds(running') \cup RequestIds(fetched')
      BY DEF Carried, RequestIds
    <2>3. /\ RequestIds(fetched) \subseteq RequestIds(fetched')
          /\ RequestIds(running) \subseteq RequestIds(running') \cup {m.id}
      BY <1>1, <1>4 DEF RequestIds
    <2> QED BY <1>1, <1>4, <2>1, <2>2, <2>3
  <1>7. NativeIds' \subseteq NativeIds
    BY <1>1, <1>3, <1>4 DEF NativeIds
  <1>8. PendingAwaited'
    BY <1>1 DEF IInv, PendingAwaited
  <1> QED BY <1>0, <1>1, <1>5, <1>6, <1>7, <1>8 DEF IInv, HangsOnlyIfLost, NativeKnown

LEMMA IInvLoseAnswer ==
  ASSUME IInv, NEW m \in Requests, LoseAnswer(m)
  PROVE  IInv'
  <1>0. TypeOK /\ OneMessage /\ Core'
    BY CoreLoseAnswer DEF IInv, Core
  <1>1. UNCHANGED <<platform, injections, promise, pending, handler, fetched, toWeb, outcome>>
        /\ hung' = IF promise[m.id] = None THEN hung ELSE hung \cup {m.id}
    BY DEF LoseAnswer, transportVars, answerVars
  <1>2. /\ \A k \in DOMAIN toNative' : \E l \in DOMAIN toNative : toNative'[k] = toNative[l]
        /\ http' \subseteq http /\ running' \subseteq running
        /\ IdsOf(toNative) \cup RequestIds(http) \cup RequestIds(running)
             \subseteq {m.id} \cup IdsOf(toNative') \cup RequestIds(http') \cup RequestIds(running')
    <2>1. CASE Received(m) /\ running' = running
      <3>1. /\ \A k \in DOMAIN toNative' : \E l \in DOMAIN toNative : toNative'[k] = toNative[l]
            /\ http' \subseteq http
            /\ IdsOf(toNative) \cup RequestIds(http)
                 = {m.id} \cup IdsOf(toNative') \cup RequestIds(http')
        BY <1>0, <2>1, ReceivedFacts
      <3> QED BY <2>1, <3>1
    <2>2. CASE m \in running /\ running' = running \ {m} /\ toNative' = toNative /\ http' = http
      BY <2>2 DEF RequestIds
    <2> QED BY <2>1, <2>2 DEF LoseAnswer
  <1>3. AnswerIsOwn'
    BY <1>1, <1>2 DEF IInv, AnswerIsOwn
  <1>4. PendingAwaited'
    BY <1>1 DEF IInv, PendingAwaited
  <1>5. Carried \subseteq Carried' \cup {m.id}
    <2>1. Carried = IdsOf(toNative) \cup IdsOf(toWeb) \cup RequestIds(http)
                    \cup RequestIds(running) \cup RequestIds(fetched)
      BY DEF Carried, RequestIds
    <2>2. Carried' = IdsOf(toNative') \cup IdsOf(toWeb') \cup RequestIds(http')
                     \cup RequestIds(running') \cup RequestIds(fetched')
      BY DEF Carried, RequestIds
    <2> QED BY <1>1, <1>2, <2>1, <2>2
  <1>6. HangsOnlyIfLost'
    BY <1>1, <1>5 DEF IInv, HangsOnlyIfLost
  <1>7. NativeIds' \subseteq NativeIds
    <2>1. IdsOf(toNative') \subseteq IdsOf(toNative)
      BY <1>2 DEF IdsOf
    <2> QED BY <1>1, <1>2, <2>1 DEF NativeIds
  <1>8. NativeKnown'
    BY <1>1, <1>2, <1>7 DEF IInv, NativeKnown
  <1> QED BY <1>0, <1>3, <1>4, <1>6, <1>8 DEF IInv

LEMMA IInvSettle ==
  ASSUME IInv, NEW m \in Answers, Settle(m)
  PROVE  IInv'
  <1>0. TypeOK /\ OneMessage /\ Core' /\ m.id \in Ids
    BY CoreSettle DEF IInv, Core, Answers
  <1>1. /\ Arrives(m) /\ promise' = [j \in Ids |-> IF j = m.id THEN None ELSE promise[j]]
        /\ pending' = pending \ {m.id}
        /\ UNCHANGED <<platform, injections, toNative, http, running, handler, hung>>
    BY <1>0, SettleFacts
  <1>2. /\ toWeb' \in Seq(Answers) /\ fetched' \subseteq fetched
        /\ \A k \in DOMAIN toWeb' : \E l \in DOMAIN toWeb : toWeb'[k] = toWeb[l]
        /\ IdsOf(toWeb') \subseteq IdsOf(toWeb)
        /\ IdsOf(toWeb) \cup RequestIds(fetched)
             = {m.id} \cup IdsOf(toWeb') \cup RequestIds(fetched')
        /\ m.id \notin IdsOf(toWeb') \cup RequestIds(fetched')
    BY <1>0, <1>1, ArrivesFacts
  <1>3. /\ toNative \in Seq(Requests) /\ http \cup running \subseteq Requests
        /\ fetched \subseteq Answers /\ promise \in [Ids -> Calls \cup {None}]
    BY <1>0 DEF TypeOK
  <1>4. AnswerIsOwn'
    <2>1. \A k \in DOMAIN toNative' : promise'[toNative'[k].id] \in {None, toNative'[k].call}
      <3>1. \A k \in DOMAIN toNative : toNative[k] \in Requests
        BY <1>3
      <3> QED BY <1>1, <3>1 DEF IInv, AnswerIsOwn, Requests
    <2>2. \A n \in http' \cup running' : promise'[n.id] \in {None, n.call}
      BY <1>1, <1>3 DEF IInv, AnswerIsOwn, Requests
    <2>3. \A a \in fetched' : promise'[a.id] = a.data
      BY <1>1, <1>2, <1>3 DEF IInv, AnswerIsOwn, Answers, RequestIds
    <2>4. \A k \in DOMAIN toWeb' : promise'[toWeb'[k].id] \in {None, toWeb'[k].data}
      <3>1. \A k \in DOMAIN toWeb' : toWeb'[k] \in Answers
        BY <1>2
      <3> QED BY <1>1, <1>2, <3>1 DEF IInv, AnswerIsOwn, Answers
    <2> QED BY <2>1, <2>2, <2>3, <2>4 DEF AnswerIsOwn
  <1>5. PendingAwaited'
    BY <1>0, <1>1, <1>3 DEF IInv, PendingAwaited, TypeOK
  <1>6. Carried \subseteq Carried' \cup {m.id}
    <2>1. Carried = IdsOf(toNative) \cup IdsOf(toWeb) \cup RequestIds(http)
                    \cup RequestIds(running) \cup RequestIds(fetched)
      BY DEF Carried, RequestIds
    <2>2. Carried' = IdsOf(toNative') \cup IdsOf(toWeb') \cup RequestIds(http')
                     \cup RequestIds(running') \cup RequestIds(fetched')
      BY DEF Carried, RequestIds
    <2> QED BY <1>1, <1>2, <2>1, <2>2
  <1>7. HangsOnlyIfLost'
    BY <1>1, <1>6 DEF IInv, HangsOnlyIfLost
  <1>8. NativeIds' \subseteq NativeIds /\ NativeIds' \subseteq Ids
    <2>1. NativeIds' \subseteq NativeIds
      BY <1>1, <1>2 DEF NativeIds
    <2>2. IdsOf(toNative) \subseteq Ids /\ IdsOf(toWeb') \subseteq Ids
      BY <1>2, <1>3, IdsTyped
    <2> QED BY <1>1, <1>3, <2>1, <2>2 DEF NativeIds, Requests
  <1>9. NativeKnown'
    BY <1>1, <1>8 DEF IInv, NativeKnown
  <1> QED BY <1>0, <1>4, <1>5, <1>7, <1>9 DEF IInv

(* A script that is ignored is not waited for: its promise hangs, or is none. *)
LEMMA IInvIgnore ==
  ASSUME IInv, Ignore
  PROVE  IInv'
  <1>0. TypeOK /\ OneMessage /\ Core'
    BY CoreIgnore DEF IInv, Core
  <1>1. /\ toWeb # <<>> /\ toWeb' = Tail(toWeb)
        /\ platform = "webview" => Head(toWeb).id \notin pending
        /\ UNCHANGED <<platform, injections, promise, pending, handler, toNative, http, running,
                       fetched, outcome, hung>>
    BY DEF Ignore, OnUnknownMessage, transportVars, nativeVars
  <1>2. /\ \A k \in DOMAIN toWeb' : \E l \in DOMAIN toWeb : toWeb'[k] = toWeb[l]
        /\ IdsOf(toWeb) = {Head(toWeb).id} \cup IdsOf(toWeb')
    BY <1>0, <1>1, TailFacts, IdsOfTail DEF TypeOK
  <1>3. AnswerIsOwn'
    BY <1>1, <1>2 DEF IInv, AnswerIsOwn
  <1>4. PendingAwaited'
    BY <1>1 DEF IInv, PendingAwaited
  <1>5. promise[Head(toWeb).id] # None => Head(toWeb).id \in hung
    <2>1. Head(toWeb).id \in NativeIds
      BY <1>2 DEF NativeIds
    <2>2. Head(toWeb).id \notin pending
      BY <1>0, <1>1 DEF IInv, PendingAwaited, TypeOK
    <2> QED BY <2>1, <2>2 DEF IInv, NativeKnown
  <1>6. Carried \subseteq Carried' \cup {Head(toWeb).id}
    BY <1>1, <1>2 DEF Carried
  <1>7. HangsOnlyIfLost'
    BY <1>1, <1>5, <1>6 DEF IInv, HangsOnlyIfLost
  <1>8. NativeIds' \subseteq NativeIds
    BY <1>1, <1>2 DEF NativeIds
  <1>9. NativeKnown'
    BY <1>1, <1>8 DEF IInv, NativeKnown
  <1> QED BY <1>0, <1>3, <1>4, <1>7, <1>9 DEF IInv

LEMMA IInvPage ==
  ASSUME IInv, Inject \/ Reload
  PROVE  IInv'
  <1>0. TypeOK /\ OneMessage /\ Core'
    BY CorePage DEF IInv, Core
  <1>1. CASE Inject
    <2>1. /\ pending' = {} /\ platform' = "webview" /\ hung' = hung \cup pending
          /\ UNCHANGED <<promise, toNative, http, running, fetched, toWeb>>
      BY <1>1 DEF Inject, InjectBridge, nativeVars, answerVars
    <2>2. AnswerIsOwn' /\ PendingAwaited'
      BY <2>1 DEF IInv, AnswerIsOwn, PendingAwaited
    <2>3. HangsOnlyIfLost'
      BY <2>1 DEF IInv, HangsOnlyIfLost, Carried
    <2>4. NativeKnown'
      BY <2>1 DEF IInv, NativeKnown, NativeIds
    <2> QED BY <1>0, <2>2, <2>3, <2>4 DEF IInv
  <1>2. CASE Reload
    <2>1. /\ pending' = {} /\ platform' = "browser" /\ hung' = {} /\ fetched' = {}
          /\ promise' = [i \in Ids |-> None]
          /\ UNCHANGED <<toNative, http, running, toWeb>>
      BY <1>2 DEF Reload, nativeVars
    <2>2. /\ toNative \in Seq(Requests) /\ http \cup running \subseteq Requests
          /\ toWeb \in Seq(Answers)
          /\ IdsOf(toNative) \subseteq Ids /\ IdsOf(toWeb) \subseteq Ids
      BY <1>0, IdsTyped DEF TypeOK
    <2>3. AnswerIsOwn'
      <3>1. \A k \in DOMAIN toNative : promise'[toNative[k].id] = None
        BY <2>1, <2>2 DEF IdsOf
      <3>2. \A k \in DOMAIN toWeb : promise'[toWeb[k].id] = None
        BY <2>1, <2>2 DEF IdsOf
      <3> QED BY <2>1, <2>2, <3>1, <3>2 DEF AnswerIsOwn, Requests
    <2>4. PendingAwaited' /\ HangsOnlyIfLost'
      BY <2>1 DEF PendingAwaited, HangsOnlyIfLost
    <2>5. NativeKnown'
      <3>1. NativeIds' \subseteq Ids
        BY <2>1, <2>2 DEF NativeIds, Requests
      <3> QED BY <2>1, <3>1 DEF IInv, NativeKnown
    <2> QED BY <1>0, <2>3, <2>4, <2>5 DEF IInv
  <1> QED BY <1>1, <1>2

LEMMA IInvStep ==
  ASSUME IInv, [Next]_vars
  PROVE  IInv'
  <1>1. CASE \E i \in Ids, call \in Calls : Invoke(i, call)
    BY <1>1, IInvInvoke
  <1>2. CASE Handling
    BY <1>2, IInvHandle DEF Handling
  <1>3. CASE Finishing
    BY <1>3, IInvFinish DEF Finishing
  <1>4. CASE Settling
    BY <1>4, IInvSettle DEF Settling
  <1>5. CASE Ignore
    BY <1>5, IInvIgnore
  <1>6. CASE \E m \in Requests : LoseAnswer(m)
    BY <1>6, IInvLoseAnswer
  <1>7. CASE Inject \/ Reload
    BY <1>7, IInvPage
  <1>8. CASE UNCHANGED vars
    <2> USE <1>8 DEF vars, bridgeVars, transportVars, nativeVars, answerVars
    <2>1. Core'
      BY DEF IInv, Core, TypeOK, OneMessage
    <2>2. AnswerIsOwn' /\ PendingAwaited' /\ HangsOnlyIfLost'
      BY DEF IInv, AnswerIsOwn, PendingAwaited, HangsOnlyIfLost, Carried
    <2>3. NativeKnown'
      BY DEF IInv, NativeKnown, NativeIds
    <2> QED BY <2>1, <2>2, <2>3 DEF IInv
  <1> QED BY <1>1, <1>2, <1>3, <1>4, <1>5, <1>6, <1>7, <1>8 DEF Next

LEMMA Invariance == Spec => []IInv
  <1>1. Init => IInv
    BY IInvInit
  <1>2. IInv /\ [Next]_vars => IInv'
    BY IInvStep
  <1> QED BY <1>1, <1>2, PTL DEF Spec

-----------------------------------------------------------------------------
(* Requests, answers and what the page keeps of its calls have their types. *)
THEOREM TypeCorrect == Spec => []TypeOK
  <1>1. IInv => TypeOK
    BY DEF IInv, Core
  <1> QED BY <1>1, Invariance, PTL

(* No two messages carry one id: a call is neither served nor answered twice. *)
THEOREM ServedOnce == Spec => []OneMessage
  <1>1. IInv => OneMessage
    BY DEF IInv, Core
  <1> QED BY <1>1, Invariance, PTL

(* No promise gets the answer to another call, whatever transport it was made on. *)
THEOREM AnswersOwn == Spec => []AnswerIsOwn
  <1>1. IInv => AnswerIsOwn
    BY DEF IInv
  <1> QED BY <1>1, Invariance, PTL

(* `pending` of the WebViewTransport has no entry that nobody waits for. *)
THEOREM PendingHasNoLeak == Spec => []PendingAwaited
  <1>1. IInv => PendingAwaited
    BY DEF IInv
  <1> QED BY <1>1, Invariance, PTL

(* A promise hangs for one of two reasons: a lost answer, or a second injection. *)
THEOREM TwoWaysToHang == Spec => []HangsOnlyIfLost
  <1>1. IInv => HangsOnlyIfLost
    BY DEF IInv
  <1> QED BY <1>1, Invariance, PTL


-----------------------------------------------------------------------------
(***************************************************************************)
(* The bridge implements RemoteCalls. A step of it changes where one id    *)
(* is, and by the invariant above each id is in one place; what the step   *)
(* does to the sets AskedIds and ServedIds, and to what is said under each *)
(* id, decides which step of RemoteCalls it is.                            *)
(***************************************************************************)
(* Each id that is carried is about one call. *)
CallsKnown ==
  /\ AskedIds \cup ServedIds \subseteq Ids /\ AskedIds \cap ServedIds = {}
  /\ \A i \in AskedIds \cup ServedIds :
       CallOf(i) \in Calls /\ \A c \in Calls : Says(i, c) <=> CallOf(i) = c

LEMMA Known == IInv => CallsKnown
  <1> SUFFICES ASSUME IInv PROVE CallsKnown
    OBVIOUS
  <1>0. TypeOK /\ OneMessage
    BY DEF IInv, Core
  <1>1. /\ toNative \in Seq(Requests) /\ toWeb \in Seq(Answers)
        /\ http \cup running \subseteq Requests /\ fetched \subseteq Answers
    BY <1>0 DEF TypeOK
  <1>2. /\ \A k \in DOMAIN toNative : toNative[k].id \in Ids /\ toNative[k].call \in Calls
        /\ \A k \in DOMAIN toWeb : toWeb[k].id \in Ids /\ toWeb[k].data \in Calls
        /\ \A m \in http \cup running : m.id \in Ids /\ m.call \in Calls
        /\ \A m \in fetched : m.id \in Ids /\ m.data \in Calls
    <2>1. (\A k \in DOMAIN toNative : toNative[k] \in Requests)
          /\ (\A k \in DOMAIN toWeb : toWeb[k] \in Answers)
      BY <1>1
    <2> QED BY <1>1, <2>1 DEF Requests, Answers
  <1>3. AskedIds \cup ServedIds \subseteq Ids
    BY <1>2 DEF AskedIds, ServedIds, IdsOf
  <1>4. AskedIds \cap ServedIds = {}
    <2>1. AskedIds = IdsOf(toNative) \cup RequestIds(http \cup running)
          /\ ServedIds = IdsOf(toWeb) \cup RequestIds(fetched)
      BY DEF AskedIds, ServedIds, RequestIds
    <2> QED BY <1>0, <2>1, OneMessageSets DEF Apart
  <1>5. ASSUME NEW i \in AskedIds \cup ServedIds
        PROVE  /\ \E c \in Calls : Says(i, c)
               /\ \A c, d \in Calls : Says(i, c) /\ Says(i, d) => c = d
    <2>1. \E c \in Calls : Says(i, c)
      <3>1. CASE i \in IdsOf(toNative)
        BY <1>2, <3>1 DEF IdsOf, Says
      <3>2. CASE i \in {m.id : m \in http \cup running}
        BY <1>2, <3>2 DEF Says
      <3>3. CASE i \in IdsOf(toWeb)
        BY <1>2, <3>3 DEF IdsOf, Says
      <3>4. CASE i \in {m.id : m \in fetched}
        BY <1>2, <3>4 DEF Says
      <3> QED BY <3>1, <3>2, <3>3, <3>4 DEF AskedIds, ServedIds
    <2>2. ASSUME NEW c \in Calls, NEW d \in Calls, Says(i, c), Says(i, d)
          PROVE  c = d
      <3>1. CASE i \in IdsOf(toNative)
        <4>1. i \notin IdsOf(toWeb) /\ (\A m \in http \cup running : m.id # i)
              /\ \A m \in fetched : m.id # i
          BY <1>0, <3>1 DEF OneMessage
        <4>2. \A k \in DOMAIN toWeb : toWeb[k].id # i
          BY <4>1 DEF IdsOf
        <4> QED BY <1>0, <2>2, <4>1, <4>2 DEF Says, OneMessage
      <3>2. CASE i \in IdsOf(toWeb)
        <4>1. i \notin IdsOf(toNative) /\ (\A m \in http \cup running : m.id # i)
              /\ \A m \in fetched : m.id # i
          BY <1>0, <3>2 DEF OneMessage
        <4>2. \A k \in DOMAIN toNative : toNative[k].id # i
          BY <4>1 DEF IdsOf
        <4> QED BY <1>0, <2>2, <4>1, <4>2 DEF Says, OneMessage
      <3>3. CASE i \notin IdsOf(toNative) /\ i \notin IdsOf(toWeb)
        <4>1. (\A k \in DOMAIN toWeb : toWeb[k].id # i) /\ \A k \in DOMAIN toNative : toNative[k].id # i
          BY <3>3 DEF IdsOf
        <4>2. (\A m \in http \cup running : m.id # i) \/ \A m \in fetched : m.id # i
          BY <1>0 DEF OneMessage
        <4> QED BY <1>0, <2>2, <4>1, <4>2 DEF Says, OneMessage
      <3> QED BY <3>1, <3>2, <3>3
    <2> QED BY <2>1, <2>2
  <1>6. ASSUME NEW i \in AskedIds \cup ServedIds
        PROVE  CallOf(i) \in Calls /\ \A c \in Calls : Says(i, c) <=> CallOf(i) = c
    <2>1. CallOf(i) \in Calls /\ Says(i, CallOf(i))
      BY <1>5 DEF CallOf
    <2> QED BY <1>5, <2>1
  <1> QED BY <1>3, <1>4, <1>6 DEF CallsKnown

LEMMA KnownNext == IInv' => CallsKnown'
  BY Known, PTL

(* What is still said under an id is still its call. *)
LEMMA SameCall ==
  ASSUME IInv, IInv', NEW i \in Ids,
         i \in AskedIds \cup ServedIds, i \in AskedIds' \cup ServedIds',
         \A c \in Calls : Says(i, c) => Says(i, c)'
  PROVE  CallOf(i)' = CallOf(i)
  <1>1. PICK c \in Calls : CallOf(i) = c /\ Says(i, c)
    BY Known DEF CallsKnown
  <1>2. Says(i, c)'
    BY <1>1
  <1>3. \A d \in Calls : Says(i, d)' <=> CallOf(i)' = d
    BY KnownNext DEF CallsKnown
  <1> QED BY <1>1, <1>2, <1>3

LEMMA RefinesInit == Init => Remote!Init
  <1> SUFFICES ASSUME Init PROVE Remote!Init
    OBVIOUS
  <1>1. AskedIds = {} /\ ServedIds = {} /\ promise = [i \in Ids |-> None] /\ outcome = None
    BY DEF Init, BridgeInit, AskedIds, ServedIds, IdsOf
  <1> QED BY <1>1 DEF Remote!Init, stage, asked

-----------------------------------------------------------------------------
(* Which step of RemoteCalls it is, by what the step does to the ids. *)
Kept(j) == \A c \in Calls : Says(j, c) => Says(j, c)'

LEMMA IsStutter ==
  ASSUME IInv, IInv', AskedIds' = AskedIds, ServedIds' = ServedIds, \A j \in Ids : Kept(j),
         UNCHANGED <<promise, outcome>>
  PROVE  UNCHANGED Remote!vars
  <1>1. stage' = stage
    BY DEF stage
  <1>2. \A j \in AskedIds \cup ServedIds : j \in Ids /\ CallOf(j)' = CallOf(j)
    BY SameCall, Known DEF Kept, CallsKnown
  <1>3. asked' = asked
    BY <1>2 DEF asked
  <1> QED BY <1>1, <1>3 DEF Remote!vars

LEMMA IsAsk ==
  ASSUME IInv, IInv', NEW i \in Ids, NEW c \in Calls,
         i \notin AskedIds \cup ServedIds, promise[i] = None,
         AskedIds' = AskedIds \cup {i}, ServedIds' = ServedIds,
         \A j \in Ids : Kept(j), Says(i, c)',
         promise' = [j \in Ids |-> IF j = i THEN c ELSE promise[j]], outcome' = outcome
  PROVE  Remote!Ask(i, c)
  <1>0. promise \in [Ids -> Calls \cup {None}] /\ c # None
    BY CallsAssumption DEF IInv, Core, TypeOK
  <1>1. \A j \in AskedIds \cup ServedIds : j \in Ids /\ CallOf(j)' = CallOf(j)
    BY SameCall, Known DEF Kept, CallsKnown
  <1>2. CallOf(i)' = c
    BY KnownNext DEF CallsKnown
  <1>3. stage[i] = "idle"
    BY DEF stage
  <1>4. stage' = [stage EXCEPT ![i] = "asked"]
    <2>1. \A j \in Ids : j # i => promise'[j] = promise[j]
      BY <1>0
    <2> QED BY <2>1 DEF stage
  <1>5. asked' = [asked EXCEPT ![i] = c]
    BY <1>1, <1>2 DEF asked
  <1>6. promise' = [promise EXCEPT ![i] = c]
    BY <1>0
  <1> QED BY <1>3, <1>4, <1>5, <1>6 DEF Remote!Ask

LEMMA IsServe ==
  ASSUME IInv, IInv', NEW i \in Ids, i \in AskedIds,
         AskedIds' = AskedIds \ {i}, ServedIds' = ServedIds \cup {i},
         \A j \in Ids : Kept(j), UNCHANGED <<promise, outcome>>
  PROVE  Remote!Serve(i)
  <1>1. \A j \in AskedIds \cup ServedIds : j \in Ids /\ CallOf(j)' = CallOf(j)
    BY SameCall, Known DEF Kept, CallsKnown
  <1>2. stage[i] = "asked"
    BY DEF stage
  <1>3. stage' = [stage EXCEPT ![i] = "served"]
    BY DEF stage
  <1>4. asked' = asked
    BY <1>1 DEF asked
  <1> QED BY <1>2, <1>3, <1>4 DEF Remote!Serve

LEMMA IsLose ==
  ASSUME IInv, IInv', NEW i \in Ids, i \in AskedIds \cup ServedIds,
         AskedIds' = AskedIds \ {i}, ServedIds' = ServedIds \ {i},
         \A j \in Ids \ {i} : Kept(j), UNCHANGED <<promise, outcome>>
  PROVE  Remote!Lose(i)
  <1>1. \A j \in (AskedIds \cup ServedIds) \ {i} : j \in Ids /\ CallOf(j)' = CallOf(j)
    BY SameCall, Known DEF Kept, CallsKnown
  <1>2. stage[i] \in {"asked", "served"}
    BY DEF stage
  <1>3. stage' = [stage EXCEPT ![i] = IF promise[i] = None THEN "idle" ELSE "lost"]
    BY DEF stage
  <1>4. asked' = [asked EXCEPT ![i] = None]
    BY <1>1 DEF asked
  <1> QED BY <1>2, <1>3, <1>4 DEF Remote!Lose

LEMMA IsSettle ==
  ASSUME IInv, IInv', NEW i \in Ids, i \in ServedIds, i \notin AskedIds, promise[i] # None,
         AskedIds' = AskedIds, ServedIds' = ServedIds \ {i},
         \A j \in Ids \ {i} : Kept(j),
         promise' = [j \in Ids |-> IF j = i THEN None ELSE promise[j]],
         outcome' = [call |-> promise[i], answered |-> CallOf(i)]
  PROVE  Remote!Settle(i)
  <1>0. promise \in [Ids -> Calls \cup {None}]
    BY DEF IInv, Core, TypeOK
  <1>1. \A j \in (AskedIds \cup ServedIds) \ {i} : j \in Ids /\ CallOf(j)' = CallOf(j)
    BY SameCall, Known DEF Kept, CallsKnown
  <1>2. stage[i] = "served" /\ asked[i] = CallOf(i)
    BY DEF stage, asked
  <1>3. stage' = [stage EXCEPT ![i] = "idle"]
    <2>1. \A j \in Ids : j # i => promise'[j] = promise[j]
      BY <1>0
    <2> QED BY <2>1 DEF stage
  <1>4. asked' = [asked EXCEPT ![i] = None]
    BY <1>1 DEF asked
  <1>5. promise' = [promise EXCEPT ![i] = None]
    BY <1>0
  <1> QED BY <1>2, <1>3, <1>4, <1>5 DEF Remote!Settle

LEMMA IsLeave ==
  ASSUME IInv, IInv', NEW dropped \in SUBSET Ids, dropped \subseteq ServedIds,
         AskedIds' = AskedIds, ServedIds' = ServedIds \ dropped,
         \A j \in Ids \ dropped : Kept(j),
         promise' = [j \in Ids |-> None], outcome' = outcome
  PROVE  Remote!Leave(dropped)
  <1>0. AskedIds \cap ServedIds = {}
    BY Known DEF CallsKnown
  <1>1. \A j \in (AskedIds \cup ServedIds) \ dropped : j \in Ids /\ CallOf(j)' = CallOf(j)
    BY <1>0, SameCall, Known DEF Kept, CallsKnown
  <1>2. dropped \subseteq {i \in Ids : stage[i] = "served"}
    BY <1>0 DEF stage
  <1>3. stage' = [i \in Ids |-> IF i \in dropped \/ stage[i] = "lost" THEN "idle" ELSE stage[i]]
    BY <1>0 DEF stage
  <1>4. asked' = [i \in Ids |-> IF i \in dropped THEN None ELSE asked[i]]
    BY <1>0, <1>1 DEF asked
  <1> QED BY <1>2, <1>3, <1>4 DEF Remote!Leave

-----------------------------------------------------------------------------
(* A sequence without its head keeps every other element. *)
LEMMA TailKeeps ==
  ASSUME NEW S, NEW s \in Seq(S), s # <<>>, NEW k \in DOMAIN s
  PROVE  s[k] = Head(s) \/ \E l \in DOMAIN Tail(s) : Tail(s)[l] = s[k]
  <1>1. CASE k = 1
    BY <1>1
  <1>2. CASE k # 1
    <2>1. k - 1 \in DOMAIN Tail(s) /\ k - 1 + 1 = k /\ Tail(s)[k - 1] = s[k - 1 + 1]
      BY <1>2
    <2> QED BY <2>1
  <1> QED BY <1>1, <1>2

LEMMA ReceivedKeeps ==
  ASSUME TypeOK, NEW m \in Requests, Received(m)
  PROVE  /\ \A k \in DOMAIN toNative :
              toNative[k] = m \/ \E l \in DOMAIN toNative' : toNative'[l] = toNative[k]
         /\ \A n \in http : n = m \/ n \in http'
  <1>1. toNative \in Seq(Requests)
    BY DEF TypeOK
  <1>2. CASE toNative # <<>> /\ m = Head(toNative) /\ toNative' = Tail(toNative) /\ http' = http
    BY <1>1, <1>2, TailKeeps
  <1>3. CASE m \in http /\ http' = http \ {m} /\ toNative' = toNative
    BY <1>3
  <1> QED BY <1>2, <1>3 DEF Received

LEMMA RespondKeeps ==
  ASSUME TypeOK, NEW m \in Requests, Respond(m, Served(m))
  PROVE  /\ \A k \in DOMAIN toWeb : \E l \in DOMAIN toWeb' : toWeb'[l] = toWeb[k]
         /\ fetched \subseteq fetched'
         /\ \/ toWeb' = toWeb /\ fetched' = fetched /\ promise[m.id] = None
            \/ /\ ServedIds' = ServedIds \cup {m.id}
               /\ \/ \E k \in DOMAIN toWeb' : toWeb'[k].id = m.id /\ toWeb'[k].data = m.call
                  \/ \E a \in fetched' : a.id = m.id /\ a.data = m.call
  <1> DEFINE answer == [id |-> m.id, ok |-> TRUE, data |-> m.call]
  <1>1. /\ toWeb \in Seq(Answers) /\ answer \in Answers /\ m.web \in BOOLEAN
        /\ answer.id = m.id /\ answer.data = m.call
    BY DEF TypeOK, Requests, Answers
  <1>2. CASE m.web
    <2>1. toWeb' = Append(toWeb, answer) /\ fetched' = fetched
      BY <1>2 DEF Respond, Served
    <2> HIDE DEF answer
    <2>2. IdsOf(toWeb') = IdsOf(toWeb) \cup {m.id}
      BY <1>1, <2>1, IdsOfAppend
    <2>3. \E k \in DOMAIN toWeb' : toWeb'[k] = answer
      BY <1>1, <2>1, AppendFacts
    <2>4. \A k \in DOMAIN toWeb : \E l \in DOMAIN toWeb' : toWeb'[l] = toWeb[k]
      BY <1>1, <2>1, AppendFacts
    <2>5. ServedIds' = ServedIds \cup {m.id}
      BY <2>1, <2>2 DEF ServedIds
    <2> QED BY <1>1, <2>1, <2>3, <2>4, <2>5
  <1>3. CASE ~m.web
    <2>1. toWeb' = toWeb
          /\ fetched' = IF promise[m.id] = None THEN fetched ELSE fetched \cup {answer}
      BY <1>3 DEF Respond, Served
    <2> HIDE DEF answer
    <2>2. CASE promise[m.id] = None
      BY <2>1, <2>2
    <2>3. CASE promise[m.id] # None
      <3>1. ServedIds' = ServedIds \cup {m.id}
        BY <1>1, <2>1, <2>3 DEF ServedIds
      <3> QED BY <1>1, <2>1, <2>3, <3>1
    <2> QED BY <2>2, <2>3
  <1> QED BY <1>1, <1>2, <1>3

LEMMA ArrivesKeeps ==
  ASSUME TypeOK, NEW m \in Answers, Arrives(m)
  PROVE  /\ \A k \in DOMAIN toWeb :
              toWeb[k] = m \/ \E l \in DOMAIN toWeb' : toWeb'[l] = toWeb[k]
         /\ \A n \in fetched : n = m \/ n \in fetched'
  <1>1. toWeb \in Seq(Answers)
    BY DEF TypeOK
  <1>2. CASE toWeb # <<>> /\ m = Head(toWeb) /\ toWeb' = Tail(toWeb) /\ fetched' = fetched
    BY <1>1, <1>2, TailKeeps
  <1>3. CASE m \in fetched /\ fetched' = fetched \ {m} /\ toWeb' = toWeb
    BY <1>3
  <1> QED BY <1>2, <1>3 DEF Arrives

(* The ids as the sets of UiBridge_proofs. *)
LEMMA IdSets ==
  /\ AskedIds = IdsOf(toNative) \cup RequestIds(http \cup running)
  /\ ServedIds = IdsOf(toWeb) \cup RequestIds(fetched)
  /\ RequestIds(http \cup running) = RequestIds(http) \cup RequestIds(running)
  /\ RequestIds(http' \cup running') = RequestIds(http') \cup RequestIds(running')
  /\ AskedIds' = IdsOf(toNative') \cup RequestIds(http' \cup running')
  /\ ServedIds' = IdsOf(toWeb') \cup RequestIds(fetched')
  BY DEF AskedIds, ServedIds, RequestIds

LEMMA RefinesInvoke ==
  ASSUME IInv, IInv', NEW i \in Ids, NEW call \in Calls, Invoke(i, call)
  PROVE  Remote!Ask(i, call)
  <1> DEFINE r == Request(i, call)
  <1>0. TypeOK
    BY DEF IInv, Core
  <1>1. /\ r \in Requests /\ r.id = i /\ r.call = call
        /\ promise[i] = None /\ i \notin Carried
        /\ promise' = [j \in Ids |-> IF j = i THEN call ELSE promise[j]]
        /\ UNCHANGED <<running, fetched, toWeb, outcome>>
    BY <1>0, InvokeFacts
  <1>2. \/ toNative' = Append(toNative, r) /\ http' = http
        \/ toNative' = toNative /\ http' = http \cup {r}
    BY <1>0, InvokeFacts
  <1> HIDE DEF r
  <1>3. toNative \in Seq(Requests)
    BY <1>0 DEF TypeOK
  <1>4. i \notin AskedIds \cup ServedIds
    BY <1>1 DEF Carried, AskedIds, ServedIds
  <1>5. CASE toNative' = Append(toNative, r) /\ http' = http
    <2>1. IdsOf(toNative') = IdsOf(toNative) \cup {i}
      BY <1>1, <1>3, <1>5, IdsOfAppend
    <2>2. (\A k \in DOMAIN toNative : \E l \in DOMAIN toNative' : toNative'[l] = toNative[k])
          /\ \E l \in DOMAIN toNative' : toNative'[l] = r
      BY <1>1, <1>3, <1>5, AppendFacts
    <2>3. AskedIds' = AskedIds \cup {i} /\ ServedIds' = ServedIds
      BY <1>1, <1>5, <2>1 DEF AskedIds, ServedIds
    <2>4. (\A j \in Ids : Kept(j)) /\ Says(i, call)'
      BY <1>1, <1>5, <2>2 DEF Kept, Says
    <2> QED BY <1>1, <1>4, <2>3, <2>4, IsAsk
  <1>6. CASE toNative' = toNative /\ http' = http \cup {r}
    <2>1. AskedIds' = AskedIds \cup {i} /\ ServedIds' = ServedIds
      BY <1>1, <1>6 DEF AskedIds, ServedIds
    <2>2. (\A j \in Ids : Kept(j)) /\ Says(i, call)'
      BY <1>1, <1>6 DEF Kept, Says
    <2> QED BY <1>1, <1>4, <2>1, <2>2, IsAsk
  <1> QED BY <1>2, <1>5, <1>6

(* The request is answered, or its page is gone and the answer goes nowhere. *)
LEMMA RefinesAnswered ==
  ASSUME IInv, IInv', NEW m \in Requests, Respond(m, Served(m)),
         m.id \in AskedIds, AskedIds' = AskedIds \ {m.id},
         \A j \in Ids \ {m.id} : Kept(j), Says(m.id, m.call), UNCHANGED <<promise, outcome>>
  PROVE  Remote!Serve(m.id) \/ Remote!Lose(m.id)
  <1>0. TypeOK /\ m.id \in Ids /\ m.call \in Calls /\ m.id \notin ServedIds
    BY Known DEF IInv, Core, Requests, CallsKnown
  <1>1. CASE toWeb' = toWeb /\ fetched' = fetched
    <2>1. ServedIds' = ServedIds \ {m.id}
      BY <1>0, <1>1 DEF ServedIds
    <2> QED BY <1>0, <2>1, IsLose
  <1>2. CASE /\ ServedIds' = ServedIds \cup {m.id}
             /\ \/ \E k \in DOMAIN toWeb' : toWeb'[k].id = m.id /\ toWeb'[k].data = m.call
                \/ \E a \in fetched' : a.id = m.id /\ a.data = m.call
    <2>1. Says(m.id, m.call)'
      BY <1>2 DEF Says
    <2>2. Kept(m.id)
      BY <1>0, <2>1, Known DEF CallsKnown, Kept
    <2>3. \A j \in Ids : Kept(j)
      BY <2>2
    <2> QED BY <1>0, <1>2, <2>3, IsServe
  <1> QED BY <1>0, <1>1, <1>2, RespondKeeps

LEMMA RefinesHandle ==
  ASSUME IInv, IInv', NEW m \in Requests, Handle(m)
  PROVE  Remote!Serve(m.id) \/ Remote!Lose(m.id) \/ UNCHANGED Remote!vars
  <1>0. TypeOK /\ OneMessage /\ m.id \in Ids /\ m.call \in Calls
    BY DEF IInv, Core, Requests
  <1>1. Received(m) /\ UNCHANGED <<promise, outcome>>
    BY DEF Handle, BeginInvoke, HandleInvoke
  <1>2. /\ IdsOf(toNative) \cup RequestIds(http)
             = {m.id} \cup IdsOf(toNative') \cup RequestIds(http')
        /\ m.id \notin IdsOf(toNative') \cup RequestIds(http')
        /\ m.id \notin RequestIds(running) \cup IdsOf(toWeb) \cup RequestIds(fetched)
        /\ m \in http \/ \E k \in DOMAIN toNative : m = toNative[k]
    BY <1>0, <1>1, ReceivedFacts
  <1>3. /\ \A k \in DOMAIN toNative :
             toNative[k] = m \/ \E l \in DOMAIN toNative' : toNative'[l] = toNative[k]
        /\ \A n \in http : n = m \/ n \in http'
    BY <1>0, <1>1, ReceivedKeeps
  <1>4. CASE m.call \in Awaiting
    <2>1. running' = running \cup {m} /\ fetched' = fetched /\ toWeb' = toWeb
      BY <1>4 DEF Handle, BeginInvoke, answerVars
    <2>2. AskedIds' = AskedIds
      <3>1. RequestIds(running') = RequestIds(running) \cup {m.id}
        BY <2>1 DEF RequestIds
      <3> QED BY <1>2, <3>1, IdSets
    <2>3. ServedIds' = ServedIds
      BY <2>1 DEF ServedIds
    <2>4. \A j \in Ids : Kept(j)
      BY <1>3, <2>1 DEF Kept, Says
    <2> QED BY <1>1, <2>2, <2>3, <2>4, IsStutter
  <1>5. CASE m.call \notin Awaiting
    <2>1. running' = running /\ Respond(m, Served(m))
      BY <1>5 DEF Handle, HandleInvoke
    <2>2. AskedIds' = AskedIds \ {m.id} /\ m.id \in AskedIds
      BY <1>2, <2>1, IdSets
    <2>3. /\ \A k \in DOMAIN toWeb : \E l \in DOMAIN toWeb' : toWeb'[l] = toWeb[k]
          /\ fetched \subseteq fetched'
      BY <1>0, <2>1, RespondKeeps
    <2>4. \A j \in Ids \ {m.id} : Kept(j)
      BY <1>3, <2>1, <2>3 DEF Kept, Says
    <2>5. Says(m.id, m.call)
      BY <1>2 DEF Says
    <2> QED BY <1>1, <2>1, <2>2, <2>4, <2>5, RefinesAnswered
  <1> QED BY <1>4, <1>5

LEMMA RefinesFinish ==
  ASSUME IInv, IInv', NEW m \in running, Finish(m)
  PROVE  Remote!Serve(m.id) \/ Remote!Lose(m.id)
  <1>0. TypeOK /\ OneMessage /\ m \in Requests
    BY DEF IInv, Core, TypeOK
  <1>1. /\ running' = running \ {m} /\ Respond(m, Served(m))
        /\ UNCHANGED <<promise, toNative, http, outcome>>
    BY DEF Finish, FinishInvoke
  <1>2. m.id \in AskedIds /\ AskedIds' = AskedIds \ {m.id}
    <2>1. m.id \in RequestIds(http \cup running) /\ m.id \notin IdsOf(toNative)
      BY <1>0, OneMessageSets DEF RequestIds, Apart
    <2>2. RequestIds(http' \cup running') = RequestIds(http \cup running) \ {m.id}
      BY <1>0, <1>1 DEF RequestIds, OneMessage
    <2> QED BY <1>1, <2>1, <2>2, IdSets
  <1>3. /\ \A k \in DOMAIN toWeb : \E l \in DOMAIN toWeb' : toWeb'[l] = toWeb[k]
        /\ fetched \subseteq fetched'
    BY <1>0, <1>1, RespondKeeps
  <1>4. \A j \in Ids \ {m.id} : Kept(j)
    BY <1>1, <1>3 DEF Kept, Says
  <1>5. Says(m.id, m.call)
    BY DEF Says
  <1> QED BY <1>0, <1>1, <1>2, <1>4, <1>5, RefinesAnswered

LEMMA RefinesLoseAnswer ==
  ASSUME IInv, IInv', NEW m \in Requests, LoseAnswer(m)
  PROVE  Remote!Lose(m.id)
  <1>0. TypeOK /\ OneMessage /\ m.id \in Ids
    BY DEF IInv, Core, Requests
  <1>1. UNCHANGED <<promise, fetched, toWeb, outcome>>
    BY DEF LoseAnswer, answerVars
  <1>2. CASE Received(m) /\ running' = running
    <2>1. /\ IdsOf(toNative) \cup RequestIds(http)
               = {m.id} \cup IdsOf(toNative') \cup RequestIds(http')
          /\ m.id \notin IdsOf(toNative') \cup RequestIds(http')
          /\ m.id \notin RequestIds(running) \cup IdsOf(toWeb) \cup RequestIds(fetched)
      BY <1>0, <1>2, ReceivedFacts
    <2>2. m.id \in AskedIds /\ AskedIds' = AskedIds \ {m.id} /\ ServedIds' = ServedIds \ {m.id}
      BY <1>1, <1>2, <2>1, IdSets
    <2>3. \A j \in Ids \ {m.id} : Kept(j)
      BY <1>0, <1>1, <1>2, ReceivedKeeps DEF Kept, Says
    <2> QED BY <1>0, <1>1, <2>2, <2>3, IsLose
  <1>3. CASE m \in running /\ running' = running \ {m} /\ toNative' = toNative /\ http' = http
    <2>1. m.id \in RequestIds(http \cup running)
          /\ m.id \notin IdsOf(toNative) \cup IdsOf(toWeb) \cup RequestIds(fetched)
      BY <1>0, <1>3, OneMessageSets DEF RequestIds, Apart
    <2>2. RequestIds(http' \cup running') = RequestIds(http \cup running) \ {m.id}
      BY <1>0, <1>3 DEF RequestIds, OneMessage
    <2>3. m.id \in AskedIds /\ AskedIds' = AskedIds \ {m.id} /\ ServedIds' = ServedIds \ {m.id}
      BY <1>1, <1>3, <2>1, <2>2, IdSets
    <2>4. \A j \in Ids \ {m.id} : Kept(j)
      BY <1>1, <1>3 DEF Kept, Says
    <2> QED BY <1>0, <1>1, <2>3, <2>4, IsLose
  <1> QED BY <1>2, <1>3 DEF LoseAnswer

LEMMA RefinesSettle ==
  ASSUME IInv, IInv', NEW m \in Answers, Settle(m)
  PROVE  Remote!Settle(m.id)
  <1>0. TypeOK /\ OneMessage /\ m.id \in Ids /\ m.data \in Calls
    BY DEF IInv, Core, Answers
  <1>1. /\ Arrives(m)
        /\ promise' = [j \in Ids |-> IF j = m.id THEN None ELSE promise[j]]
        /\ outcome' = [call |-> promise[m.id], answered |-> m.data]
        /\ UNCHANGED <<toNative, http, running>>
    BY <1>0, SettleFacts
  <1>2. /\ IdsOf(toWeb) \cup RequestIds(fetched)
             = {m.id} \cup IdsOf(toWeb') \cup RequestIds(fetched')
        /\ m.id \notin IdsOf(toWeb') \cup RequestIds(fetched')
        /\ m \in fetched \/ \E k \in DOMAIN toWeb : m = toWeb[k]
    BY <1>0, <1>1, ArrivesFacts
  <1>3. /\ m.id \in ServedIds /\ m.id \notin AskedIds
        /\ AskedIds' = AskedIds /\ ServedIds' = ServedIds \ {m.id}
    <2>1. m.id \in ServedIds /\ AskedIds' = AskedIds /\ ServedIds' = ServedIds \ {m.id}
      BY <1>1, <1>2, IdSets
    <2> QED BY <2>1, Known DEF CallsKnown
  <1>4. CallOf(m.id) = m.data
    <2>1. Says(m.id, m.data)
      BY <1>2 DEF Says
    <2> QED BY <1>0, <1>3, <2>1, Known DEF CallsKnown
  <1>5. promise[m.id] # None
    BY <1>0, CoreSettle, CallsAssumption DEF IInv
  <1>6. \A j \in Ids \ {m.id} : Kept(j)
    BY <1>0, <1>1, ArrivesKeeps DEF Kept, Says
  <1> QED BY <1>0, <1>1, <1>3, <1>4, <1>5, <1>6, IsSettle

LEMMA RefinesIgnore ==
  ASSUME IInv, IInv', Ignore
  PROVE  \E i \in Ids : Remote!Lose(i)
  <1> DEFINE i == Head(toWeb).id
  <1>0. TypeOK /\ OneMessage
    BY DEF IInv, Core
  <1>1. /\ toWeb # <<>> /\ toWeb' = Tail(toWeb)
        /\ UNCHANGED <<promise, toNative, http, running, fetched, outcome>>
    BY DEF Ignore, OnUnknownMessage, nativeVars
  <1>2. /\ IdsOf(toWeb) = {i} \cup IdsOf(toWeb') /\ i \notin IdsOf(toWeb')
        /\ \A k \in DOMAIN toWeb :
             toWeb[k].id = i \/ \E l \in DOMAIN toWeb' : toWeb'[l] = toWeb[k]
    BY <1>0, <1>1, IdsOfTail, TailKeeps DEF TypeOK, OneMessage
  <1> HIDE DEF i
  <1>3. i \in ServedIds /\ i \in Ids /\ i \notin AskedIds
    BY <1>2, IdSets, Known DEF CallsKnown
  <1>4. i \notin RequestIds(fetched)
    BY <1>0, <1>2, OneMessageSets DEF Apart
  <1>5. AskedIds' = AskedIds \ {i} /\ ServedIds' = ServedIds \ {i}
    BY <1>1, <1>2, <1>3, <1>4, IdSets
  <1>6. \A j \in Ids \ {i} : Kept(j)
    BY <1>1, <1>2 DEF Kept, Says
  <1> QED BY <1>1, <1>3, <1>5, <1>6, IsLose

LEMMA RefinesPage ==
  ASSUME IInv, IInv', Inject \/ Reload
  PROVE  UNCHANGED Remote!vars \/ \E dropped \in SUBSET Ids : Remote!Leave(dropped)
  <1>1. CASE Inject
    <2>1. UNCHANGED <<promise, toNative, http, running, fetched, toWeb, outcome>>
      BY <1>1 DEF Inject, InjectBridge, nativeVars, answerVars
    <2>2. AskedIds' = AskedIds /\ ServedIds' = ServedIds /\ \A j \in Ids : Kept(j)
      BY <2>1 DEF AskedIds, ServedIds, Kept, Says
    <2> QED BY <2>1, <2>2, IsStutter
  <1>2. CASE Reload
    <2> DEFINE dropped == RequestIds(fetched)
    <2>1. /\ fetched' = {} /\ promise' = [i \in Ids |-> None]
          /\ UNCHANGED <<toNative, http, running, toWeb, outcome>>
      BY <1>2 DEF Reload, nativeVars
    <2>2. dropped \subseteq ServedIds /\ dropped \cap IdsOf(toWeb) = {} /\ dropped \in SUBSET Ids
      <3>1. OneMessage
        BY DEF IInv, Core
      <3> QED BY <3>1, IdSets, OneMessageSets, Known DEF CallsKnown, Apart
    <2>3. AskedIds' = AskedIds
      BY <2>1 DEF AskedIds
    <2>4. ServedIds' = ServedIds \ dropped
      <3>1. RequestIds(fetched') = {}
        BY <2>1 DEF RequestIds
      <3> QED BY <2>1, <2>2, <3>1, IdSets
    <2>5. \A j \in Ids \ dropped : Kept(j)
      BY <2>1 DEF Kept, Says, RequestIds
    <2> QED BY <2>1, <2>2, <2>3, <2>4, <2>5, IsLeave
  <1> QED BY <1>1, <1>2

LEMMA RefinesStep ==
  ASSUME IInv, IInv', [Next]_vars
  PROVE  [Remote!Next]_(Remote!vars)
  <1>1. CASE \E i \in Ids, call \in Calls : Invoke(i, call)
    BY <1>1, RefinesInvoke DEF Remote!Next
  <1>2. CASE Handling
    <2>1. PICK m \in Requests : Handle(m)
      BY <1>2 DEF Handling
    <2>2. m.id \in Ids
      BY DEF Requests
    <2> QED BY <2>1, <2>2, RefinesHandle DEF Remote!Next
  <1>3. CASE Finishing
    <2>1. PICK m \in running : Finish(m)
      BY <1>3 DEF Finishing
    <2>2. m.id \in Ids
      BY DEF IInv, Core, TypeOK, Requests
    <2> QED BY <2>1, <2>2, RefinesFinish DEF Remote!Next
  <1>4. CASE Settling
    <2>1. PICK m \in Answers : Settle(m)
      BY <1>4 DEF Settling
    <2>2. m.id \in Ids
      BY DEF Answers
    <2> QED BY <2>1, <2>2, RefinesSettle DEF Remote!Next
  <1>5. CASE Ignore
    BY <1>5, RefinesIgnore DEF Remote!Next
  <1>6. CASE \E m \in Requests : LoseAnswer(m)
    <2>1. PICK m \in Requests : LoseAnswer(m)
      BY <1>6
    <2>2. m.id \in Ids
      BY DEF Requests
    <2> QED BY <2>1, <2>2, RefinesLoseAnswer DEF Remote!Next
  <1>7. CASE Inject \/ Reload
    BY <1>7, RefinesPage DEF Remote!Next
  <1>8. CASE UNCHANGED vars
    <2>1. UNCHANGED <<promise, toNative, http, running, fetched, toWeb, outcome>>
      BY <1>8 DEF vars, bridgeVars, nativeVars, answerVars
    <2>2. AskedIds' = AskedIds /\ ServedIds' = ServedIds /\ \A j \in Ids : Kept(j)
      BY <2>1 DEF AskedIds, ServedIds, Kept, Says
    <2> QED BY <2>1, <2>2, IsStutter
  <1> QED BY <1>1, <1>2, <1>3, <1>4, <1>5, <1>6, <1>7, <1>8 DEF Next

(***************************************************************************)
(* bridge.ts and the native end implement RemoteCalls: a call is served at *)
(* most once and its promise settles at most once, with its own answer.    *)
(***************************************************************************)
THEOREM Implements == Spec => ImplementsRemoteCalls
  <1>1. Init => Remote!Init
    BY RefinesInit
  <1>2. IInv /\ IInv' /\ [Next]_vars => [Remote!Next]_(Remote!vars)
    BY RefinesStep
  <1> QED BY <1>1, <1>2, Invariance, PTL DEF Spec, ImplementsRemoteCalls, Remote!Spec

=============================================================================
