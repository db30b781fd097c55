--------------------------- MODULE TagTable_proofs ---------------------------
(***************************************************************************)
(* Theorems of TagTable, for any groups, tags, names, values and ids. What *)
(* a table gets is the answer to its own call: an id is carried by one     *)
(* message at most (OneMessage), which is about the call of its promise    *)
(* (Matching), and the open calls of the mounted table are about its group *)
(* (CallsOfTable). That its rows are current in the end rests on what is on *)
(* its way (Kept): the last list and the events behind it say what the     *)
(* store has, or another list will come.                                   *)
(***************************************************************************)
EXTENDS TagTable, WellFoundedInduction, TLAPS

Tables  == [Tags -> Row \cup {None}]
Answers == [id : Ids, ok : BOOLEAN, data : Tables \cup Names \cup {None}]
Pushes  == [id : {None}, ok : {TRUE}, data : Event]
Scripts == Answers \cup Pushes

BridgeTypes ==
  /\ platform \in {"browser", "webview"} /\ injections \in {0, 1}
  /\ promise \in [Ids -> CallsMade \cup {None}] /\ pending \subseteq Ids
  /\ toNative \in Seq(Requests) /\ http \subseteq Requests /\ running \subseteq Requests
  /\ toWeb \in Seq(Scripts) /\ fetched \subseteq Answers

(* No two messages carry one id. Events carry none.                        *)
Distinct(s) == \A k, l \in DOMAIN s : s[k].id = s[l].id => k = l \/ s[k].id = None
SetIds(S) == {m.id : m \in S}
Apart(N, W, R, F) ==
  N \cap W = {} /\ N \cap R = {} /\ N \cap F = {} /\ W \cap R = {} /\ W \cap F = {} /\ R \cap F = {}
OneMessage ==
  /\ Distinct(toNative) /\ Distinct(toWeb)
  /\ \A m, n \in http \cup running : m.id = n.id => m = n
  /\ \A a, b \in fetched : a.id = b.id => a = b
  /\ http \cap running = {}
  /\ Apart(IdsOf(toNative), IdsOf(toWeb), SetIds(http \cup running), SetIds(fetched))

(* A message is about the call of its promise: a request is for it, and an *)
(* answer has what its method returns.                                     *)
Asked(p, m) == p[m.id] = m.call
Fits(p, a) ==
  /\ p[a.id] \in CallsMade
  /\ p[a.id].method = "ListTags" =>
       a.data \in Tables /\ \A t \in Tags : a.data[t] # None => GroupOf[t] = p[a.id].of
  /\ p[a.id].method = "GetTagHistory" => a.data \in Names
Matching ==
  /\ \A k \in DOMAIN toNative : Asked(promise, toNative[k])
  /\ \A m \in http \cup running : Asked(promise, m)
  /\ \A m \in running : m.call.method = "WriteTag"
  /\ \A k \in DOMAIN toWeb : toWeb[k].id # None => Fits(promise, toWeb[k])
  /\ \A a \in fetched : Fits(promise, a)

Core == BridgeTypes /\ OneMessage /\ Matching

StoreTypes ==
  /\ name \in [Tags -> Names \cup {None}] /\ value \in [Tags -> Values] /\ raised \in Seq(Event)
ViewTypes ==
  /\ handler \in Groups \cup {None} /\ group \in Groups \cup {None}
  /\ rows \in Tables /\ editing \in [Tags -> {None, Default, Typed}] /\ writing \subseteq Tags
  /\ loading \in BOOLEAN /\ refreshing \in BOOLEAN /\ historyLoading \in BOOLEAN
  /\ dialog \in ({"add"} \X {None}) \cup ({"edit", "remove"} \X Tags) \cup ({"history"} \X Names)
                \cup {Closed}
  /\ records \in Names \cup {None}
  /\ orphans \subseteq Ids /\ clean \in BOOLEAN /\ excused \subseteq Tags

(* The native transport is injected once, and comes without a handler.     *)
Injection ==
  /\ injections > 0 => platform = "browser"
  /\ platform = "browser" => handler = None /\ ~clean

(* The calls of the mounted table, and what its dialog is about.           *)
Mine(i) == i \in Ids \ orphans /\ promise[i] # None
CallsOfTable ==
  /\ \A i \in Ids : Mine(i) => GroupAsked(promise[i]) = group
  /\ \A i \in orphans : promise[i] # None
DialogOfTable ==
  /\ dialog # Closed => group # None
  /\ dialog[1] \in {"edit", "remove"} => GroupOf[dialog[2]] = group

(* A tag is written by one call at a time, and its row knows.              *)
Writes(i, t) == Mine(i) /\ promise[i].method = "WriteTag" /\ promise[i].of = t
OneWrite ==
  \A t \in Tags :
    /\ \A i \in Ids : Writes(i, t) => t \in writing
    /\ \A i, j \in Ids : Writes(i, t) /\ Writes(j, t) => i = j

(* SpinnerHasCall, in these terms.                                         *)
Spinners ==
  /\ loading =>
       \E i \in Ids : Mine(i) /\ promise[i].method = "ListTags" /\ promise[i].of = group
  /\ refreshing => \E i \in Ids : Mine(i) /\ promise[i] = CallTo("ListTags", group, "refresh")
  /\ historyLoading =>
       \E i \in Ids : Mine(i) /\ promise[i].method = "GetTagHistory" /\ promise[i].of = group
  /\ \A t \in writing : \E i \in Ids : Writes(i, t)

View == CallsOfTable /\ DialogOfTable /\ RowsOfGroup /\ Spinners /\ OneWrite

IInv == Core /\ StoreTypes /\ ViewTypes /\ Injection /\ ListenerIsMounted /\ View

-----------------------------------------------------------------------------
(* Sequences of messages *)

(* A sequence without its head. *)
LEMMA TailFacts ==
  ASSUME NEW S, NEW s \in Seq(S), s # <<>>
  PROVE  /\ Tail(s) \in Seq(S) /\ Head(s) \in S
         /\ 1 \in DOMAIN s /\ Head(s) = s[1]
         /\ \A k \in DOMAIN Tail(s) : k + 1 \in DOMAIN s /\ Tail(s)[k] = s[k + 1]
         /\ \A k \in DOMAIN s : k = 1 \/ k - 1 \in DOMAIN Tail(s)
         /\ DOMAIN s \subseteq Nat \ {0} /\ DOMAIN Tail(s) \subseteq Nat \ {0}
  OBVIOUS

(* It has the other ids, and the head's is not among them. *)
LEMMA IdsOfTail ==
  ASSUME NEW S, NEW s \in Seq(S), s # <<>>, Distinct(s)
  PROVE  /\ IdsOf(s) = {Head(s).id} \cup IdsOf(Tail(s))
         /\ Distinct(Tail(s))
         /\ Head(s).id # None => Head(s).id \notin IdsOf(Tail(s))
         /\ \A k \in DOMAIN Tail(s) : \E l \in DOMAIN s : Tail(s)[k] = s[l]
  <1> USE TailFacts
  <1>1. IdsOf(s) \subseteq {Head(s).id} \cup IdsOf(Tail(s))
    <2> SUFFICES ASSUME NEW k \in DOMAIN s
                 PROVE  s[k].id \in {Head(s).id} \cup IdsOf(Tail(s))
      BY DEF IdsOf
    <2>1. CASE k = 1
      BY <2>1
    <2>2. CASE k - 1 \in DOMAIN Tail(s)
      <3>1. Tail(s)[k - 1] = s[k]
        BY <2>2
      <3> QED BY <2>2, <3>1 DEF IdsOf
    <2> QED BY <2>1, <2>2
  <1>2. {Head(s).id} \cup IdsOf(Tail(s)) \subseteq IdsOf(s)
    BY DEF IdsOf
  <1>3. ASSUME NEW k \in DOMAIN Tail(s), NEW l \in DOMAIN Tail(s),
               Tail(s)[k].id = Tail(s)[l].id
        PROVE  k = l \/ Tail(s)[k].id = None
    <2>1. k + 1 = l + 1 \/ s[k + 1].id = None
      BY <1>3 DEF Distinct
    <2> QED BY <2>1
  <1>4. Head(s).id # None => Head(s).id \notin IdsOf(Tail(s))
    <2>1. \A k \in DOMAIN Tail(s) : Tail(s)[k].id = Head(s).id => Head(s).id = None
      BY DEF Distinct
    <2> QED BY <2>1 DEF IdsOf
  <1> QED BY <1>1, <1>2, <1>3, <1>4 DEF Distinct

(* A sequence and one more message. *)
LEMMA IdsOfAppend ==
  ASSUME NEW S, NEW s \in Seq(S), NEW e \in S, Distinct(s), e.id # None => e.id \notin IdsOf(s)
  PROVE  /\ Append(s, e) \in Seq(S) /\ s \o <<e>> = Append(s, e)
         /\ IdsOf(Append(s, e)) = IdsOf(s) \cup {e.id}
         /\ Distinct(Append(s, e))
         /\ \A k \in DOMAIN Append(s, e) :
              (\E l \in DOMAIN s : Append(s, e)[k] = s[l]) \/ Append(s, e)[k] = e
  <1>1. Append(s, e) \in Seq(S) /\ s \o <<e>> = Append(s, e)
    OBVIOUS
  <1>2. DOMAIN s = 1..Len(s) /\ DOMAIN Append(s, e) = 1..(Len(s) + 1) /\ Len(s) \in Nat
    OBVIOUS
  <1>3. \A k \in 1..Len(s) : Append(s, e)[k] = s[k]
    OBVIOUS
  <1>4. Append(s, e)[Len(s) + 1] = e
    OBVIOUS
  <1>5. \A k \in DOMAIN Append(s, e) : k \in DOMAIN s \/ k = Len(s) + 1
    BY <1>2
  <1>6. IdsOf(Append(s, e)) = IdsOf(s) \cup {e.id}
    <2>1. IdsOf(Append(s, e)) \subseteq IdsOf(s) \cup {e.id}
      BY <1>2, <1>3, <1>4, <1>5 DEF IdsOf
    <2>2. IdsOf(s) \cup {e.id} \subseteq IdsOf(Append(s, e))
      BY <1>2, <1>3, <1>4 DEF IdsOf
    <2> QED BY <2>1, <2>2
  <1>7. ASSUME NEW k \in DOMAIN Append(s, e), NEW l \in DOMAIN Append(s, e),
               Append(s, e)[k].id = Append(s, e)[l].id, Append(s, e)[k].id # None
        PROVE  k = l
    <2>1. \A j \in DOMAIN s : s[j].id # e.id \/ e.id = None
      BY DEF IdsOf
    <2>2. CASE k \in DOMAIN s /\ l \in DOMAIN s
      BY <1>2, <1>3, <1>7, <2>2 DEF Distinct
    <2>3. CASE k \in DOMAIN s /\ l = Len(s) + 1
      BY <1>2, <1>3, <1>4, <1>7, <2>1, <2>3
    <2>4. CASE k = Len(s) + 1 /\ l \in DOMAIN s
      BY <1>2, <1>3, <1>4, <1>7, <2>1, <2>4
    <2> QED BY <1>5, <2>2, <2>3, <2>4
  <1> QED BY <1>1, <1>2, <1>3, <1>4, <1>5, <1>6, <1>7 DEF Distinct

(* The messages' ids are ids, or None. *)
LEMMA IdsTyped ==
  ASSUME BridgeTypes
  PROVE  /\ IdsOf(toNative) \subseteq Ids /\ SetIds(http \cup running) \subseteq Ids
         /\ SetIds(fetched) \subseteq Ids /\ IdsOf(toWeb) \subseteq Ids \cup {None}
  <1>1. \A k \in DOMAIN toNative : toNative[k] \in Requests
    BY DEF BridgeTypes
  <1>2. \A k \in DOMAIN toWeb : toWeb[k] \in Scripts
    BY DEF BridgeTypes
  <1>3. \A a \in Scripts : a.id \in Ids \cup {None}
    BY DEF Scripts, Answers, Pushes
  <1> QED BY <1>1, <1>2, <1>3 DEF IdsOf, SetIds, BridgeTypes, Requests, Answers

(* A free id is one that nothing carries. *)
LEMMA NextIdFree ==
  ASSUME FreeIds # {}
  PROVE  /\ NextId \in Ids /\ promise[NextId] = None
         /\ NextId \notin IdsOf(toNative) \cup IdsOf(toWeb)
         /\ NextId \notin SetIds(http \cup running) \cup SetIds(fetched)
  <1>1. FreeIds \subseteq Nat
    BY IdsAreNumbers DEF FreeIds
  <1>2. PICK x \in FreeIds : \A y \in FreeIds : ~ (<<y, x>> \in OpToRel(<, Nat))
    BY <1>1, NatLessThanWellFounded, WFMin
  <1>3. \A y \in FreeIds : <<y, x>> \in OpToRel(<, Nat) <=> y < x
    BY <1>1 DEF OpToRel
  <1>4. \A y \in FreeIds : ~ (y < x)
    BY <1>2, <1>3, Zenon
  <1>5. \A y \in FreeIds : x <= y
    BY <1>1, <1>4
  <1>6. NextId \in FreeIds
    BY <1>5 DEF NextId
  <1> QED BY <1>6 DEF FreeIds, Carried, SetIds

-----------------------------------------------------------------------------
(* The bridge's steps keep one message per id, about the call of its promise *)

(* A step that moves one id, and drops others, keeps the messages apart.   *)
LEMMA ApartAfter ==
  ASSUME OneMessage, NEW x,
         IdsOf(toNative') \subseteq IdsOf(toNative) \cup {x},
         IdsOf(toWeb') \subseteq IdsOf(toWeb) \cup {x},
         SetIds(http' \cup running') \subseteq SetIds(http \cup running) \cup {x},
         SetIds(fetched') \subseteq SetIds(fetched) \cup {x},
         x \in IdsOf(toNative')
           => x \notin IdsOf(toWeb') \cup SetIds(http' \cup running') \cup SetIds(fetched'),
         x \in IdsOf(toWeb') => x \notin SetIds(http' \cup running') \cup SetIds(fetched'),
         x \in SetIds(http' \cup running') => x \notin SetIds(fetched')
  PROVE  Apart(IdsOf(toNative'), IdsOf(toWeb'), SetIds(http' \cup running'), SetIds(fetched'))
  BY DEF OneMessage, Apart

LEMMA TurnNone ==
  ASSUME BridgeTypes, NEW done, Turn(done, <<>>)
  PROVE  /\ promise' = [j \in Ids |-> IF j \in done THEN None ELSE promise[j]]
         /\ pending' \subseteq Ids
         /\ UNCHANGED <<platform, injections, toNative, http, running>>
  <1>1. IdsOf(<<>>) = {} /\ {(<< >>)[k] : k \in DOMAIN << >>} = {}
    BY DEF IdsOf
  <1>2. toNative \o <<>> = toNative
    BY DEF BridgeTypes
  <1>3. promise' = [j \in Ids |->
                      IF j \in IdsOf(<<>>)
                      THEN (<< >>)[CHOOSE k \in DOMAIN << >> : (<< >>)[k].id = j].call
                      ELSE IF j \in done THEN None ELSE promise[j]]
    BY DEF Turn
  <1>4. promise' = [j \in Ids |-> IF j \in done THEN None ELSE promise[j]]
    BY <1>1, <1>3
  <1>5. UNCHANGED <<platform, injections, running>>
    BY DEF Turn, transportVars
  <1>6. pending' \subseteq pending /\ toNative' = toNative /\ http' = http
    BY <1>1, <1>2 DEF Turn
  <1> QED BY <1>4, <1>5, <1>6 DEF BridgeTypes

(* What a turn does that makes this call.                                  *)
Posted(r, i, call, done) ==
  /\ r \in Requests /\ r.id = i /\ r.call = call
  /\ promise' = [j \in Ids |-> IF j = i THEN call ELSE IF j \in done THEN None ELSE promise[j]]
  /\ pending' \subseteq Ids
  /\ \/ toNative' = Append(toNative, r) /\ http' = http
     \/ toNative' = toNative /\ http' = http \cup {r}
  /\ UNCHANGED <<platform, injections, running>>

LEMMA TurnOne ==
  ASSUME BridgeTypes, NEW done, NEW i \in Ids, NEW call \in CallsMade,
         Turn(done, <<Request(i, call)>>)
  PROVE  Posted(Request(i, call), i, call, done)
  <1> DEFINE r == Request(i, call)
  <1>1. r \in Requests /\ r.id = i /\ r.call = call
    BY DEF Request, Requests
  <1>2. Turn(done, <<r>>)
    OBVIOUS
  <1>3. UNCHANGED <<platform, injections, running>>
    BY <1>2 DEF Turn, transportVars
  <1> HIDE DEF r
  <1>4. toNative \o <<r>> = Append(toNative, r)
    BY <1>1 DEF BridgeTypes
  <1>5. DOMAIN <<r>> = {1} /\ <<r>>[1] = r
    OBVIOUS
  <1>6. IdsOf(<<r>>) = {i} /\ {<<r>>[k] : k \in DOMAIN <<r>>} = {r}
    BY <1>1, <1>5 DEF IdsOf
  <1>7. <<r>>[CHOOSE k \in DOMAIN <<r>> : <<r>>[k].id = i].call = call
    BY <1>1, <1>5
  <1>8. promise' = [j \in Ids |-> IF j = i THEN call
                                  ELSE IF j \in done THEN None ELSE promise[j]]
    <2>1. promise' = [j \in Ids |->
                        IF j \in IdsOf(<<r>>)
                        THEN <<r>>[CHOOSE k \in DOMAIN <<r>> : <<r>>[k].id = j].call
                        ELSE IF j \in done THEN None ELSE promise[j]]
      BY <1>2 DEF Turn
    <2> QED BY <2>1, <1>6, <1>7
  <1>9. \/ toNative' = Append(toNative, r) /\ http' = http
        \/ toNative' = toNative /\ http' = http \cup {r}
    BY <1>2, <1>4, <1>6 DEF Turn
  <1>10. pending' \subseteq Ids
    BY <1>2, <1>6 DEF Turn, BridgeTypes
  <1> QED BY <1>1, <1>3, <1>8, <1>9, <1>10 DEF r, Posted

(* A step after which fewer answers are on their way to the page.          *)
Fewer ==
  /\ toWeb' \in Seq(Scripts) /\ Distinct(toWeb') /\ IdsOf(toWeb') \subseteq IdsOf(toWeb)
  /\ \A k \in DOMAIN toWeb' : \E l \in DOMAIN toWeb : toWeb'[k] = toWeb[l]
  /\ fetched' \subseteq fetched

(* A call is made under an id that nothing carries, or carries any more.   *)
LEMMA CoreAsks ==
  ASSUME Core, Fewer, NEW i \in Ids, NEW call \in CallsMade, NEW done \in SUBSET {i},
         Turn(done, <<Request(i, call)>>),
         i \notin IdsOf(toNative) \cup SetIds(http \cup running),
         i \notin IdsOf(toWeb') \cup SetIds(fetched')
  PROVE  /\ Core' /\ UNCHANGED <<platform, injections>>
         /\ promise' = [j \in Ids |-> IF j = i THEN call ELSE promise[j]]
  <1> DEFINE r == Request(i, call)
  <1>1. /\ r \in Requests /\ r.id = i /\ r.call = call
        /\ promise' = [j \in Ids |-> IF j = i THEN call ELSE promise[j]]
        /\ pending' \subseteq Ids
        /\ \/ toNative' = Append(toNative, r) /\ http' = http
           \/ toNative' = toNative /\ http' = http \cup {r}
        /\ UNCHANGED <<platform, injections, running>>
    <2>1. BridgeTypes
      BY DEF Core
    <2>2. Posted(r, i, call, done)
      BY <2>1, TurnOne
    <2> QED BY <2>2 DEF Posted
  <1> HIDE DEF r
  <1>2. toNative \in Seq(Requests) /\ Distinct(toNative) /\ None \notin Ids
    BY NoneIsNoId DEF Core, BridgeTypes, OneMessage
  <1>3. \A k \in DOMAIN toNative : toNative[k].id # i /\ toNative[k].id \in Ids
    BY IdsTyped DEF IdsOf, Core
  <1>4. \A m \in http \cup running : m.id # i /\ m.id \in Ids
    BY IdsTyped DEF SetIds, Core
  <1>5. \A k \in DOMAIN toWeb' : toWeb'[k].id # None => Fits(promise', toWeb'[k])
    <2>1. \A k \in DOMAIN toWeb' : toWeb'[k].id # i /\ toWeb'[k].id \in Ids \cup {None}
      BY IdsTyped DEF IdsOf, Core, Fewer
    <2> QED BY <1>1, <2>1 DEF Core, Matching, Fits, Fewer
  <1>6. \A a \in fetched' : Fits(promise', a)
    <2>1. \A a \in fetched' : a.id # i /\ a.id \in Ids
      BY IdsTyped DEF SetIds, Core, Fewer
    <2> QED BY <1>1, <2>1 DEF Core, Matching, Fits, Fewer
  <1>7. CASE toNative' = Append(toNative, r) /\ http' = http
    <2>1. /\ toNative' \in Seq(Requests) /\ IdsOf(toNative') = IdsOf(toNative) \cup {i}
          /\ Distinct(toNative')
          /\ \A k \in DOMAIN toNative' :
               (\E l \in DOMAIN toNative : toNative'[k] = toNative[l]) \/ toNative'[k] = r
      BY <1>1, <1>2, <1>7, IdsOfAppend
    <2>2. BridgeTypes'
      BY <1>1, <1>7, <2>1 DEF Core, BridgeTypes, Fewer
    <2>3. OneMessage'
      <3>1. Apart(IdsOf(toNative'), IdsOf(toWeb'), SetIds(http' \cup running'),
                  SetIds(fetched'))
        BY <1>1, <1>7, <2>1, ApartAfter DEF Core, Fewer, SetIds
      <3> QED BY <1>1, <1>7, <2>1, <3>1 DEF Core, OneMessage, Fewer
    <2>4. Matching'
      <3>1. \A k \in DOMAIN toNative' : Asked(promise', toNative'[k])
        BY <1>1, <1>3, <2>1 DEF Core, Matching, Asked
      <3>2. \A m \in http' \cup running' : Asked(promise', m)
        BY <1>1, <1>4, <1>7 DEF Core, Matching, Asked
      <3> QED BY <1>1, <1>5, <1>6, <3>1, <3>2 DEF Core, Matching
    <2> QED BY <1>1, <2>2, <2>3, <2>4 DEF Core
  <1>8. CASE toNative' = toNative /\ http' = http \cup {r}
    <2>1. BridgeTypes'
      BY <1>1, <1>8 DEF Core, BridgeTypes, Fewer
    <2>2. OneMessage'
      <3>1. /\ \A m, n \in http' \cup running' : m.id = n.id => m = n
            /\ http' \cap running' = {}
        BY <1>1, <1>4, <1>8 DEF Core, OneMessage
      <3>2. SetIds(http' \cup running') = SetIds(http \cup running) \cup {i}
        BY <1>1, <1>8 DEF SetIds
      <3>3. Apart(IdsOf(toNative'), IdsOf(toWeb'), SetIds(http' \cup running'),
                  SetIds(fetched'))
        BY <1>1, <1>8, <3>2, ApartAfter DEF Core, Fewer, SetIds
      <3> QED BY <1>1, <1>2, <1>8, <3>1, <3>3 DEF Core, OneMessage, Fewer
    <2>3. Matching'
      <3>1. \A k \in DOMAIN toNative' : Asked(promise', toNative'[k])
        BY <1>1, <1>3, <1>8 DEF Core, Matching, Asked
      <3>2. \A m \in http' \cup running' : Asked(promise', m)
        BY <1>1, <1>4, <1>8 DEF Core, Matching, Asked
      <3> QED BY <1>1, <1>5, <1>6, <3>1, <3>2 DEF Core, Matching
    <2> QED BY <1>1, <2>1, <2>2, <2>3 DEF Core
  <1> QED BY <1>1, <1>7, <1>8

(* No call is made, and the promises that settle are carried by nothing.   *)
LEMMA CoreForgets ==
  ASSUME Core, Fewer, NEW done \in SUBSET Ids,
         platform' \in {"browser", "webview"}, injections' \in {0, 1}, pending' \subseteq Ids,
         UNCHANGED <<toNative, http, running>>,
         promise' \in [Ids -> CallsMade \cup {None}],
         \A j \in Ids \ done : promise'[j] = promise[j],
         done \cap (IdsOf(toNative) \cup SetIds(http \cup running)) = {},
         done \cap (IdsOf(toWeb') \cup SetIds(fetched')) = {}
  PROVE  Core'
  <1>1. BridgeTypes'
    BY DEF Core, BridgeTypes, Fewer
  <1>2. OneMessage'
    <2>1. Apart(IdsOf(toNative'), IdsOf(toWeb'), SetIds(http' \cup running'), SetIds(fetched'))
      BY DEF Core, OneMessage, Apart, Fewer, SetIds
    <2> QED BY <2>1 DEF Core, OneMessage, Fewer
  <1>3. Matching'
    <2>1. \A k \in DOMAIN toNative : toNative[k].id \in Ids \ done
      BY IdsTyped DEF IdsOf, Core
    <2>2. \A m \in http \cup running : m.id \in Ids \ done
      BY IdsTyped DEF SetIds, Core
    <2>3. \A k \in DOMAIN toWeb' : toWeb'[k].id \in (Ids \ done) \cup {None}
      BY IdsTyped DEF IdsOf, Core, Fewer
    <2>4. \A a \in fetched' : a.id \in Ids \ done
      BY IdsTyped DEF SetIds, Core, Fewer
    <2>5. \A k \in DOMAIN toNative' : Asked(promise', toNative'[k])
      BY <2>1 DEF Core, Matching, Asked
    <2>6. \A m \in http' \cup running' : Asked(promise', m)
      BY <2>2 DEF Core, Matching, Asked
    <2>7. \A k \in DOMAIN toWeb' : toWeb'[k].id # None => Fits(promise', toWeb'[k])
      BY <2>3 DEF Core, Matching, Fits, Fewer
    <2>8. \A a \in fetched' : Fits(promise', a)
      BY <2>4 DEF Core, Matching, Fits, Fewer
    <2> QED BY <2>5, <2>6, <2>7, <2>8 DEF Core, Matching
  <1> QED BY <1>1, <1>2, <1>3 DEF Core

(* An answer that arrives is about the call of its promise, and was the    *)
(* only message under its id.                                              *)
LEMMA ArrivesFacts ==
  ASSUME Core, NEW m \in Answers, Arrives(m)
  PROVE  /\ Fewer /\ Fits(promise, m) /\ m.id \in Ids
         /\ m.id \notin IdsOf(toNative) \cup SetIds(http \cup running)
         /\ m.id \notin IdsOf(toWeb') \cup SetIds(fetched')
  <1>1. m.id \in Ids /\ m.id # None
    BY NoneIsNoId DEF Answers
  <1>2. toWeb \in Seq(Scripts) /\ Distinct(toWeb)
    BY DEF Core, BridgeTypes, OneMessage
  <1>3. CASE toWeb # <<>> /\ m = Head(toWeb) /\ toWeb' = Tail(toWeb) /\ fetched' = fetched
    <2>1. /\ IdsOf(toWeb) = {m.id} \cup IdsOf(toWeb') /\ m.id \notin IdsOf(toWeb')
          /\ Distinct(toWeb')
          /\ \A k \in DOMAIN toWeb' : \E l \in DOMAIN toWeb : toWeb'[k] = toWeb[l]
      BY <1>1, <1>2, <1>3, IdsOfTail
    <2>2. toWeb' \in Seq(Scripts) /\ 1 \in DOMAIN toWeb /\ m = toWeb[1]
      BY <1>2, <1>3, TailFacts
    <2>3. Fewer
      BY <1>3, <2>1, <2>2 DEF Fewer
    <2>4. Fits(promise, m)
      BY <1>1, <2>2 DEF Core, Matching
    <2> QED BY <1>1, <1>3, <2>1, <2>3, <2>4 DEF Core, OneMessage, Apart
  <1>4. CASE m \in fetched /\ fetched' = fetched \ {m} /\ toWeb' = toWeb
    <2>1. Fewer
      BY <1>2, <1>4 DEF Fewer
    <2>2. Fits(promise, m)
      BY <1>4 DEF Core, Matching
    <2>3. m.id \in SetIds(fetched) /\ m.id \notin SetIds(fetched')
      BY <1>4 DEF Core, OneMessage, SetIds
    <2> QED BY <1>1, <1>4, <2>1, <2>2, <2>3 DEF Core, OneMessage, Apart
  <1> QED BY <1>3, <1>4 DEF Arrives

(* A request that is taken was the only message under its id.              *)
LEMMA ReceivedFacts ==
  ASSUME Core, NEW m \in Requests, Received(m)
  PROVE  /\ toNative' \in Seq(Requests) /\ Distinct(toNative') /\ http' \subseteq http
         /\ \A k \in DOMAIN toNative' : \E l \in DOMAIN toNative : toNative'[k] = toNative[l]
         /\ IdsOf(toNative') \subseteq IdsOf(toNative) /\ Asked(promise, m)
         /\ m.id \notin IdsOf(toNative') \cup SetIds(http' \cup running)
         /\ m.id \notin IdsOf(toWeb) \cup SetIds(fetched)
  <1>1. m.id \in Ids /\ m.id # None
    BY NoneIsNoId DEF Requests
  <1>2. toNative \in Seq(Requests) /\ Distinct(toNative)
    BY DEF Core, BridgeTypes, OneMessage
  <1>3. CASE toNative # <<>> /\ m = Head(toNative) /\ toNative' = Tail(toNative) /\ http' = http
    <2>1. /\ IdsOf(toNative) = {m.id} \cup IdsOf(toNative') /\ m.id \notin IdsOf(toNative')
          /\ Distinct(toNative')
          /\ \A k \in DOMAIN toNative' : \E l \in DOMAIN toNative : toNative'[k] = toNative[l]
      BY <1>1, <1>2, <1>3, IdsOfTail
    <2>2. toNative' \in Seq(Requests) /\ 1 \in DOMAIN toNative /\ m = toNative[1]
      BY <1>2, <1>3, TailFacts
    <2>3. Asked(promise, m)
      BY <2>2 DEF Core, Matching
    <2> QED BY <1>3, <2>1, <2>2, <2>3 DEF Core, OneMessage, Apart
  <1>4. CASE m \in http /\ http' = http \ {m} /\ toNative' = toNative
    <2>1. Asked(promise, m)
      BY <1>4 DEF Core, Matching
    <2>2. m.id \in SetIds(http \cup running) /\ m.id \notin SetIds(http' \cup running)
      BY <1>4 DEF Core, OneMessage, SetIds
    <2> QED BY <1>2, <1>4, <2>1, <2>2 DEF Core, OneMessage, Apart
  <1> QED BY <1>3, <1>4 DEF Received

(* What a method may return to this call.                                  *)
Returns(call, result) ==
  /\ result.ok \in BOOLEAN /\ result.data \in Tables \cup Names \cup {None}
  /\ call.method = "ListTags" =>
       result.data \in Tables /\ \A t \in Tags : result.data[t] # None => GroupOf[t] = call.of
  /\ call.method = "GetTagHistory" => result.data \in Names

LEMMA RespondFacts ==
  ASSUME Core, NEW m \in Requests, NEW result, Returns(m.call, result), Respond(m, result),
         Asked(promise, m), m.id \notin IdsOf(toWeb) \cup SetIds(fetched)
  PROVE  /\ toWeb' \in Seq(Scripts) /\ fetched' \subseteq Answers
         /\ Distinct(toWeb') /\ \A a, b \in fetched' : a.id = b.id => a = b
         /\ IdsOf(toWeb') \subseteq IdsOf(toWeb) \cup {m.id}
         /\ SetIds(fetched') \subseteq SetIds(fetched) \cup {m.id}
         /\ m.id \in IdsOf(toWeb') => m.id \notin SetIds(fetched')
         /\ \A k \in DOMAIN toWeb' : toWeb'[k].id # None => Fits(promise, toWeb'[k])
         /\ \A a \in fetched' : Fits(promise, a)
  <1> DEFINE answer == [id |-> m.id, ok |-> result.ok, data |-> result.data]
  <1>1. m.id \in Ids /\ m.call \in CallsMade /\ m.web \in BOOLEAN
    BY DEF Requests
  <1>2. answer \in Answers /\ answer.id = m.id /\ answer.data = result.data
    BY <1>1 DEF Answers, Returns
  <1>3. /\ toWeb' = (IF m.web THEN Append(toWeb, answer) ELSE toWeb)
        /\ fetched' \in {fetched, fetched \cup {answer}} /\ (m.web => fetched' = fetched)
    BY DEF Respond
  <1>4. Fits(promise, answer)
    BY <1>1, <1>2 DEF Fits, Asked, Returns
  <1> HIDE DEF answer
  <1>5. toWeb \in Seq(Scripts) /\ Distinct(toWeb) /\ answer \in Scripts
    BY <1>2 DEF Core, BridgeTypes, OneMessage, Scripts
  <1>6. CASE m.web
    <2>1. /\ toWeb' \in Seq(Scripts) /\ Distinct(toWeb') /\ IdsOf(toWeb') = IdsOf(toWeb) \cup {m.id}
          /\ \A k \in DOMAIN toWeb' :
               (\E l \in DOMAIN toWeb : toWeb'[k] = toWeb[l]) \/ toWeb'[k] = answer
      BY <1>2, <1>3, <1>5, <1>6, IdsOfAppend
    <2>2. \A k \in DOMAIN toWeb' : toWeb'[k].id # None => Fits(promise, toWeb'[k])
      BY <1>4, <2>1 DEF Core, Matching
    <2> QED BY <1>3, <1>6, <2>1, <2>2 DEF Core, BridgeTypes, OneMessage, Matching
  <1>7. CASE ~m.web
    <2>1. SetIds(fetched') \subseteq SetIds(fetched) \cup {m.id}
      BY <1>2, <1>3 DEF SetIds
    <2>2. \A a, b \in fetched' : a.id = b.id => a = b
      BY <1>2, <1>3 DEF Core, OneMessage, SetIds
    <2>3. fetched' \subseteq Answers /\ \A a \in fetched' : Fits(promise, a)
      BY <1>2, <1>3, <1>4 DEF Core, BridgeTypes, Matching
    <2> QED BY <1>3, <1>5, <1>7, <2>1, <2>2, <2>3 DEF Core, Matching
  <1> QED BY <1>1, <1>6, <1>7

(* What is left of a step that takes a request or answers it.              *)
LEMMA CoreServes ==
  ASSUME Core, NEW x \in Ids, UNCHANGED <<transportVars, promise, pending>>,
         toNative' \in Seq(Requests), Distinct(toNative'),
         IdsOf(toNative') \subseteq IdsOf(toNative),
         \A k \in DOMAIN toNative' : \E l \in DOMAIN toNative : toNative'[k] = toNative[l],
         http' \subseteq http,
         running' \subseteq Requests, \A m \in running' \ running : m.id = x /\ Asked(promise, m),
         \A m \in running' : m.call.method = "WriteTag",
         \A m, n \in http' \cup running' : m.id = n.id => m = n, http' \cap running' = {},
         toWeb' \in Seq(Scripts), fetched' \subseteq Answers,
         Distinct(toWeb'), \A a, b \in fetched' : a.id = b.id => a = b,
         IdsOf(toWeb') \subseteq IdsOf(toWeb) \cup {x},
         SetIds(fetched') \subseteq SetIds(fetched) \cup {x},
         \A k \in DOMAIN toWeb' : toWeb'[k].id # None => Fits(promise, toWeb'[k]),
         \A a \in fetched' : Fits(promise, a),
         x \notin IdsOf(toNative'),
         x \in IdsOf(toWeb') => x \notin SetIds(http' \cup running') \cup SetIds(fetched'),
         x \in SetIds(http' \cup running') => x \notin SetIds(fetched')
  PROVE  Core'
  <1>1. BridgeTypes'
    BY DEF Core, BridgeTypes, transportVars
  <1>2. OneMessage'
    <2>1. SetIds(http' \cup running') \subseteq SetIds(http \cup running) \cup {x}
      BY DEF SetIds
    <2>2. Apart(IdsOf(toNative'), IdsOf(toWeb'), SetIds(http' \cup running'), SetIds(fetched'))
      BY <2>1, ApartAfter DEF Core
    <2> QED BY <2>2 DEF OneMessage
  <1>3. Matching'
    <2>1. \A k \in DOMAIN toNative' : Asked(promise', toNative'[k])
      BY DEF Core, Matching
    <2>2. \A m \in http' \cup running' : Asked(promise', m)
      BY DEF Core, Matching
    <2> QED BY <2>1, <2>2 DEF Matching
  <1> QED BY <1>1, <1>2, <1>3 DEF Core

LEMMA CoreHandles ==
  ASSUME Core, NEW m \in Requests, NEW result, Returns(m.call, result), HandleInvoke(m, result)
  PROVE  Core' /\ UNCHANGED <<transportVars, promise, handler>>
  <1>1. m.id \in Ids
    BY DEF Requests
  <1>2. Received(m) /\ Respond(m, result)
        /\ UNCHANGED <<transportVars, promise, pending, handler, running>>
    BY DEF HandleInvoke
  <1>3. /\ toNative' \in Seq(Requests) /\ Distinct(toNative') /\ http' \subseteq http
        /\ \A k \in DOMAIN toNative' : \E l \in DOMAIN toNative : toNative'[k] = toNative[l]
        /\ IdsOf(toNative') \subseteq IdsOf(toNative) /\ Asked(promise, m)
        /\ m.id \notin IdsOf(toNative') \cup SetIds(http' \cup running)
        /\ m.id \notin IdsOf(toWeb) \cup SetIds(fetched)
    BY <1>2, ReceivedFacts
  <1>4. /\ toWeb' \in Seq(Scripts) /\ fetched' \subseteq Answers
        /\ Distinct(toWeb') /\ \A a, b \in fetched' : a.id = b.id => a = b
        /\ IdsOf(toWeb') \subseteq IdsOf(toWeb) \cup {m.id}
        /\ SetIds(fetched') \subseteq SetIds(fetched) \cup {m.id}
        /\ m.id \in IdsOf(toWeb') => m.id \notin SetIds(fetched')
        /\ \A k \in DOMAIN toWeb' : toWeb'[k].id # None => Fits(promise, toWeb'[k])
        /\ \A a \in fetched' : Fits(promise, a)
    BY <1>2, <1>3, RespondFacts
  <1>5. /\ running' \subseteq Requests /\ running' \ running = {}
        /\ \A n \in running' : n.call.method = "WriteTag"
        /\ \A n, o \in http' \cup running' : n.id = o.id => n = o
        /\ http' \cap running' = {}
    BY <1>2, <1>3 DEF Core, BridgeTypes, OneMessage, Matching
  <1>6. Core'
    BY <1>1, <1>2, <1>3, <1>4, <1>5, CoreServes
  <1> QED BY <1>2, <1>6

LEMMA CoreBegins ==
  ASSUME Core, NEW m \in Requests, m.call.method = "WriteTag", BeginInvoke(m)
  PROVE  Core' /\ UNCHANGED <<transportVars, promise, handler>>
  <1>1. m.id \in Ids
    BY DEF Requests
  <1>2. Received(m) /\ running' = running \cup {m}
        /\ UNCHANGED <<transportVars, promise, pending, handler, fetched, toWeb>>
    BY DEF BeginInvoke, answerVars
  <1>3. /\ toNative' \in Seq(Requests) /\ Distinct(toNative') /\ http' \subseteq http
        /\ \A k \in DOMAIN toNative' : \E l \in DOMAIN toNative : toNative'[k] = toNative[l]
        /\ IdsOf(toNative') \subseteq IdsOf(toNative) /\ Asked(promise, m)
        /\ m.id \notin IdsOf(toNative') \cup SetIds(http' \cup running)
        /\ m.id \notin IdsOf(toWeb) \cup SetIds(fetched)
    BY <1>2, ReceivedFacts
  <1>4. /\ running' \subseteq Requests
        /\ \A n \in running' \ running : n.id = m.id /\ Asked(promise, n)
        /\ \A n \in running' : n.call.method = "WriteTag"
        /\ \A n, o \in http' \cup running' : n.id = o.id => n = o
        /\ http' \cap running' = {}
    BY <1>2, <1>3 DEF Core, BridgeTypes, OneMessage, Matching, SetIds
  <1>5. /\ toWeb' \in Seq(Scripts) /\ fetched' \subseteq Answers
        /\ Distinct(toWeb') /\ \A a, b \in fetched' : a.id = b.id => a = b
        /\ \A k \in DOMAIN toWeb' : toWeb'[k].id # None => Fits(promise, toWeb'[k])
        /\ \A a \in fetched' : Fits(promise, a)
    BY <1>2 DEF Core, BridgeTypes, OneMessage, Matching
  <1>6. Core'
    BY <1>1, <1>2, <1>3, <1>4, <1>5, CoreServes
  <1> QED BY <1>2, <1>6

LEMMA CoreFinishes ==
  ASSUME Core, NEW m \in running, NEW result, result \in {Done(None), Refused},
         FinishInvoke(m, result)
  PROVE  Core' /\ UNCHANGED <<transportVars, promise, handler>>
  <1>1. m \in Requests /\ m.id \in Ids /\ m.call.method = "WriteTag" /\ Asked(promise, m)
    BY DEF Core, BridgeTypes, Matching, Requests
  <1>2. /\ Respond(m, result) /\ running' = running \ {m}
        /\ UNCHANGED <<transportVars, promise, pending, handler, toNative, http>>
    BY DEF FinishInvoke
  <1>3. /\ m.id \notin IdsOf(toNative) \cup IdsOf(toWeb) \cup SetIds(fetched)
        /\ m.id \notin SetIds(http' \cup running')
    BY <1>2 DEF Core, OneMessage, Apart, SetIds
  <1>4. Returns(m.call, result)
    <2>1. Done(None) \in [ok : BOOLEAN, data : {None}]
      BY DEF Done
    <2>2. Refused \in [ok : BOOLEAN, data : {None}]
      BY DEF Refused
    <2>3. result \in [ok : BOOLEAN, data : {None}]
      BY <2>1, <2>2
    <2> QED BY <1>1, <2>3 DEF Returns
  <1>5. /\ toWeb' \in Seq(Scripts) /\ fetched' \subseteq Answers
        /\ Distinct(toWeb') /\ \A a, b \in fetched' : a.id = b.id => a = b
        /\ IdsOf(toWeb') \subseteq IdsOf(toWeb) \cup {m.id}
        /\ SetIds(fetched') \subseteq SetIds(fetched) \cup {m.id}
        /\ m.id \in IdsOf(toWeb') => m.id \notin SetIds(fetched')
        /\ \A k \in DOMAIN toWeb' : toWeb'[k].id # None => Fits(promise, toWeb'[k])
        /\ \A a \in fetched' : Fits(promise, a)
    BY <1>1, <1>2, <1>3, <1>4, RespondFacts
  <1>6. /\ running' \subseteq Requests /\ running' \ running = {}
        /\ \A n \in running' : n.call.method = "WriteTag"
        /\ \A n, o \in http' \cup running' : n.id = o.id => n = o
        /\ http' \cap running' = {}
        /\ toNative' \in Seq(Requests) /\ Distinct(toNative')
    BY <1>2 DEF Core, BridgeTypes, OneMessage, Matching
  <1>7. Core'
    BY <1>1, <1>2, <1>3, <1>5, <1>6, CoreServes
  <1> QED BY <1>2, <1>7

-----------------------------------------------------------------------------
(* The steps of the table and of the host *)

LEMMA CallTypes ==
  ASSUME NEW c \in CallsMade
  PROVE  /\ c.method \in {"ListTags", "AddTag", "GetTagHistory"} => c.of \in Groups
         /\ c.method \in {"AddTag", "GetTagHistory", "UpdateTag"} => c.arg \in Names
         /\ c.method \in {"UpdateTag", "RemoveTag", "WriteTag"} => c.of \in Tags
         /\ c.method \in Changing \cup {"ListTags", "GetTagHistory", "WriteTag"}
         /\ GroupAsked(c) \in Groups /\ (c.of \in Groups => GroupAsked(c) = c.of)
  <1>1. c.of \in Groups \cup Tags
    BY DEF CallsMade
  <1>2. GroupAsked(c) \in Groups /\ (c.of \in Groups => GroupAsked(c) = c.of)
    BY <1>1, GroupsAssumption DEF GroupAsked
  <1> QED BY <1>2 DEF CallsMade, Changing

LEMMA ListTagsFits ==
  ASSUME StoreTypes, NEW g \in Groups
  PROVE  /\ ListTags(g) \in Tables
         /\ \A t \in Tags : ListTags(g)[t] # None => GroupOf[t] = g
  BY DEF StoreTypes, ListTags, Tables, Row

(* A click that makes a call. *)
LEMMA MakeFacts ==
  ASSUME Core, NEW call \in CallsMade, Make(call)
  PROVE  /\ Core'
         /\ \E i \in Ids : /\ promise[i] = None
                           /\ promise' = [j \in Ids |-> IF j = i THEN call ELSE promise[j]]
         /\ UNCHANGED <<transportVars, storeVars, mountVars, excused>>
  <1> DEFINE i == NextId
  <1>1. /\ Turn({}, <<Request(i, call)>>) /\ FreeIds # {}
        /\ UNCHANGED <<fetched, toWeb, storeVars, mountVars, excused>>
    BY DEF Make, answerVars
  <1>2. /\ i \in Ids /\ promise[i] = None
        /\ i \notin IdsOf(toNative) \cup IdsOf(toWeb)
        /\ i \notin SetIds(http \cup running) \cup SetIds(fetched)
    BY <1>1, NextIdFree
  <1> HIDE DEF i
  <1>3. Fewer
    BY <1>1 DEF Fewer, Core, BridgeTypes, OneMessage
  <1>4. /\ Core' /\ UNCHANGED <<platform, injections>>
        /\ promise' = [j \in Ids |-> IF j = i THEN call ELSE promise[j]]
    BY <1>1, <1>2, <1>3, CoreAsks
  <1> QED BY <1>1, <1>2, <1>4 DEF transportVars

LEMMA SwitchFacts ==
  ASSUME Core, NEW g \in Groups \cup {None}, SwitchGroup(g)
  PROVE  /\ Core' /\ UNCHANGED transportVars
         /\ \/ g = None /\ promise' = promise
            \/ \E i \in Ids :
                 /\ g # None /\ promise[i] = None
                 /\ promise' = [j \in Ids |-> IF j = i THEN CallTo("ListTags", g, "load")
                                              ELSE promise[j]]
  <1>1. /\ Turn({}, IF g = None THEN <<>> ELSE <<Request(NextId, CallTo("ListTags", g, "load"))>>)
        /\ g # None => FreeIds # {}
        /\ UNCHANGED <<fetched, toWeb>>
    BY DEF SwitchGroup, answerVars
  <1>2. Fewer
    BY <1>1 DEF Fewer, Core, BridgeTypes, OneMessage
  <1>3. CASE g = None
    <2>1. /\ promise' = [j \in Ids |-> IF j \in {} THEN None ELSE promise[j]]
          /\ pending' \subseteq Ids
          /\ UNCHANGED <<platform, injections, toNative, http, running>>
      BY <1>1, <1>3, TurnNone DEF Core
    <2>2. promise' = promise
      BY <2>1 DEF Core, BridgeTypes
    <2>3. /\ platform' \in {"browser", "webview"} /\ injections' \in {0, 1}
          /\ promise' \in [Ids -> CallsMade \cup {None}]
      BY <2>1, <2>2 DEF Core, BridgeTypes
    <2>4. Core'
      BY <1>2, <2>1, <2>2, <2>3, CoreForgets, {} \in SUBSET Ids
    <2> QED BY <1>3, <2>1, <2>2, <2>4 DEF transportVars
  <1>4. CASE g # None
    <2> DEFINE i == NextId
               call == CallTo("ListTags", g, "load")
    <2>1. Turn({}, <<Request(i, call)>>)
      BY <1>1, <1>4
    <2>2. call \in CallsMade
      BY <1>4 DEF CallTo, CallsMade
    <2>3. /\ i \in Ids /\ promise[i] = None
          /\ i \notin IdsOf(toNative) \cup IdsOf(toWeb)
          /\ i \notin SetIds(http \cup running) \cup SetIds(fetched)
      BY <1>1, <1>4, NextIdFree
    <2> HIDE DEF i, call
    <2>4. i \notin IdsOf(toWeb') \cup SetIds(fetched') /\ {} \in SUBSET {i}
      BY <1>1, <2>3
    <2>5. /\ Core' /\ UNCHANGED <<platform, injections>>
          /\ promise' = [j \in Ids |-> IF j = i THEN call ELSE promise[j]]
      BY <1>2, <2>1, <2>2, <2>3, <2>4, CoreAsks
    <2> QED BY <1>4, <2>3, <2>5 DEF call, transportVars
  <1> QED BY <1>3, <1>4

(* The call that a continuation leaves under its id, if it makes one.      *)
NextCall(answer) ==
  IF promise[answer.id].method \in Changing /\ answer.ok
  THEN CallTo("ListTags", GroupAsked(promise[answer.id]), "load") ELSE None

(* An answer settles its promise, which may be that of the next call then. *)
LEMMA ContinueFacts ==
  ASSUME Core, NEW answer \in Answers, Continue(answer)
  PROVE  /\ Core' /\ UNCHANGED transportVars /\ Fits(promise, answer)
         /\ promise' = [j \in Ids |-> IF j = answer.id THEN NextCall(answer) ELSE promise[j]]
  <1> DEFINE i == answer.id
             call == promise[i]
             next == CallTo("ListTags", GroupAsked(call), "load")
  <1>1. Arrives(answer) /\ Turn({i}, Following(answer, call))
    BY DEF Continue
  <1>2. /\ Fewer /\ Fits(promise, answer) /\ i \in Ids
        /\ i \notin IdsOf(toNative) \cup SetIds(http \cup running)
        /\ i \notin IdsOf(toWeb') \cup SetIds(fetched')
    BY <1>1, ArrivesFacts
  <1>3. call \in CallsMade
    BY <1>2 DEF Fits
  <1>4. CASE call.method \in Changing /\ answer.ok
    <2>1. Turn({i}, <<Request(i, next)>>)
      BY <1>1, <1>4 DEF Following
    <2>2. next \in CallsMade
      BY <1>3, CallTypes DEF CallTo, CallsMade
    <2> HIDE DEF next, call, i
    <2>3. /\ Core' /\ UNCHANGED <<platform, injections>>
          /\ promise' = [j \in Ids |-> IF j = i THEN next ELSE promise[j]]
      BY <1>2, <2>1, <2>2, CoreAsks, {i} \in SUBSET {i}
    <2>4. NextCall(answer) = next
      BY <1>4 DEF NextCall, next, call, i
    <2> QED BY <1>2, <2>3, <2>4 DEF i, transportVars
  <1>5. CASE ~(call.method \in Changing /\ answer.ok)
    <2>1. Turn({i}, <<>>)
      BY <1>1, <1>5 DEF Following
    <2>2. /\ promise' = [j \in Ids |-> IF j \in {i} THEN None ELSE promise[j]]
          /\ pending' \subseteq Ids
          /\ UNCHANGED <<platform, injections, toNative, http, running>>
      BY <2>1, TurnNone DEF Core
    <2>3. /\ platform' \in {"browser", "webview"} /\ injections' \in {0, 1}
          /\ promise' \in [Ids -> CallsMade \cup {None}]
          /\ \A j \in Ids \ {i} : promise'[j] = promise[j]
      BY <2>2 DEF Core, BridgeTypes
    <2>4. Core'
      <3> HIDE DEF i, call
      <3>1. /\ {i} \in SUBSET Ids
            /\ {i} \cap (IdsOf(toNative) \cup SetIds(http \cup running)) = {}
            /\ {i} \cap (IdsOf(toWeb') \cup SetIds(fetched')) = {}
        BY <1>2
      <3> QED BY <1>2, <2>2, <2>3, <3>1, CoreForgets
    <2>5. NextCall(answer) = None
      BY <1>5 DEF NextCall
    <2> QED BY <1>2, <2>2, <2>4, <2>5 DEF transportVars
  <1> QED BY <1>4, <1>5

(* What arrives is an answer, not an event. *)
LEMMA AnsweringFacts ==
  ASSUME Core, Answering
  PROVE  \E answer \in Answers : Continue(answer)
  <1>1. PICK answer \in fetched \cup {toWeb[k] : k \in DOMAIN toWeb} : Continue(answer)
    BY DEF Answering
  <1>2. Arrives(answer)
    BY <1>1 DEF Continue
  <1>3. CASE answer \in fetched
    BY <1>1, <1>3 DEF Core, BridgeTypes
  <1>4. CASE answer = Head(toWeb) /\ toWeb # <<>> /\ answer.id \in pending
    <2>1. answer \in Scripts
      BY <1>4 DEF Core, BridgeTypes
    <2>2. answer.id # None
      BY <1>4, NoneIsNoId DEF Core, BridgeTypes
    <2> QED BY <1>1, <2>1, <2>2 DEF Scripts, Pushes
  <1> QED BY <1>2, <1>3, <1>4 DEF Arrives

LEMMA HandlingFacts ==
  ASSUME Core, StoreTypes, Handling
  PROVE  /\ Core' /\ StoreTypes' /\ UNCHANGED <<transportVars, promise, handler, HostVars>>
         /\ excused' \subseteq excused \cup Tags
  <1>1. PICK m \in http \cup {toNative[k] : k \in DOMAIN toNative} : Handle(m)
    BY DEF Handling
  <1>2. m \in Requests
    BY DEF Core, BridgeTypes
  <1> DEFINE c == m.call
  <1>3. c \in CallsMade
    BY <1>2 DEF Requests
  <1>4. Refused \in [ok : BOOLEAN, data : {None}] /\ Done(None) \in [ok : BOOLEAN, data : {None}]
    BY DEF Refused, Done
  <1>5. c.method \notin {"ListTags", "GetTagHistory"} =>
          Returns(c, Refused) /\ Returns(c, Done(None))
    BY <1>4 DEF Returns
  <1>6. UNCHANGED HostVars
    BY <1>1 DEF Handle
  <1>7. excused' \subseteq excused \cup Tags
    <2>1. CASE UpdateTag(m)
      BY <1>3, <2>1, CallTypes DEF UpdateTag
    <2>2. CASE UNCHANGED excused
      BY <2>2
    <2> QED BY <1>1, <2>1, <2>2 DEF Handle
  <1>8. CASE Query(m)
    <2>1. \E result : Returns(c, result) /\ HandleInvoke(m, result)
      <3>1. CASE c.method = "ListTags" /\ HandleInvoke(m, Done(ListTags(c.of)))
        <4>1. c.of \in Groups
          BY <1>3, <3>1, CallTypes
        <4>2. Done(ListTags(c.of)) \in [ok : BOOLEAN, data : {ListTags(c.of)}]
          BY DEF Done
        <4>3. Returns(c, Done(ListTags(c.of)))
          BY <3>1, <4>1, <4>2, ListTagsFits DEF Returns
        <4> QED BY <3>1, <4>3
      <3>2. CASE c.method = "GetTagHistory" /\ HandleInvoke(m, Done(c.arg))
        <4>1. c.arg \in Names
          BY <1>3, <3>2, CallTypes
        <4>2. Done(c.arg) \in [ok : BOOLEAN, data : {c.arg}]
          BY DEF Done
        <4>3. Returns(c, Done(c.arg))
          BY <3>2, <4>1, <4>2 DEF Returns
        <4> QED BY <3>2, <4>3
      <3>3. CASE c.method \in {"AddTag", "UpdateTag", "WriteTag"} /\ HandleInvoke(m, Refused)
        BY <1>5, <3>3
      <3> QED BY <1>8, <3>1, <3>2, <3>3 DEF Query
    <2>2. UNCHANGED storeVars
      BY <1>8 DEF Query
    <2> QED BY <1>2, <1>6, <1>7, <2>1, <2>2, CoreHandles DEF StoreTypes, storeVars
  <1>9. CASE AddTag(m)
    <2>1. StoreTypes'
      BY <1>3, <1>9, CallTypes, NamesAssumption DEF AddTag, StoreTypes
    <2>2. Core' /\ UNCHANGED <<transportVars, promise, handler>>
      BY <1>2, <1>5, <1>9, CoreHandles DEF AddTag
    <2> QED BY <1>6, <1>7, <2>1, <2>2
  <1>10. CASE RemoveTag(m)
    <2>1. StoreTypes'
      BY <1>3, <1>10, CallTypes DEF RemoveTag, StoreTypes
    <2>2. Core' /\ UNCHANGED <<transportVars, promise, handler>>
      BY <1>2, <1>5, <1>10, CoreHandles DEF RemoveTag
    <2> QED BY <1>6, <1>7, <2>1, <2>2
  <1>11. CASE UpdateTag(m)
    <2>1. StoreTypes'
      BY <1>3, <1>11, CallTypes DEF UpdateTag, StoreTypes
    <2>2. Core' /\ UNCHANGED <<transportVars, promise, handler>>
      BY <1>2, <1>5, <1>11, CoreHandles DEF UpdateTag
    <2> QED BY <1>6, <1>7, <2>1, <2>2
  <1>12. CASE BeginWrite(m)
    BY <1>2, <1>6, <1>7, <1>12, CoreBegins DEF BeginWrite, StoreTypes, storeVars
  <1> QED BY <1>1, <1>8, <1>9, <1>10, <1>11, <1>12 DEF Handle

(* An event is posted to the page. *)
LEMMA PublishFacts ==
  ASSUME Core, StoreTypes, Publishing
  PROVE  /\ Core' /\ StoreTypes' /\ UNCHANGED <<transportVars, promise, handler, HostVars>>
         /\ excused' \subseteq excused \cup Tags
  <1>1. PICK k \in DOMAIN raised : PublishEvent(k)
    BY DEF Publishing
  <1> DEFINE push == [id |-> None, ok |-> TRUE, data |-> raised[k]]
  <1>2. raised \in Seq(Event) /\ raised[k] \in Event /\ raised[k].tag \in Tags
    <2>1. raised \in Seq(Event)
      BY DEF StoreTypes
    <2>2. raised[k] \in Event
      BY <2>1
    <2> QED BY <2>1, <2>2 DEF Event
  <1>3. raised' \in Seq(Event)
    BY <1>1, <1>2 DEF PublishEvent
  <1>4. push \in Scripts /\ push.id = None
    BY <1>2 DEF Scripts, Pushes
  <1>5. toWeb' = Append(toWeb, push)
        /\ UNCHANGED <<transportVars, promise, pending, handler, toNative, http, running, fetched>>
    BY <1>1 DEF PublishEvent, nativeVars
  <1> HIDE DEF push
  <1>6. toWeb \in Seq(Scripts) /\ Distinct(toWeb)
    BY DEF Core, BridgeTypes, OneMessage
  <1>7. /\ toWeb' \in Seq(Scripts) /\ IdsOf(toWeb') = IdsOf(toWeb) \cup {None} /\ Distinct(toWeb')
        /\ \A l \in DOMAIN toWeb' :
             (\E j \in DOMAIN toWeb : toWeb'[l] = toWeb[j]) \/ toWeb'[l].id = None
    BY <1>4, <1>5, <1>6, IdsOfAppend
  <1>8. BridgeTypes'
    BY <1>5, <1>7 DEF Core, BridgeTypes, transportVars
  <1>9. OneMessage'
    <2>1. None \notin IdsOf(toNative) \cup SetIds(http \cup running) \cup SetIds(fetched)
      BY IdsTyped, NoneIsNoId DEF Core
    <2>2. Apart(IdsOf(toNative'), IdsOf(toWeb'), SetIds(http' \cup running'), SetIds(fetched'))
      BY <1>5, <1>7, <2>1, ApartAfter DEF Core
    <2> QED BY <1>5, <1>7, <2>2 DEF Core, OneMessage
  <1>10. Matching'
    BY <1>5, <1>7 DEF Core, Matching
  <1>11. UNCHANGED <<name, value, HostVars>> /\ excused' \subseteq excused \cup Tags
    BY <1>1, <1>2 DEF PublishEvent
  <1> QED BY <1>3, <1>5, <1>8, <1>9, <1>10, <1>11 DEF Core, StoreTypes

(* An event is run in the page: the answers behind it stay. *)
LEMMA ReceiveEventFacts ==
  ASSUME Core, ReceiveEvent
  PROVE  /\ Core' /\ UNCHANGED <<transportVars, promise>>
         /\ Head(toWeb).data \in Event
  <1>1. toWeb # <<>> /\ Head(toWeb).id = None /\ toWeb' = Tail(toWeb)
        /\ UNCHANGED <<transportVars, promise, pending, nativeVars, fetched>>
    BY DEF ReceiveEvent
  <1>2. toWeb \in Seq(Scripts) /\ Distinct(toWeb)
    BY DEF Core, BridgeTypes, OneMessage
  <1>3. Head(toWeb) \in Pushes
    <2>1. Head(toWeb) \in Scripts
      BY <1>1, <1>2
    <2> QED BY <1>1, <2>1, NoneIsNoId DEF Scripts, Answers
  <1>4. Fewer
    <2>1. toWeb' \in Seq(Scripts)
      BY <1>1, <1>2
    <2> QED BY <1>1, <1>2, <2>1, IdsOfTail DEF Fewer
  <1>5. /\ platform' \in {"browser", "webview"} /\ injections' \in {0, 1} /\ pending' \subseteq Ids
        /\ UNCHANGED <<toNative, http, running>>
        /\ promise' \in [Ids -> CallsMade \cup {None}]
        /\ \A j \in Ids \ {} : promise'[j] = promise[j]
    BY <1>1 DEF Core, BridgeTypes, transportVars, nativeVars
  <1>6. Core'
    BY <1>4, <1>5, CoreForgets, {} \in SUBSET Ids
  <1> QED BY <1>1, <1>3, <1>6 DEF Pushes

LEMMA InjectFacts ==
  ASSUME Core, InjectBridge
  PROVE  /\ Core' /\ UNCHANGED promise
         /\ injections > 0 /\ injections' = injections - 1
         /\ platform' = "webview" /\ handler' = None
  <1>1. Fewer
    BY DEF InjectBridge, Fewer, Core, BridgeTypes, OneMessage, answerVars
  <1>2. /\ platform' \in {"browser", "webview"} /\ injections' \in {0, 1} /\ pending' \subseteq Ids
        /\ UNCHANGED <<toNative, http, running>>
        /\ promise' \in [Ids -> CallsMade \cup {None}]
        /\ \A j \in Ids \ {} : promise'[j] = promise[j]
    BY DEF InjectBridge, Core, BridgeTypes, nativeVars
  <1>3. Core'
    BY <1>1, <1>2, CoreForgets, {} \in SUBSET Ids
  <1> QED BY <1>3 DEF InjectBridge

LEMMA CoreStutters == ASSUME Core, UNCHANGED bridgeVars PROVE Core'
  BY DEF Core, BridgeTypes, OneMessage, Matching, bridgeVars, transportVars, nativeVars, answerVars

-----------------------------------------------------------------------------
(* The calls of the mounted table after a step *)

(* A step that leaves the promises of the mounted table alone.             *)
SameCalls ==
  /\ group' = group
  /\ \A j \in Ids : /\ Mine(j)' <=> Mine(j)
                    /\ Mine(j) => promise'[j] = promise[j]
  /\ \A j \in orphans' : promise'[j] # None

LEMMA ViewStays ==
  ASSUME View, SameCalls, UNCHANGED <<rows, loading, refreshing, historyLoading, writing>>,
         DialogOfTable'
  PROVE  View'
  <1>1. CallsOfTable'
    BY DEF View, CallsOfTable, SameCalls
  <1>2. RowsOfGroup'
    BY DEF View, RowsOfGroup, SameCalls
  <1>3. Spinners'
    BY DEF View, Spinners, SameCalls, Writes
  <1>4. OneWrite'
    BY DEF View, OneWrite, SameCalls, Writes
  <1> QED BY <1>1, <1>2, <1>3, <1>4 DEF View

(* A click that makes a call: what it does to the flags.                   *)
LEMMA ViewMakes ==
  ASSUME Core, ViewTypes, View, NEW call \in CallsMade, Make(call), GroupAsked(call) = group,
         rows' = rows, DialogOfTable',
         loading' => loading \/ (call.method = "ListTags" /\ call.of = group),
         refreshing' => refreshing \/ call = CallTo("ListTags", group, "refresh"),
         historyLoading' => historyLoading \/ (call.method = "GetTagHistory" /\ call.of = group),
         writing' = IF call.method = "WriteTag" THEN writing \cup {call.of} ELSE writing,
         call.method = "WriteTag" => call.of \notin writing
  PROVE  View'
  <1>1. PICK i \in Ids : /\ promise[i] = None
                         /\ promise' = [j \in Ids |-> IF j = i THEN call ELSE promise[j]]
    BY MakeFacts
  <1>2. UNCHANGED <<group, orphans>>
    BY MakeFacts DEF mountVars
  <1>3. /\ promise'[i] = call /\ ~Mine(i) /\ Mine(i)'
        /\ \A j \in Ids \ {i} : promise'[j] = promise[j] /\ (Mine(j)' <=> Mine(j))
    BY <1>1, <1>2, NoneIsNoCall DEF Mine, View, CallsOfTable
  <1>4. CallsOfTable'
    <2>1. \A j \in Ids : Mine(j)' => GroupAsked(promise'[j]) = group'
      BY <1>2, <1>3 DEF View, CallsOfTable
    <2>2. \A j \in orphans' : promise'[j] # None
      BY <1>1, <1>2, NoneIsNoCall DEF View, CallsOfTable, ViewTypes
    <2> QED BY <2>1, <2>2 DEF CallsOfTable
  <1>5. RowsOfGroup'
    BY <1>2 DEF View, RowsOfGroup
  <1>6. Spinners'
    <2>1. loading' => \E j \in Ids : Mine(j)' /\ promise'[j].method = "ListTags"
                                     /\ promise'[j].of = group'
      BY <1>2, <1>3 DEF View, Spinners
    <2>2. refreshing' =>
            \E j \in Ids : Mine(j)' /\ promise'[j] = CallTo("ListTags", group', "refresh")
      BY <1>2, <1>3 DEF View, Spinners
    <2>3. historyLoading' => \E j \in Ids : Mine(j)' /\ promise'[j].method = "GetTagHistory"
                                            /\ promise'[j].of = group'
      BY <1>2, <1>3 DEF View, Spinners
    <2>4. \A t \in writing' : \E j \in Ids : Writes(j, t)'
      BY <1>2, <1>3 DEF View, Spinners, Writes
    <2> QED BY <2>1, <2>2, <2>3, <2>4 DEF Spinners
  <1>7. OneWrite'
    BY <1>2, <1>3 DEF View, OneWrite, Writes
  <1> QED BY <1>4, <1>5, <1>6, <1>7 DEF View

LEMMA ViewSwitches ==
  ASSUME Core, NEW g \in Groups \cup {None}, SwitchGroup(g)
  PROVE  View'
  <1>1. /\ group' = g /\ orphans' = {i \in Ids : promise[i] # None}
        /\ rows' = NoTags /\ writing' = {} /\ loading' = (g # None)
        /\ refreshing' = FALSE /\ historyLoading' = FALSE /\ dialog' = Closed
    BY DEF SwitchGroup, Unmounted
  <1>2. DialogOfTable'
    BY <1>1 DEF DialogOfTable, Closed
  <1>3. RowsOfGroup'
    BY <1>1 DEF RowsOfGroup, NoTags
  <1>4. CASE g = None /\ promise' = promise
    <2>1. \A j \in Ids : ~Mine(j)'
      BY <1>1, <1>4 DEF Mine
    <2> QED BY <1>1, <1>2, <1>3, <1>4, <2>1 DEF View, CallsOfTable, Spinners, OneWrite, Writes
  <1>5. ASSUME NEW i \in Ids, g # None, promise[i] = None,
               promise' = [j \in Ids |-> IF j = i THEN CallTo("ListTags", g, "load")
                                         ELSE promise[j]]
        PROVE  View'
    <2> DEFINE call == CallTo("ListTags", g, "load")
    <2>1. call \in CallsMade /\ call.method = "ListTags" /\ call.of = g
      BY <1>5 DEF CallTo, CallsMade
    <2>2. GroupAsked(call) = g
      BY <1>5, <2>1, CallTypes
    <2>3. promise'[i] = call /\ \A j \in Ids \ {i} : promise'[j] = promise[j]
      BY <1>5
    <2> HIDE DEF call
    <2>4. Mine(i)' /\ \A j \in Ids : Mine(j)' => j = i
      BY <1>1, <1>5, <2>1, <2>3, NoneIsNoCall DEF Mine
    <2>5. CallsOfTable'
      BY <1>1, <1>5, <2>2, <2>3, <2>4 DEF CallsOfTable
    <2>6. Spinners'
      BY <1>1, <2>1, <2>3, <2>4 DEF Spinners
    <2>7. OneWrite'
      BY <2>1, <2>3, <2>4 DEF OneWrite, Writes
    <2> QED BY <1>2, <1>3, <2>5, <2>6, <2>7 DEF View
  <1> QED BY <1>4, <1>5, SwitchFacts

(* What awaits an answer goes on, in the mounted table or in an old one.   *)
LEMMA ViewContinues ==
  ASSUME Core, ViewTypes, View, NEW answer \in Answers, Continue(answer)
  PROVE  View'
  <1> DEFINE i == answer.id
             call == promise[i]
  <1>1. /\ Fits(promise, answer) /\ i \in Ids
        /\ promise' = [j \in Ids |-> IF j = i THEN NextCall(answer) ELSE promise[j]]
    BY ContinueFacts DEF Answers
  <1>2. call \in CallsMade /\ call # None
    BY <1>1, NoneIsNoCall DEF Fits
  <1>3. group' = group
    BY DEF Continue
  <1>4. promise'[i] = NextCall(answer) /\ \A j \in Ids \ {i} : promise'[j] = promise[j]
    BY <1>1
  <1>5. CASE i \in orphans
    <2>1. /\ orphans' = IF Following(answer, call) = <<>> THEN orphans \ {i} ELSE orphans
          /\ UNCHANGED viewVars
      BY <1>5 DEF Continue
    <2>2. CASE call.method \in Changing /\ answer.ok
      <3> DEFINE next == CallTo("ListTags", GroupAsked(call), "load")
      <3>1. Following(answer, call) # <<>> /\ NextCall(answer) = next
        BY <2>2 DEF Following, NextCall
      <3>2. next # None
        BY <1>2, CallTypes, NoneIsNoCall DEF CallTo, CallsMade
      <3> HIDE DEF next
      <3>3. SameCalls
        BY <1>3, <1>4, <1>5, <2>1, <3>1, <3>2 DEF SameCalls, Mine, View, CallsOfTable, ViewTypes
      <3> QED BY <1>3, <2>1, <3>3, ViewStays DEF View, DialogOfTable, viewVars
    <2>3. CASE ~(call.method \in Changing /\ answer.ok)
      <3>1. Following(answer, call) = <<>> /\ NextCall(answer) = None
        BY <2>3 DEF Following, NextCall
      <3>2. SameCalls
        BY <1>3, <1>4, <1>5, <2>1, <3>1 DEF SameCalls, Mine, View, CallsOfTable, ViewTypes
      <3> QED BY <1>3, <2>1, <3>2, ViewStays DEF View, DialogOfTable, viewVars
    <2> QED BY <2>2, <2>3
  <1>6. CASE i \notin orphans
    <2>1. /\ \/ call.method = "ListTags" /\ TagsLoaded(answer, call.arg)
             \/ call.method = "WriteTag" /\ TagWritten(answer, call.of)
             \/ call.method = "GetTagHistory" /\ HistoryLoaded(answer)
             \/ call.method \in Changing /\ TagChanged(answer, call)
          /\ orphans' = orphans
      BY <1>6 DEF Continue
    <2>2. GroupAsked(call) = group
      BY <1>1, <1>2, <1>6 DEF View, CallsOfTable, Mine
    <2>3. \A j \in Ids \ {i} : promise'[j] = promise[j] /\ (Mine(j)' <=> Mine(j))
      BY <1>4, <2>1 DEF Mine
    <2>4. \A j \in orphans' : promise'[j] # None
      BY <1>4, <1>6, <2>1 DEF View, CallsOfTable, ViewTypes
    <2>5. CASE call.method \in Changing /\ answer.ok
      <3> DEFINE next == CallTo("ListTags", group, "load")
      <3>1. promise'[i] = next /\ group \in Groups
        BY <1>2, <1>4, <2>2, <2>5, CallTypes DEF NextCall
      <3>2. next \in CallsMade /\ next.method = "ListTags" /\ next.of = group
        BY <3>1 DEF CallTo, CallsMade
      <3>3. GroupAsked(next) = group
        BY <3>1, <3>2, CallTypes
      <3> HIDE DEF next
      <3>4. /\ loading' = TRUE /\ dialog' \in {dialog, Closed}
            /\ UNCHANGED <<rows, writing, refreshing, historyLoading>>
        BY <2>1, <2>5 DEF TagChanged, Changing
      <3>5. Mine(i)'
        BY <1>1, <1>6, <2>1, <3>1, <3>2, NoneIsNoCall DEF Mine
      <3>6. \A j \in Ids : Mine(j)' => GroupAsked(promise'[j]) = group'
        BY <1>3, <2>3, <3>1, <3>3 DEF View, CallsOfTable
      <3>7. CallsOfTable'
        BY <2>4, <3>6 DEF CallsOfTable
      <3>8. DialogOfTable'
        BY <1>3, <3>4 DEF View, DialogOfTable, Closed
      <3>9. RowsOfGroup'
        BY <1>3, <3>4 DEF View, RowsOfGroup
      <3>10. Spinners'
        <4>1. call.method \notin {"ListTags", "GetTagHistory", "WriteTag"}
          BY <2>5 DEF Changing
        <4>2. call # CallTo("ListTags", group, "refresh")
          BY <4>1 DEF CallTo
        <4>3. \E j \in Ids : Mine(j)' /\ promise'[j].method = "ListTags" /\ promise'[j].of = group'
          BY <1>1, <1>3, <3>1, <3>2, <3>5
        <4>4. refreshing' =>
                \E j \in Ids : Mine(j)' /\ promise'[j] = CallTo("ListTags", group', "refresh")
          BY <1>3, <2>3, <3>4, <4>2 DEF View, Spinners
        <4>5. historyLoading' => \E j \in Ids : Mine(j)' /\ promise'[j].method = "GetTagHistory"
                                                /\ promise'[j].of = group'
          BY <1>3, <2>3, <3>4, <4>1 DEF View, Spinners
        <4>6. \A t \in writing' : \E j \in Ids : Writes(j, t)'
          BY <2>3, <3>4, <4>1 DEF View, Spinners, Writes
        <4> QED BY <4>3, <4>4, <4>5, <4>6 DEF Spinners
      <3>11. OneWrite'
        BY <2>3, <3>1, <3>2, <3>4 DEF View, OneWrite, Writes
      <3> QED BY <3>7, <3>8, <3>9, <3>10, <3>11 DEF View
    <2>6. CASE ~(call.method \in Changing /\ answer.ok)
      <3>1. ~Mine(i)' /\ promise'[i] = None
        BY <1>4, <2>6 DEF NextCall, Mine
      <3>2. CallsOfTable'
        BY <1>3, <2>3, <2>4, <3>1 DEF View, CallsOfTable
      <3> HIDE DEF call
      <3>3. CASE call.method = "ListTags" /\ TagsLoaded(answer, call.arg)
        <4>1. /\ rows' = answer.data /\ loading' = FALSE
              /\ refreshing' = (refreshing /\ call.arg # "refresh")
              /\ UNCHANGED <<writing, historyLoading, dialog>>
          BY <3>3 DEF TagsLoaded
        <4>2. call.of = group
          BY <1>2, <2>2, <3>3, CallTypes
        <4>3. RowsOfGroup'
          BY <1>1, <1>3, <3>3, <4>1, <4>2 DEF Fits, RowsOfGroup, call
        <4>4. Spinners'
          <5>1. refreshing' =>
                  \E j \in Ids : Mine(j)' /\ promise'[j] = CallTo("ListTags", group', "refresh")
            <6> SUFFICES ASSUME refreshing'
                         PROVE  \E j \in Ids :
                                  Mine(j)' /\ promise'[j] = CallTo("ListTags", group', "refresh")
              OBVIOUS
            <6>1. refreshing /\ call.arg # "refresh"
              BY <4>1
            <6>2. PICK w \in Ids : Mine(w) /\ promise[w] = CallTo("ListTags", group, "refresh")
              BY <6>1 DEF View, Spinners
            <6>3. w # i
              BY <6>1, <6>2 DEF CallTo, call
            <6> QED BY <1>3, <2>3, <6>2, <6>3
          <5>2. historyLoading' =>
                  \E j \in Ids : Mine(j)' /\ promise'[j].method = "GetTagHistory"
                                 /\ promise'[j].of = group'
            BY <1>3, <2>3, <3>3, <4>1 DEF View, Spinners, call
          <5>3. \A t \in writing' : \E j \in Ids : Writes(j, t)'
            BY <2>3, <3>3, <4>1 DEF View, Spinners, Writes, call
          <5> QED BY <4>1, <5>1, <5>2, <5>3 DEF Spinners
        <4>5. DialogOfTable' /\ OneWrite'
          BY <1>3, <2>3, <3>1, <4>1 DEF View, DialogOfTable, OneWrite, Writes
        <4> QED BY <3>2, <4>3, <4>4, <4>5 DEF View
      <3>4. CASE call.method = "WriteTag" /\ TagWritten(answer, call.of)
        <4>1. /\ writing' = writing \ {call.of}
              /\ UNCHANGED <<rows, loading, refreshing, historyLoading, dialog>>
          BY <3>4 DEF TagWritten
        <4>2. RowsOfGroup' /\ DialogOfTable'
          BY <1>3, <4>1 DEF View, RowsOfGroup, DialogOfTable
        <4>3. Spinners'
          <5>1. loading' => \E j \in Ids : Mine(j)' /\ promise'[j].method = "ListTags"
                                           /\ promise'[j].of = group'
            BY <1>3, <2>3, <3>4, <4>1 DEF View, Spinners, call
          <5>2. refreshing' =>
                  \E j \in Ids : Mine(j)' /\ promise'[j] = CallTo("ListTags", group', "refresh")
            BY <1>3, <2>3, <3>4, <4>1 DEF View, Spinners, CallTo, call
          <5>3. historyLoading' =>
                  \E j \in Ids : Mine(j)' /\ promise'[j].method = "GetTagHistory"
                                 /\ promise'[j].of = group'
            BY <1>3, <2>3, <3>4, <4>1 DEF View, Spinners, call
          <5>4. \A t \in writing' : \E j \in Ids : Writes(j, t)'
            BY <2>3, <3>4, <4>1 DEF View, Spinners, Writes, call
          <5> QED BY <5>1, <5>2, <5>3, <5>4 DEF Spinners
        <4>4. OneWrite'
          <5>1. Writes(i, call.of) /\ call.of \in Tags
            BY <1>1, <1>2, <1>6, <3>4, CallTypes DEF Writes, Mine, call
          <5>2. \A t \in Tags, j \in Ids : Writes(j, t)' => Writes(j, t) /\ j # i
            BY <2>3, <3>1 DEF Writes
          <5> QED BY <1>1, <4>1, <5>1, <5>2 DEF View, OneWrite
        <4> QED BY <3>2, <4>2, <4>3, <4>4 DEF View
      <3>5. CASE call.method = "GetTagHistory" /\ HistoryLoaded(answer)
        <4>1. historyLoading' = FALSE /\ UNCHANGED <<rows, writing, loading, refreshing, dialog>>
          BY <3>5 DEF HistoryLoaded
        <4>2. RowsOfGroup' /\ DialogOfTable' /\ OneWrite'
          BY <1>3, <2>3, <3>1, <4>1 DEF View, RowsOfGroup, DialogOfTable, OneWrite, Writes
        <4>3. loading' => \E j \in Ids : Mine(j)' /\ promise'[j].method = "ListTags"
                                         /\ promise'[j].of = group'
          BY <1>3, <2>3, <3>5, <4>1 DEF View, Spinners, call
        <4>4. refreshing' =>
                \E j \in Ids : Mine(j)' /\ promise'[j] = CallTo("ListTags", group', "refresh")
          BY <1>3, <2>3, <3>5, <4>1 DEF View, Spinners, CallTo, call
        <4>5. \A t \in writing' : \E j \in Ids : Writes(j, t)'
          BY <2>3, <3>5, <4>1 DEF View, Spinners, Writes, call
        <4> QED BY <3>2, <4>1, <4>2, <4>3, <4>4, <4>5 DEF View, Spinners
      <3>6. CASE call.method \in Changing /\ TagChanged(answer, call)
        <4>1. UNCHANGED viewVars
          BY <2>6, <3>6 DEF TagChanged
        <4>2. call.method \notin {"ListTags", "GetTagHistory", "WriteTag"}
          BY <3>6 DEF Changing
        <4>3. RowsOfGroup' /\ DialogOfTable' /\ OneWrite'
          BY <1>3, <2>3, <3>1, <4>1
             DEF View, RowsOfGroup, DialogOfTable, OneWrite, Writes, viewVars
        <4>4. loading' => \E j \in Ids : Mine(j)' /\ promise'[j].method = "ListTags"
                                         /\ promise'[j].of = group'
          BY <1>3, <2>3, <4>1, <4>2 DEF View, Spinners, viewVars, call
        <4>5. refreshing' =>
                \E j \in Ids : Mine(j)' /\ promise'[j] = CallTo("ListTags", group', "refresh")
          BY <1>3, <2>3, <4>1, <4>2 DEF View, Spinners, CallTo, viewVars, call
        <4>6. historyLoading' => \E j \in Ids : Mine(j)' /\ promise'[j].method = "GetTagHistory"
                                                /\ promise'[j].of = group'
          BY <1>3, <2>3, <4>1, <4>2 DEF View, Spinners, viewVars, call
        <4>7. \A t \in writing' : \E j \in Ids : Writes(j, t)'
          BY <2>3, <4>1, <4>2 DEF View, Spinners, Writes, viewVars, call
        <4> QED BY <3>2, <4>3, <4>4, <4>5, <4>6, <4>7 DEF View, Spinners
      <3> QED BY <2>1, <3>3, <3>4, <3>5, <3>6 DEF call
    <2> QED BY <2>5, <2>6
  <1> QED BY <1>5, <1>6

-----------------------------------------------------------------------------
(* The invariant *)

Page == ViewTypes /\ Injection /\ ListenerIsMounted /\ View

LEMMA PageStutters ==
  ASSUME Core, Page,
         UNCHANGED <<transportVars, promise, handler, HostVars>>,
         excused' \subseteq excused \cup Tags
  PROVE  Page'
  <1>1. UNCHANGED <<viewVars, group, orphans, clean, handler, platform, injections, promise>>
    BY DEF HostVars, transportVars
  <1>2. ViewTypes'
    BY <1>1 DEF Page, ViewTypes, viewVars
  <1>3. Injection' /\ ListenerIsMounted'
    BY <1>1 DEF Page, Injection, ListenerIsMounted
  <1>4. View'
    <2>1. SameCalls
      BY <1>1 DEF Page, View, SameCalls, Mine, CallsOfTable
    <2>2. DialogOfTable'
      BY <1>1 DEF Page, View, DialogOfTable, viewVars
    <2> QED BY <1>1, <2>1, <2>2, ViewStays DEF Page, viewVars
  <1> QED BY <1>2, <1>3, <1>4 DEF Page

LEMMA PageSwitches ==
  ASSUME Core, Page, NEW g \in Groups \cup {None}, SwitchGroup(g)
  PROVE  Page'
  <1>1. UNCHANGED <<platform, injections>>
    BY SwitchFacts DEF transportVars
  <1>2. /\ group' = g /\ orphans' = {i \in Ids : promise[i] # None}
        /\ handler' = IF g = None THEN Off ELSE On(g)
        /\ rows' = NoTags /\ editing' = NoTags /\ writing' = {} /\ loading' = (g # None)
        /\ refreshing' = FALSE /\ historyLoading' = FALSE /\ dialog' = Closed /\ records' = None
        /\ clean' = (platform = "webview" /\ \A m \in http \cup running : m.web)
        /\ excused' \subseteq excused
    BY DEF SwitchGroup, Unmounted
  <1>3. platform = "browser" => handler' = handler /\ clean' = FALSE
    BY <1>2 DEF On, Off
  <1>4. platform = "webview" => handler' = g
    BY <1>2 DEF On, Off
  <1>5. platform \in {"browser", "webview"} /\ clean' \in BOOLEAN
    BY <1>2 DEF Core, BridgeTypes
  <1>6. Injection' /\ ListenerIsMounted'
    BY <1>1, <1>2, <1>3, <1>4, <1>5 DEF Page, Injection, ListenerIsMounted
  <1>7. ViewTypes'
    <2>1. handler' \in Groups \cup {None}
      BY <1>3, <1>4, <1>5 DEF Page, ViewTypes
    <2>2. rows' \in Tables /\ editing' \in [Tags -> {None, Default, Typed}] /\ loading' \in BOOLEAN
      BY <1>2 DEF NoTags, Tables
    <2> QED BY <1>2, <1>5, <2>1, <2>2 DEF Page, ViewTypes
  <1> QED BY <1>6, <1>7, ViewSwitches DEF Page

(* A dialog opens or closes, or something is typed. *)
LEMMA PageClicks ==
  ASSUME Core, Page, OpenSome \/ CloseDialog \/ (\E t \in Tags, v \in {Default, Typed} : Type(t, v))
  PROVE  Page' /\ UNCHANGED <<bridgeVars, storeVars>>
  <1>1. /\ UNCHANGED <<bridgeVars, storeVars, group, orphans, clean, excused>>
        /\ UNCHANGED <<rows, writing, loading, refreshing, historyLoading, records>>
    BY DEF OpenSome, OpenDialog, CloseDialog, Type, Click
  <1>2. UNCHANGED <<platform, injections, promise, handler>>
    BY <1>1 DEF bridgeVars, transportVars
  <1>3. Injection' /\ ListenerIsMounted'
    BY <1>1, <1>2 DEF Page, Injection, ListenerIsMounted
  <1>4. /\ dialog' \in ({"add"} \X {None}) \cup ({"edit", "remove"} \X Tags)
                       \cup ({"history"} \X Names) \cup {Closed}
        /\ DialogOfTable'
    <2>1. CASE OpenDialog(<<"add", None>>)
      BY <1>1, <2>1 DEF OpenDialog, AtTable, DialogOfTable
    <2>2. ASSUME NEW t \in Tags, rows[t] # None,
                 OpenDialog(<<"edit", t>>) \/ OpenDialog(<<"remove", t>>)
          PROVE  /\ dialog' \in ({"add"} \X {None}) \cup ({"edit", "remove"} \X Tags)
                                \cup ({"history"} \X Names) \cup {Closed}
                 /\ DialogOfTable'
      BY <1>1, <2>2 DEF OpenDialog, AtTable, DialogOfTable, Page, View, RowsOfGroup
    <2>3. CASE CloseDialog
      BY <1>1, <2>3 DEF CloseDialog, DialogOfTable, Closed
    <2>4. CASE UNCHANGED dialog
      BY <1>1, <2>4 DEF DialogOfTable, Page, View, ViewTypes
    <2> QED BY <2>1, <2>2, <2>3, <2>4 DEF OpenSome, Type
  <1>5. editing' \in [Tags -> {None, Default, Typed}]
    BY DEF OpenSome, OpenDialog, CloseDialog, Type, Page, ViewTypes
  <1>6. ViewTypes'
    BY <1>1, <1>2, <1>4, <1>5 DEF Page, ViewTypes
  <1>7. SameCalls
    BY <1>1, <1>2 DEF Page, View, SameCalls, Mine, CallsOfTable
  <1> QED BY <1>1, <1>3, <1>4, <1>6, <1>7, ViewStays DEF Page

(* A click that makes a call. *)
LEMMA PageMakes ==
  ASSUME Core, Page, NEW call \in CallsMade, Make(call), GroupAsked(call) = group,
         rows' = rows, editing' = editing, records' = records, DialogOfTable',
         dialog' \in {dialog, Closed} \cup ({"history"} \X Names),
         loading' \in BOOLEAN, refreshing' \in BOOLEAN, historyLoading' \in BOOLEAN,
         loading' => loading \/ (call.method = "ListTags" /\ call.of = group),
         refreshing' => refreshing \/ call = CallTo("ListTags", group, "refresh"),
         historyLoading' => historyLoading \/ (call.method = "GetTagHistory" /\ call.of = group),
         writing' = IF call.method = "WriteTag" THEN writing \cup {call.of} ELSE writing,
         call.method = "WriteTag" => call.of \notin writing
  PROVE  Page'
  <1>1. UNCHANGED <<platform, injections, group, handler, orphans, clean, excused>>
    BY MakeFacts DEF transportVars, mountVars
  <1>2. Injection' /\ ListenerIsMounted'
    BY <1>1 DEF Page, Injection, ListenerIsMounted
  <1>3. call.method = "WriteTag" => call.of \in Tags
    BY CallTypes
  <1>4. ViewTypes'
    BY <1>1, <1>3 DEF Page, ViewTypes
  <1>5. View'
    BY ViewMakes DEF Page
  <1> QED BY <1>2, <1>4, <1>5 DEF Page

LEMMA PageUser ==
  ASSUME Core, StoreTypes, Page, UserStep
  PROVE  Core' /\ StoreTypes' /\ Page'
  <1> USE DEF StoreTypes, storeVars
  <1>1. ASSUME NEW g \in Groups \cup {None}, SwitchGroup(g) PROVE Core' /\ StoreTypes' /\ Page'
    <2>1. UNCHANGED storeVars
      BY <1>1 DEF SwitchGroup
    <2> QED BY <1>1, <2>1, SwitchFacts, PageSwitches
  <1>2. CASE OpenSome \/ CloseDialog \/ (\E t \in Tags, v \in {Default, Typed} : Type(t, v))
    BY <1>2, PageClicks, CoreStutters
  <1>3. CASE HandleRefresh
    <2> DEFINE call == CallTo("ListTags", group, "refresh")
    <2>1. /\ Make(call) /\ group # None /\ dialog = Closed /\ refreshing' = TRUE /\ loading' = TRUE
          /\ UNCHANGED <<rows, editing, writing, historyLoading, dialog, records>>
      BY <1>3 DEF HandleRefresh, AtTable
    <2>2. call \in CallsMade /\ call.method = "ListTags" /\ call.of = group
      BY <2>1 DEF CallTo, CallsMade, Page, ViewTypes
    <2> HIDE DEF call
    <2>3. GroupAsked(call) = group
      BY <2>1, <2>2, CallTypes DEF Page, ViewTypes
    <2>4. DialogOfTable'
      BY <2>1 DEF DialogOfTable, Closed
    <2>5. historyLoading' \in BOOLEAN
      BY <2>1 DEF Page, ViewTypes
    <2>6. Page'
      BY <2>1, <2>2, <2>3, <2>4, <2>5, PageMakes DEF call
    <2> QED BY <2>1, <2>2, <2>6, MakeFacts
  <1>4. ASSUME NEW n \in Names, HandleAddTag(n) PROVE Core' /\ StoreTypes' /\ Page'
    <2> DEFINE call == CallTo("AddTag", group, n)
    <2>1. Make(call) /\ dialog[1] = "add" /\ UNCHANGED viewVars
      BY <1>4 DEF HandleAddTag
    <2>2. group \in Groups
      BY <2>1 DEF Page, ViewTypes, View, DialogOfTable, Closed
    <2>3. call \in CallsMade /\ call.method = "AddTag" /\ call.of = group
      BY <2>2 DEF CallTo, CallsMade
    <2> HIDE DEF call
    <2>4. GroupAsked(call) = group
      BY <2>2, <2>3, CallTypes
    <2>5. DialogOfTable'
      BY <2>1, <2>3, MakeFacts DEF DialogOfTable, Page, View, viewVars, mountVars
    <2>6. loading' \in BOOLEAN /\ refreshing' \in BOOLEAN /\ historyLoading' \in BOOLEAN
      BY <2>1 DEF Page, ViewTypes, viewVars
    <2>7. Page'
      BY <2>1, <2>3, <2>4, <2>5, <2>6, PageMakes DEF viewVars
    <2> QED BY <2>1, <2>3, <2>7, MakeFacts
  <1>5. ASSUME NEW n \in Names, HandleSaveEdit(n) PROVE Core' /\ StoreTypes' /\ Page'
    <2> DEFINE call == CallTo("UpdateTag", dialog[2], n)
    <2>1. Make(call) /\ dialog[1] = "edit" /\ UNCHANGED viewVars
      BY <1>5 DEF HandleSaveEdit
    <2>2. dialog[2] \in Tags /\ GroupOf[dialog[2]] = group
      BY <2>1 DEF Page, ViewTypes, View, DialogOfTable, Closed
    <2>3. call \in CallsMade /\ call.method = "UpdateTag" /\ call.of = dialog[2]
      BY <2>2 DEF CallTo, CallsMade
    <2> HIDE DEF call
    <2>4. GroupAsked(call) = group
      BY <2>2, <2>3, GroupsAssumption DEF GroupAsked
    <2>5. DialogOfTable'
      BY <2>1, <2>3, MakeFacts DEF DialogOfTable, Page, View, viewVars, mountVars
    <2>6. loading' \in BOOLEAN /\ refreshing' \in BOOLEAN /\ historyLoading' \in BOOLEAN
      BY <2>1 DEF Page, ViewTypes, viewVars
    <2>7. Page'
      BY <2>1, <2>3, <2>4, <2>5, <2>6, PageMakes DEF viewVars
    <2> QED BY <2>1, <2>3, <2>7, MakeFacts
  <1>6. CASE HandleRemoveTag
    <2> DEFINE call == CallTo("RemoveTag", dialog[2], None)
    <2>1. /\ Make(call) /\ dialog[1] = "remove" /\ dialog' = Closed
          /\ UNCHANGED <<rows, editing, writing, loading, refreshing, historyLoading, records>>
      BY <1>6 DEF HandleRemoveTag
    <2>2. dialog[2] \in Tags /\ GroupOf[dialog[2]] = group
      BY <2>1 DEF Page, ViewTypes, View, DialogOfTable, Closed
    <2>3. call \in CallsMade /\ call.method = "RemoveTag" /\ call.of = dialog[2]
      BY <2>2 DEF CallTo, CallsMade
    <2> HIDE DEF call
    <2>4. GroupAsked(call) = group
      BY <2>2, <2>3, GroupsAssumption DEF GroupAsked
    <2>5. DialogOfTable'
      BY <2>1 DEF DialogOfTable, Closed
    <2>6. loading' \in BOOLEAN /\ refreshing' \in BOOLEAN /\ historyLoading' \in BOOLEAN
      BY <2>1 DEF Page, ViewTypes
    <2>7. Page'
      BY <2>1, <2>3, <2>4, <2>5, <2>6, PageMakes
    <2> QED BY <2>1, <2>3, <2>7, MakeFacts
  <1>7. ASSUME NEW n \in Names, HandleShowHistory(n) PROVE Core' /\ StoreTypes' /\ Page'
    <2> DEFINE call == CallTo("GetTagHistory", group, n)
    <2>1. /\ Make(call) /\ group # None /\ dialog' = <<"history", n>> /\ historyLoading' = TRUE
          /\ UNCHANGED <<rows, editing, writing, loading, refreshing, records>>
      BY <1>7 DEF HandleShowHistory, AtTable
    <2>2. group \in Groups
      BY <2>1 DEF Page, ViewTypes
    <2>3. call \in CallsMade /\ call.method = "GetTagHistory" /\ call.of = group
      BY <2>2 DEF CallTo, CallsMade
    <2> HIDE DEF call
    <2>4. GroupAsked(call) = group
      BY <2>2, <2>3, CallTypes
    <2>5. DialogOfTable'
      BY <2>1, <2>3, MakeFacts DEF DialogOfTable, mountVars
    <2>6. loading' \in BOOLEAN /\ refreshing' \in BOOLEAN
      BY <2>1 DEF Page, ViewTypes
    <2>7. dialog' \in {"history"} \X Names
      BY <2>1
    <2>8. Page'
      BY <2>1, <2>3, <2>4, <2>5, <2>6, <2>7, PageMakes
    <2> QED BY <2>1, <2>3, <2>8, MakeFacts
  <1>8. ASSUME NEW t \in Tags, HandleWriteTag(t) PROVE Core' /\ StoreTypes' /\ Page'
    <2> DEFINE call == CallTo("WriteTag", t, None)
    <2>1. /\ Make(call) /\ dialog = Closed /\ rows[t] # None /\ t \notin writing
          /\ writing' = writing \cup {t}
          /\ UNCHANGED <<rows, editing, loading, refreshing, historyLoading, dialog, records>>
      BY <1>8 DEF HandleWriteTag, AtTable
    <2>2. call \in CallsMade /\ call.method = "WriteTag" /\ call.of = t
      BY DEF CallTo, CallsMade
    <2> HIDE DEF call
    <2>3. GroupAsked(call) = group
      BY <2>1, <2>2, GroupsAssumption DEF GroupAsked, Page, View, RowsOfGroup
    <2>4. DialogOfTable'
      BY <2>1 DEF DialogOfTable, Closed
    <2>5. loading' \in BOOLEAN /\ refreshing' \in BOOLEAN /\ historyLoading' \in BOOLEAN
      BY <2>1 DEF Page, ViewTypes
    <2>6. Page'
      BY <2>1, <2>2, <2>3, <2>4, <2>5, PageMakes
    <2> QED BY <2>1, <2>2, <2>6, MakeFacts
  <1> QED
    BY <1>1, <1>2, <1>3, <1>4, <1>5, <1>6, <1>7, <1>8 DEF UserStep

LEMMA PageContinues ==
  ASSUME Core, Page, NEW answer \in Answers, Continue(answer)
  PROVE  Page'
  <1> DEFINE i == answer.id
             call == promise[i]
  <1>1. Fits(promise, answer) /\ UNCHANGED <<platform, injections>>
    BY ContinueFacts DEF transportVars
  <1>2. UNCHANGED <<handler, group, clean, excused>>
    BY DEF Continue
  <1>3. Injection' /\ ListenerIsMounted'
    BY <1>1, <1>2 DEF Page, Injection, ListenerIsMounted
  <1>4. ViewTypes'
    <2>1. orphans' \subseteq Ids
      BY DEF Continue, Page, ViewTypes
    <2>2. CASE UNCHANGED viewVars
      BY <1>2, <2>1, <2>2 DEF Page, ViewTypes, viewVars
    <2>3. CASE call.method = "ListTags" /\ TagsLoaded(answer, call.arg)
      <3>1. rows' \in Tables
        BY <1>1, <2>3 DEF TagsLoaded, Fits
      <3>2. editing' \in [Tags -> {None, Default, Typed}]
        BY <2>3 DEF TagsLoaded, Page, ViewTypes
      <3>3. loading' = FALSE /\ refreshing' \in BOOLEAN
            /\ UNCHANGED <<writing, historyLoading, dialog, records>>
        BY <2>3 DEF TagsLoaded
      <3> QED BY <1>2, <2>1, <3>1, <3>2, <3>3 DEF Page, ViewTypes
    <2>4. CASE call.method = "WriteTag" /\ TagWritten(answer, call.of)
      BY <1>2, <2>1, <2>4 DEF TagWritten, Page, ViewTypes
    <2>5. CASE call.method = "GetTagHistory" /\ HistoryLoaded(answer)
      <3>1. answer.data \in Names
        BY <1>1, <2>5 DEF Fits
      <3> QED BY <1>2, <2>1, <2>5, <3>1 DEF HistoryLoaded, Page, ViewTypes
    <2>6. CASE TagChanged(answer, call) /\ ~(UNCHANGED viewVars)
      <3>1. loading' = TRUE /\ dialog' \in {dialog, Closed}
            /\ UNCHANGED <<rows, editing, writing, refreshing, historyLoading, records>>
        BY <2>6 DEF TagChanged
      <3> QED BY <1>2, <2>1, <3>1 DEF Page, ViewTypes
    <2> QED BY <2>2, <2>3, <2>4, <2>5, <2>6 DEF Continue
  <1> QED BY <1>3, <1>4, ViewContinues DEF Page

LEMMA PageEvents ==
  ASSUME Core, Page, ReceiveEvent
  PROVE  Page'
  <1> DEFINE event == Head(toWeb).data
  <1>1. UNCHANGED <<platform, injections, promise>> /\ event \in Event
    BY ReceiveEventFacts DEF transportVars
  <1>2. /\ OnTagValueChanged(event)
        /\ UNCHANGED <<group, handler, orphans, clean, editing, writing, loading, refreshing,
                       historyLoading, dialog, records>>
    BY DEF ReceiveEvent, mountVars
  <1> HIDE DEF event
  <1>3. /\ rows' \in Tables /\ excused' \subseteq Tags
        /\ \A t \in Tags : rows'[t] # None => rows[t] # None
    <2>1. CASE UNCHANGED <<rows, excused>>
      BY <2>1 DEF Page, ViewTypes
    <2>2. ASSUME \E t \in Tags : rows[t] # None /\ rows[t].name = event.name,
                 rows' = [rows EXCEPT ![RowNamed(event.name)].value = event.value],
                 excused' \subseteq excused \cup {RowNamed(event.name)}
          PROVE  /\ rows' \in Tables /\ excused' \subseteq Tags
                 /\ \A t \in Tags : rows'[t] # None => rows[t] # None
      <3> DEFINE u == RowNamed(event.name)
      <3>1. u \in Tags /\ rows[u] # None
        BY <2>2 DEF RowNamed
      <3> HIDE DEF u
      <3>2. rows \in Tables /\ rows[u] \in Row /\ event.value \in Values
        BY <1>1, <3>1 DEF Page, ViewTypes, Tables, Event
      <3>3. [rows[u] EXCEPT !.value = event.value] \in Row
        BY <3>2 DEF Row
      <3>4. rows' = [rows EXCEPT ![u] = [rows[u] EXCEPT !.value = event.value]]
        BY <2>2 DEF u
      <3>5. rows' \in Tables /\ \A t \in Tags : rows'[t] # None => rows[t] # None
        BY <3>1, <3>2, <3>3, <3>4 DEF Tables
      <3> QED BY <2>2, <3>1, <3>5 DEF Page, ViewTypes, u
    <2> QED BY <1>2, <2>1, <2>2 DEF OnTagValueChanged
  <1>4. ViewTypes'
    BY <1>2, <1>3 DEF Page, ViewTypes
  <1>5. Injection' /\ ListenerIsMounted'
    BY <1>1, <1>2 DEF Page, Injection, ListenerIsMounted
  <1>6. View'
    <2>1. SameCalls
      BY <1>1, <1>2 DEF Page, View, SameCalls, Mine, CallsOfTable
    <2>2. RowsOfGroup' /\ DialogOfTable'
      BY <1>2, <1>3 DEF Page, View, RowsOfGroup, DialogOfTable
    <2>3. CallsOfTable' /\ Spinners' /\ OneWrite'
      BY <1>2, <2>1 DEF Page, View, CallsOfTable, Spinners, OneWrite, SameCalls, Writes
    <2> QED BY <2>2, <2>3 DEF View
  <1> QED BY <1>4, <1>5, <1>6 DEF Page

LEMMA PageInjects ==
  ASSUME Core, Page, Injecting
  PROVE  Page'
  <1>1. /\ UNCHANGED promise /\ injections > 0 /\ injections' = injections - 1
        /\ platform' = "webview" /\ handler' = None
    BY InjectFacts DEF Injecting
  <1>2. UNCHANGED <<rows, editing, writing, loading, refreshing, historyLoading, dialog, records,
                    group, orphans, clean, excused>>
    BY DEF Injecting, viewVars
  <1>3. platform = "browser" /\ ~clean /\ injections' = 0
    BY <1>1 DEF Page, Injection, Core, BridgeTypes
  <1>4. Injection' /\ ListenerIsMounted'
    BY <1>1, <1>2, <1>3 DEF Page, Injection, ListenerIsMounted
  <1>5. ViewTypes'
    BY <1>1, <1>2 DEF Page, ViewTypes
  <1>6. SameCalls /\ DialogOfTable'
    BY <1>1, <1>2 DEF Page, View, SameCalls, Mine, CallsOfTable, DialogOfTable
  <1> QED BY <1>2, <1>4, <1>5, <1>6, ViewStays DEF Page

LEMMA InitIInv == Init => IInv
  <1> SUFFICES ASSUME Init PROVE IInv
    OBVIOUS
  <1> USE DEF Init, BridgeInit
  <1>1. Core
    <2>1. BridgeTypes
      BY DEF BridgeTypes
    <2>2. IdsOf(toNative) = {} /\ IdsOf(toWeb) = {} /\ SetIds(http \cup running) = {}
          /\ SetIds(fetched) = {}
      BY DEF IdsOf, SetIds
    <2>3. OneMessage
      BY <2>2 DEF OneMessage, Distinct, Apart
    <2>4. Matching
      BY DEF Matching
    <2> QED BY <2>1, <2>3, <2>4 DEF Core
  <1>2. StoreTypes
    BY NamesAssumption DEF StoreTypes
  <1>3. ViewTypes
    BY DEF ViewTypes, NoTags, Tables
  <1>4. Injection /\ ListenerIsMounted
    BY DEF Injection, ListenerIsMounted
  <1>5. View
    BY DEF View, CallsOfTable, DialogOfTable, RowsOfGroup, Spinners, OneWrite, Writes, Mine,
           NoTags, Closed
  <1> QED BY <1>1, <1>2, <1>3, <1>4, <1>5 DEF IInv

LEMMA NextIInv == IInv /\ [Next]_vars => IInv'
  <1> SUFFICES ASSUME IInv, [Next]_vars PROVE IInv'
    OBVIOUS
  <1>1. Core /\ StoreTypes /\ Page
    BY DEF IInv, Page
  <1>2. SUFFICES Core' /\ StoreTypes' /\ Page'
    BY DEF IInv, Page
  <1>3. CASE UserStep
    BY <1>1, <1>3, PageUser
  <1>4. CASE Answering
    <2>1. PICK answer \in Answers : Continue(answer)
      BY <1>1, <1>4, AnsweringFacts
    <2>2. UNCHANGED storeVars
      BY <2>1 DEF Continue
    <2> QED BY <1>1, <2>1, <2>2, ContinueFacts, PageContinues DEF StoreTypes, storeVars
  <1>5. CASE ReceiveEvent
    <2>1. UNCHANGED storeVars
      BY <1>5 DEF ReceiveEvent
    <2> QED BY <1>1, <1>5, <2>1, ReceiveEventFacts, PageEvents DEF StoreTypes, storeVars
  <1>6. CASE Handling
    BY <1>1, <1>6, HandlingFacts, PageStutters
  <1>7. CASE Writing
    <2>1. PICK m \in running : FinishWrite(m) /\ UNCHANGED <<HostVars, excused>>
      BY <1>7 DEF Writing
    <2>2. Core' /\ UNCHANGED <<transportVars, promise, handler>>
      BY <1>1, <2>1, CoreFinishes DEF FinishWrite
    <2>3. UNCHANGED storeVars
      BY <2>1 DEF FinishWrite
    <2> QED BY <1>1, <2>1, <2>2, <2>3, PageStutters DEF StoreTypes, storeVars
  <1>8. CASE Publishing
    BY <1>1, <1>8, PublishFacts, PageStutters
  <1>9. ASSUME NEW t \in Tags, NEW v \in Values, ValueChanges(t, v)
        PROVE  Core' /\ StoreTypes' /\ Page'
    <2>1. UNCHANGED <<bridgeVars, name, HostVars, excused>>
          /\ value' = [value EXCEPT ![t] = v] /\ name[t] # None
          /\ raised' = Append(raised, [tag |-> t, name |-> name[t], value |-> v])
      BY <1>9 DEF ValueChanges
    <2>2. [tag |-> t, name |-> name[t], value |-> v] \in Event
      BY <1>1, <2>1 DEF StoreTypes, Event
    <2>3. StoreTypes'
      BY <1>1, <2>1, <2>2 DEF StoreTypes
    <2>4. UNCHANGED <<transportVars, promise, handler>>
      BY <2>1 DEF bridgeVars
    <2> QED BY <1>1, <2>1, <2>3, <2>4, CoreStutters, PageStutters
  <1>10. CASE Injecting
    <2>1. UNCHANGED storeVars /\ InjectBridge
      BY <1>10 DEF Injecting
    <2> QED BY <1>1, <1>10, <2>1, InjectFacts, PageInjects DEF StoreTypes, storeVars
  <1>11. CASE UNCHANGED vars
    <2>1. UNCHANGED <<bridgeVars, storeVars, HostVars, excused>>
      BY <1>11 DEF vars, HostVars
    <2>2. UNCHANGED <<transportVars, promise, handler>>
      BY <2>1 DEF bridgeVars
    <2> QED BY <1>1, <2>1, <2>2, CoreStutters, PageStutters DEF StoreTypes, storeVars
  <1> QED
    BY <1>3, <1>4, <1>5, <1>6, <1>7, <1>8, <1>9, <1>10, <1>11 DEF Next

LEMMA Invariant == Spec => []IInv
  BY InitIInv, NextIInv, PTL DEF Spec

-----------------------------------------------------------------------------
(* What the table, its calls and the store keep has its type: the rows are *)
(* made of what ListTags returns, whatever answers arrive in between.      *)
THEOREM TypeCorrect == Spec => []TypeOK
  <1>1. IInv => TypeOK
    BY DEF IInv, Core, BridgeTypes, StoreTypes, ViewTypes, TypeOK, Tables
  <1> QED BY <1>1, Invariant, PTL

(* The answer for a group that was left never fills the table of another.  *)
THEOREM OwnRows == Spec => []RowsOfGroup
  <1>1. IInv => RowsOfGroup
    BY DEF IInv, View
  <1> QED BY <1>1, Invariant, PTL

(* No handler of an unmounted table is left, and on() of the new one comes *)
(* after off() of the old one.                                             *)
THEOREM ListensMounted == Spec => []ListenerIsMounted
  <1>1. IInv => ListenerIsMounted
    BY DEF IInv
  <1> QED BY <1>1, Invariant, PTL

(* No spinner is left over: for each there is the call that will stop it.  *)
THEOREM SpinnersEnd == Spec => []SpinnerHasCall
  <1>1. Spinners => SpinnerHasCall
    BY DEF Spinners, SpinnerHasCall, Open, Mine, Writes
  <1>2. IInv => Spinners
    BY DEF IInv, View
  <1> QED BY <1>1, <1>2, Invariant, PTL

(* Only the success of the tag's own write, or the user, replaces what is  *)
(* typed; loading the tags again does not.                                 *)
THEOREM TypedKept == Spec => TypedValueKept
  <1>1. ASSUME IInv, [Next]_vars, NEW t \in Tags, group' = group,
               editing[t] # None, editing'[t] # None, editing'[t] # editing[t]
        PROVE  UNCHANGED <<promise, toWeb, fetched>> \/ (t \in writing /\ t \notin writing')
    <2>1. Core /\ View
      BY <1>1 DEF IInv
    <2>2. ASSUME NEW g \in Groups \cup {None}, SwitchGroup(g) PROVE FALSE
      BY <1>1, <2>2 DEF SwitchGroup
    <2>3. CASE \E u \in Tags, v \in {Default, Typed} : Type(u, v)
      BY <2>3 DEF Type, Click, bridgeVars, answerVars
    <2>4. CASE Answering
      <3>1. PICK answer \in Answers : Continue(answer)
        BY <2>1, <2>4, AnsweringFacts
      <3> DEFINE i == answer.id
                 call == promise[i]
      <3>2. i \in Ids /\ Fits(promise, answer)
        BY <2>1, <3>1, ContinueFacts DEF Answers
      <3>3. editing' # editing
        BY <1>1
      <3>4. i \notin orphans
        BY <3>1, <3>3 DEF Continue, viewVars
      <3>5. \/ TagsLoaded(answer, call.arg)
            \/ call.method = "WriteTag" /\ TagWritten(answer, call.of)
            \/ HistoryLoaded(answer) \/ TagChanged(answer, call)
        BY <3>1, <3>4 DEF Continue
      <3>6. ~TagsLoaded(answer, call.arg)
        BY <1>1 DEF TagsLoaded
      <3>7. ~HistoryLoaded(answer) /\ ~TagChanged(answer, call)
        BY <3>3 DEF HistoryLoaded, TagChanged, viewVars
      <3>8. call.method = "WriteTag" /\ TagWritten(answer, call.of)
        BY <3>5, <3>6, <3>7
      <3>9. call.of = t
        BY <1>1, <3>8, <2>1 DEF TagWritten, IInv, ViewTypes
      <3>10. Writes(i, t)
        BY <3>2, <3>4, <3>8, <3>9, NoneIsNoCall DEF Writes, Mine, Fits
      <3> QED BY <2>1, <3>2, <3>8, <3>9, <3>10 DEF View, OneWrite, TagWritten
    <2>5. CASE UNCHANGED editing
      BY <1>1, <2>5
    <2>6. \/ \E g \in Groups \cup {None} : SwitchGroup(g)
          \/ \E u \in Tags, v \in {Default, Typed} : Type(u, v)
          \/ Answering \/ UNCHANGED editing
      BY <1>1 DEF Next, UserStep, HandleRefresh, OpenSome, OpenDialog, CloseDialog, HandleRemoveTag,
                  HandleAddTag, HandleSaveEdit, HandleShowHistory, HandleWriteTag, ReceiveEvent,
                  Handling, Handle, HostVars, Writing, Publishing, PublishEvent, ValueChanges,
                  Injecting, viewVars, vars
    <2> QED BY <2>2, <2>3, <2>4, <2>5, <2>6
  <1>2. IInv /\ [Next]_vars =>
          [\A t \in Tags :
             (group' = group /\ editing[t] # None /\ editing'[t] # None /\ editing'[t] # editing[t])
               => \/ UNCHANGED <<promise, toWeb, fetched>>
                  \/ t \in writing /\ t \notin writing']_vars
    BY <1>1
  <1> QED BY <1>2, Invariant, PTL DEF Spec, TypedValueKept

-----------------------------------------------------------------------------
(***************************************************************************)
(* The rows while messages are on their way. A row is as up to date as the *)
(* message it comes from: the last list of the mounted table in `toWeb`,    *)
(* or the rows where none is left, and the events of its tag behind that.  *)
(***************************************************************************)
EventOf(m, t) == m.id = None /\ m.data.tag = t

(* r, taken up at position k of w, and the events after k say what n and v *)
(* are; of the value, only once `told`.                                    *)
LastEvent(w, l, t) == EventOf(w[l], t) /\ \A j \in DOMAIN w : j > l => ~EventOf(w[j], t)
Says(r, w, k, t, n, v, told) ==
  IF n = None THEN r = None
  ELSE /\ r # None /\ r.name = n
       /\ \A l \in DOMAIN w : l > k /\ EventOf(w[l], t) => w[l].data.name = n
       /\ told => \/ \E l \in DOMAIN w : l > k /\ LastEvent(w, l, t) /\ w[l].data.value = v
                  \/ r.value = v /\ \A l \in DOMAIN w : l > k => ~EventOf(w[l], t)

(* k is where the last of the messages L is in w, 0 if there is none.      *)
StartsAt(w, L, k) ==
  /\ k \in 0 .. Len(w) /\ (k # 0 => w[k].id \in L)
  /\ \A l \in DOMAIN w : l > k => w[l].id \notin L

MyLists == {i \in Ids \ orphans : promise[i] # None /\ promise[i].method = "ListTags"}
Told(t) == \A j \in DOMAIN raised : raised[j].tag # t
RowsKept ==
  /\ StartsAt(toWeb, MyLists, 0) =>
       \A t \in Tags \ excused : GroupOf[t] = group =>
         Says(rows[t], toWeb, 0, t, name[t], value[t], Told(t))
  /\ \A k \in DOMAIN toWeb : StartsAt(toWeb, MyLists, k) =>
       \A t \in Tags \ excused : GroupOf[t] = group =>
         Says(toWeb[k].data[t], toWeb, k, t, name[t], value[t], Told(t))

(* Nothing need be said as long as a list is asked for, or an answer is on *)
(* its way after which one is. What an unmounted table has asked is done   *)
(* before the list of the mounted one.                                     *)
AsksList(m) == m.id \in Ids \ orphans /\ m.call.method = "ListTags"
SomeChange(a) == a.id \in Ids \ orphans /\ a.ok /\ promise[a.id].method \in Changing
ListAsked == \E k \in DOMAIN toNative : AsksList(toNative[k])
ChangeTold == \E k \in DOMAIN toWeb : SomeChange(toWeb[k])
ListToCome == ListAsked \/ ChangeTold
LeftBefore ==
  \A k \in DOMAIN toNative :
    toNative[k].id \in orphans /\ toNative[k].call.method \in Changing =>
      \E l \in DOMAIN toNative : l > k /\ AsksList(toNative[l])

(* A table that is mounted cleanly talks to the host over one channel.     *)
Ways == (\A k \in DOMAIN toNative : toNative[k].web) /\ (\A m \in http : ~m.web)
OneWay ==
  /\ platform = "webview" /\ http = {} /\ \A m \in running : m.web
  /\ \A a \in fetched : a.id \in orphans

(* No two tags of a table have one name; what is raised is about the name  *)
(* and, if it is the last of its tag, the value that the store has.        *)
Unique(r) == \A t, u \in Tags : r[t] # None /\ r[u] # None /\ r[t].name = r[u].name => t = u
ListsUnique == Unique(rows) /\ \A k \in DOMAIN toWeb : toWeb[k].id \in MyLists => Unique(toWeb[k].data)
NamesApart ==
  \A t, u \in Tags : name[t] # None /\ name[t] = name[u] /\ GroupOf[t] = GroupOf[u] => t = u
LastOf(s, k) == \A j \in DOMAIN s : s[j].tag = s[k].tag => j <= k
RaisedKept ==
  \A k \in DOMAIN raised : raised[k].tag \notin excused =>
    /\ name[raised[k].tag] \in {None, raised[k].name}
    /\ LastOf(raised, k) => raised[k].value = value[raised[k].tag]

StoreKept == NamesApart /\ RaisedKept

TableKept ==
  /\ clean => OneWay /\ ListsUnique
  /\ clean /\ group # None => LeftBefore /\ (ListToCome \/ RowsKept)
Kept == StoreKept /\ Ways /\ TableKept

(* One message less at the front. *)
LEMMA SaysTail ==
  ASSUME NEW S, NEW w \in Seq(S), w # <<>>, NEW t, NEW n, NEW v, NEW told, NEW r
  PROVE  /\ \A k \in Nat : Says(r, w, k + 1, t, n, v, told) => Says(r, Tail(w), k, t, n, v, told)
         /\ ~EventOf(w[1], t) /\ Says(r, w, 0, t, n, v, told) => Says(r, Tail(w), 0, t, n, v, told)
         /\ \A q : /\ EventOf(w[1], t) /\ Says(r, w, 0, t, n, v, told) /\ n # None
                   /\ q # None /\ q.name = r.name /\ q.value = w[1].data.value
                   => Says(q, Tail(w), 0, t, n, v, told)
  <1> DEFINE u == Tail(w)
  <1>1. /\ 1 \in DOMAIN w /\ DOMAIN w \subseteq Nat \ {0} /\ DOMAIN u \subseteq Nat \ {0}
        /\ \A l \in DOMAIN u : l + 1 \in DOMAIN w /\ u[l] = w[l + 1]
        /\ \A l \in DOMAIN w : l = 1 \/ l - 1 \in DOMAIN u
    BY TailFacts
  <1> HIDE DEF u
  <1>2. \A l \in DOMAIN w : l # 1 => u[l - 1] = w[l]
    BY <1>1
  <1>3. \A l \in DOMAIN w : l # 1 /\ LastEvent(w, l, t) => LastEvent(u, l - 1, t)
    BY <1>1, <1>2 DEF LastEvent
  <1>4. ASSUME NEW k \in Nat, Says(r, w, k + 1, t, n, v, told)
        PROVE  Says(r, u, k, t, n, v, told)
    <2>1. CASE n = None
      BY <1>4, <2>1 DEF Says
    <2>2. CASE n # None
      <3>1. r # None /\ r.name = n /\ \A l \in DOMAIN u : l > k /\ EventOf(u[l], t) => u[l].data.name = n
        <4>1. \A l \in DOMAIN w : l > k + 1 /\ EventOf(w[l], t) => w[l].data.name = n
          BY <1>4, <2>2 DEF Says
        <4>2. \A l \in DOMAIN u : l > k => l + 1 > k + 1
          BY <1>1
        <4> QED BY <1>1, <1>4, <2>2, <4>1, <4>2 DEF Says
      <3>2. ASSUME NEW l \in DOMAIN w, l > k + 1, LastEvent(w, l, t), w[l].data.value = v
            PROVE  l - 1 \in DOMAIN u /\ l - 1 > k /\ LastEvent(u, l - 1, t) /\ u[l - 1].data.value = v
        BY <1>1, <1>2, <1>3, <3>2
      <3>3. (\A l \in DOMAIN w : l > k + 1 => ~EventOf(w[l], t))
              => (\A l \in DOMAIN u : l > k => ~EventOf(u[l], t))
        BY <1>1
      <3> QED BY <1>4, <2>2, <3>1, <3>2, <3>3 DEF Says
    <2> QED BY <2>1, <2>2
  <1>5. ASSUME ~EventOf(w[1], t), Says(r, w, 0, t, n, v, told)
        PROVE  Says(r, u, 0, t, n, v, told)
    <2>1. CASE n = None
      BY <1>5, <2>1 DEF Says
    <2>2. CASE n # None
      <3>1. r # None /\ r.name = n /\ \A l \in DOMAIN u : EventOf(u[l], t) => u[l].data.name = n
        BY <1>1, <1>5, <2>2 DEF Says
      <3>2. ASSUME NEW l \in DOMAIN w, LastEvent(w, l, t), w[l].data.value = v
            PROVE  l - 1 \in DOMAIN u /\ l - 1 > 0 /\ LastEvent(u, l - 1, t) /\ u[l - 1].data.value = v
        BY <1>1, <1>2, <1>3, <1>5, <3>2 DEF LastEvent
      <3>3. (\A l \in DOMAIN w : l > 0 => ~EventOf(w[l], t)) => (\A l \in DOMAIN u : ~EventOf(u[l], t))
        BY <1>1
      <3> QED BY <1>5, <2>2, <3>1, <3>2, <3>3 DEF Says
    <2> QED BY <2>1, <2>2
  <1>6. ASSUME NEW q, EventOf(w[1], t), Says(r, w, 0, t, n, v, told), n # None,
               q # None, q.name = r.name, q.value = w[1].data.value
        PROVE  Says(q, u, 0, t, n, v, told)
    <2>1. r.name = n /\ \A l \in DOMAIN u : EventOf(u[l], t) => u[l].data.name = n
      BY <1>1, <1>6 DEF Says
    <2>2. ASSUME told
          PROVE  \/ \E l \in DOMAIN u : l > 0 /\ LastEvent(u, l, t) /\ u[l].data.value = v
                 \/ q.value = v /\ \A l \in DOMAIN u : l > 0 => ~EventOf(u[l], t)
      <3>1. PICK l \in DOMAIN w : LastEvent(w, l, t) /\ w[l].data.value = v
        BY <1>1, <1>6, <2>2 DEF Says
      <3>2. CASE l = 1
        BY <1>1, <1>6, <3>1, <3>2 DEF LastEvent
      <3>3. CASE l # 1
        BY <1>1, <1>2, <1>3, <3>1, <3>3
      <3> QED BY <3>2, <3>3
    <2> QED BY <1>6, <2>1, <2>2 DEF Says
  <1> QED BY <1>4, <1>5, <1>6 DEF u

(* One message more at the end. *)
LEMMA SaysAppend ==
  ASSUME NEW S, NEW w \in Seq(S), NEW e \in S, NEW k \in 0 .. Len(w),
         NEW t, NEW n, NEW v, NEW told, NEW later, NEW r, Says(r, w, k, t, n, v, told),
         \/ ~EventOf(e, t) /\ (later => told)
         \/ /\ n # None /\ EventOf(e, t) /\ e.data.name = n
            /\ later => e.data.value = v
         \/ n = None
  PROVE  Says(r, Append(w, e), k, t, n, v, later)
  <1> DEFINE u == Append(w, e)
  <1>1. /\ Len(w) \in Nat /\ DOMAIN w = 1 .. Len(w) /\ DOMAIN u = 1 .. (Len(w) + 1)
        /\ u[Len(w) + 1] = e /\ \A l \in DOMAIN w : u[l] = w[l]
    OBVIOUS
  <1> HIDE DEF u
  <1>2. CASE n = None
    BY <1>2 DEF Says, u
  <1>3. CASE n # None
    <2>1. r # None /\ r.name = n /\ \A l \in DOMAIN u : l > k /\ EventOf(u[l], t) => u[l].data.name = n
      BY <1>1, <1>3 DEF Says
    <2>2. CASE ~EventOf(e, t) /\ (later => told)
      <3>1. \A l \in DOMAIN w : LastEvent(w, l, t) => LastEvent(u, l, t)
        BY <1>1, <2>2 DEF LastEvent
      <3>2. \A l \in DOMAIN u : EventOf(u[l], t) => l \in DOMAIN w
        BY <1>1, <2>2
      <3>3. ASSUME later
            PROVE  \/ \E l \in DOMAIN u : l > k /\ LastEvent(u, l, t) /\ u[l].data.value = v
                   \/ r.value = v /\ \A l \in DOMAIN u : l > k => ~EventOf(u[l], t)
        <4>1. CASE \E l \in DOMAIN w : l > k /\ LastEvent(w, l, t) /\ w[l].data.value = v
          BY <1>1, <3>1, <4>1
        <4>2. CASE r.value = v /\ \A l \in DOMAIN w : l > k => ~EventOf(w[l], t)
          BY <1>1, <3>2, <4>2
        <4> QED BY <1>3, <2>2, <3>3, <4>1, <4>2 DEF Says
      <3> QED BY <1>3, <2>1, <3>3 DEF Says, u
    <2>3. CASE EventOf(e, t) /\ e.data.name = n /\ (later => e.data.value = v)
      <3>1. Len(w) + 1 \in DOMAIN u /\ Len(w) + 1 > k /\ LastEvent(u, Len(w) + 1, t)
        BY <1>1, <2>3 DEF LastEvent
      <3> QED BY <1>1, <1>3, <2>1, <2>3, <3>1 DEF Says, u
    <2> QED BY <1>3, <2>2, <2>3
  <1> QED BY <1>2, <1>3

(* An event that is still raised: nothing is said of the value. *)
LEMMA SaysUntold ==
  ASSUME NEW r, NEW w, NEW k, NEW t, NEW n, NEW v, NEW told, NEW x, Says(r, w, k, t, n, v, told)
  PROVE  Says(r, w, k, t, n, x, FALSE)
  BY DEF Says

(* The last of the messages L, when the front is taken or one is added. *)
LEMMA StartsTail ==
  ASSUME NEW S, NEW w \in Seq(S), w # <<>>, NEW L, NEW M, NEW k \in Nat, StartsAt(Tail(w), M, k),
         \A l \in DOMAIN Tail(w) : Tail(w)[l].id \in M <=> Tail(w)[l].id \in L
  PROVE  /\ k # 0 => k \in DOMAIN Tail(w) /\ k + 1 \in DOMAIN w /\ StartsAt(w, L, k + 1)
         /\ k = 0 /\ w[1].id \in L => StartsAt(w, L, 1)
         /\ k = 0 /\ w[1].id \notin L => StartsAt(w, L, 0)
  <1> DEFINE u == Tail(w)
  <1>1. /\ Len(w) \in Nat /\ DOMAIN w = 1 .. Len(w) /\ Len(u) = Len(w) - 1 /\ DOMAIN u = 1 .. Len(u)
        /\ 1 \in DOMAIN w
        /\ \A l \in DOMAIN u : l + 1 \in DOMAIN w /\ u[l] = w[l + 1]
        /\ \A l \in DOMAIN w : l = 1 \/ l - 1 \in DOMAIN u
    BY TailFacts
  <1> HIDE DEF u
  <1>2. /\ k \in 0 .. Len(u) /\ (k # 0 => u[k].id \in M)
        /\ \A l \in DOMAIN u : l > k => u[l].id \notin M
        /\ \A l \in DOMAIN u : u[l].id \in M <=> u[l].id \in L
    BY DEF StartsAt, u
  <1>3. \A l \in DOMAIN w : l > k + 1 => w[l].id \notin L
    <2> SUFFICES ASSUME NEW l \in DOMAIN w, l > k + 1 PROVE w[l].id \notin L
      OBVIOUS
    <2>1. l - 1 \in DOMAIN u /\ l - 1 > k /\ u[l - 1] = w[l]
      BY <1>1
    <2> QED BY <1>2, <2>1
  <1>4. k # 0 => k \in DOMAIN u /\ k + 1 \in DOMAIN w /\ w[k + 1].id \in L
    BY <1>1, <1>2
  <1> QED BY <1>1, <1>3, <1>4 DEF StartsAt, u

LEMMA StartsAppend ==
  ASSUME NEW S, NEW w \in Seq(S), NEW e \in S, NEW L, NEW M, NEW k \in Nat,
         StartsAt(Append(w, e), M, k),
         \A l \in DOMAIN w : w[l].id \in M <=> w[l].id \in L
  PROVE  /\ e.id \notin M => k \in 0 .. Len(w) /\ StartsAt(w, L, k)
         /\ e.id \in M => k = Len(w) + 1
  <1> DEFINE u == Append(w, e)
  <1>1. /\ Len(w) \in Nat /\ DOMAIN w = 1 .. Len(w) /\ DOMAIN u = 1 .. (Len(w) + 1)
        /\ Len(u) = Len(w) + 1
        /\ u[Len(w) + 1] = e /\ \A l \in DOMAIN w : u[l] = w[l]
    OBVIOUS
  <1> HIDE DEF u
  <1>2. /\ k \in 0 .. Len(u) /\ (k # 0 => u[k].id \in M)
        /\ \A l \in DOMAIN u : l > k => u[l].id \notin M
    BY DEF StartsAt, u
  <1>3. CASE e.id \in M
    BY <1>1, <1>2, <1>3
  <1>4. CASE e.id \notin M
    <2>1. k \in 0 .. Len(w)
      BY <1>1, <1>2, <1>4
    <2>2. k # 0 => w[k].id \in L
      BY <1>1, <1>2, <2>1
    <2>3. \A l \in DOMAIN w : l > k => w[l].id \notin L
      BY <1>1, <1>2
    <2> QED BY <1>4, <2>1, <2>2, <2>3 DEF StartsAt
  <1> QED BY <1>3, <1>4

(* A sequence without its k-th element. *)
Without(s, k) == SubSeq(s, 1, k - 1) \o SubSeq(s, k + 1, Len(s))

LEMMA Removed ==
  ASSUME NEW S, NEW s \in Seq(S), NEW k \in DOMAIN s
  PROVE  /\ DOMAIN Without(s, k) = 1 .. (Len(s) - 1)
         /\ \A j \in DOMAIN Without(s, k) :
              Without(s, k)[j] = IF j < k THEN s[j] ELSE s[j + 1]
  <1>1. Len(s) \in Nat /\ DOMAIN s = 1 .. Len(s) /\ k \in 1 .. Len(s)
    OBVIOUS
  <1> DEFINE a == SubSeq(s, 1, k - 1)
             b == SubSeq(s, k + 1, Len(s))
             n == Len(s)
  <1>2. a \in Seq(S) /\ Len(a) = k - 1 /\ \A j \in 1 .. (k - 1) : a[j] = s[j]
    BY <1>1
  <1>3. b \in Seq(S) /\ Len(b) = n - k /\ \A j \in 1 .. (n - k) : b[j] = s[j + k]
    BY <1>1
  <1>4. Without(s, k) = a \o b /\ n \in Nat /\ k \in 1 .. n
    BY <1>1 DEF Without
  <1> HIDE DEF a, b, n
  <1>5. /\ DOMAIN (a \o b) = 1 .. (n - 1)
        /\ \A j \in 1 .. (n - 1) : (a \o b)[j] = IF j <= k - 1 THEN a[j] ELSE b[j - (k - 1)]
    BY <1>2, <1>3, <1>4
  <1>6. \A j \in 1 .. (n - 1) : j < k => (a \o b)[j] = s[j]
    BY <1>2, <1>4, <1>5
  <1>7. ASSUME NEW j \in 1 .. (n - 1), ~(j < k) PROVE (a \o b)[j] = s[j + 1]
    <2>1. j - (k - 1) \in 1 .. (n - k) /\ j - (k - 1) + k = j + 1 /\ ~(j <= k - 1)
      BY <1>4, <1>7
    <2> QED BY <1>3, <1>5, <2>1
  <1> QED BY <1>4, <1>5, <1>6, <1>7 DEF n

LEMMA RaisedTyped ==
  ASSUME StoreTypes
  PROVE  /\ raised \in Seq(Event) /\ name \in [Tags -> Names \cup {None}]
         /\ value \in [Tags -> Values]
         /\ \A k \in DOMAIN raised : raised[k] \in Event /\ raised[k].tag \in Tags
  <1>1. raised \in Seq(Event)
    BY DEF StoreTypes
  <1>2. \A k \in DOMAIN raised : raised[k] \in Event
    BY <1>1
  <1> QED BY <1>1, <1>2 DEF StoreTypes, Event

-----------------------------------------------------------------------------
(* The store and what is raised *)

LEMMA StoreStays ==
  ASSUME StoreKept, UNCHANGED storeVars, excused \subseteq excused'
  PROVE  StoreKept'
  BY DEF StoreKept, NamesApart, RaisedKept, storeVars

(* No name is given twice, and a new tag has nothing raised. *)
LEMMA StoreHandles ==
  ASSUME Core, StoreTypes, StoreKept, Handling
  PROVE  StoreKept'
  <1>1. PICK m \in http \cup {toNative[k] : k \in DOMAIN toNative} : Handle(m)
    BY DEF Handling
  <1>2. m.call \in CallsMade
    <2>1. m \in Requests
      BY DEF Core, BridgeTypes
    <2> QED BY <2>1 DEF Requests
  <1>3. raised \in Seq(Event) /\ name \in [Tags -> Names \cup {None}] /\ value \in [Tags -> Values]
    BY DEF StoreTypes
  <1>4. CASE AddTag(m)
    <2>1. PICK t \in Tags :
            /\ GroupOf[t] = m.call.of /\ Fresh(t) /\ ~NameTaken(m.call.of, m.call.arg)
            /\ name' = [name EXCEPT ![t] = m.call.arg] /\ value' = [value EXCEPT ![t] = Initial]
            /\ raised' = raised
      BY <1>4 DEF AddTag
    <2>2. excused' = excused
      BY <1>1, <1>4, <2>1 DEF Handle, UpdateTag, AddTag
    <2>3. NamesApart'
      BY <1>3, <2>1 DEF StoreKept, NamesApart, NameTaken
    <2>4. \A k \in DOMAIN raised : raised[k].tag # t /\ raised[k].tag \in Tags
      BY <2>1, RaisedTyped DEF Fresh
    <2>5. RaisedKept'
      BY <1>3, <2>1, <2>2, <2>4 DEF StoreKept, RaisedKept
    <2> QED BY <2>3, <2>5 DEF StoreKept
  <1>5. CASE RemoveTag(m)
    <2>1. /\ name' = [name EXCEPT ![m.call.of] = None] /\ UNCHANGED <<value, raised>>
          /\ m.call.method = "RemoveTag"
      BY <1>5 DEF RemoveTag
    <2>2. excused \subseteq excused'
      BY <1>1 DEF Handle, UpdateTag
    <2>3. NamesApart'
      BY <1>3, <2>1 DEF StoreKept, NamesApart
    <2>4. RaisedKept'
      BY <1>3, <2>1, <2>2 DEF StoreKept, RaisedKept, Event
    <2> QED BY <2>3, <2>4 DEF StoreKept
  <1>6. CASE UpdateTag(m)
    <2> DEFINE t == m.call.of
               n == m.call.arg
    <2>1. /\ m.call.method = "UpdateTag" /\ ~UpdateFails(t, n)
          /\ name' = [name EXCEPT ![t] = n] /\ UNCHANGED <<value, raised>>
          /\ excused' = IF \E k \in DOMAIN raised : raised[k].tag = t THEN excused \cup {t} ELSE excused
      BY <1>6 DEF UpdateTag
    <2>2. t \in Tags /\ n \in Names
      BY <1>2, <2>1, CallTypes
    <2> HIDE DEF t, n
    <2>3. name[t] = n \/ \A u \in Tags : GroupOf[u] = GroupOf[t] => name[u] # n
      BY <2>1 DEF UpdateFails, NameTaken
    <2>4. NamesApart'
      BY <1>3, <2>1, <2>2, <2>3 DEF StoreKept, NamesApart
    <2>5. \A k \in DOMAIN raised : raised[k].tag \in Tags
      BY RaisedTyped
    <2>6. RaisedKept'
      <3> SUFFICES ASSUME NEW k \in DOMAIN raised, raised[k].tag \notin excused'
                   PROVE  /\ name'[raised[k].tag] \in {None, raised[k].name}
                          /\ LastOf(raised, k) => raised[k].value = value[raised[k].tag]
        BY <2>1 DEF RaisedKept
      <3>1. raised[k].tag # t /\ raised[k].tag \notin excused
        BY <2>1
      <3> QED BY <1>3, <2>1, <2>5, <3>1 DEF StoreKept, RaisedKept
    <2> QED BY <2>4, <2>6 DEF StoreKept
  <1>7. CASE (Query(m) \/ BeginWrite(m)) /\ UNCHANGED excused
    BY <1>7, StoreStays DEF Query, BeginWrite
  <1> QED BY <1>1, <1>4, <1>5, <1>6, <1>7 DEF Handle

(* What is raised last has the new value. *)
LEMMA StoreRaises ==
  ASSUME StoreTypes, StoreKept, NEW t \in Tags, NEW v \in Values, ValueChanges(t, v)
  PROVE  StoreKept'
  <1> DEFINE e == [tag |-> t, name |-> name[t], value |-> v]
  <1>1. /\ name[t] # None /\ value' = [value EXCEPT ![t] = v] /\ raised' = Append(raised, e)
        /\ UNCHANGED <<name, excused>>
    BY DEF ValueChanges
  <1>2. raised \in Seq(Event) /\ value \in [Tags -> Values]
    BY DEF StoreTypes
  <1>3. e.tag = t /\ e.name = name[t] /\ e.value = v
    OBVIOUS
  <1> HIDE DEF e
  <1>4. /\ Len(raised) \in Nat /\ DOMAIN raised = 1 .. Len(raised)
        /\ DOMAIN raised' = 1 .. (Len(raised) + 1) /\ raised'[Len(raised) + 1] = e
        /\ \A k \in DOMAIN raised : raised'[k] = raised[k] /\ raised[k].tag \in Tags
    <2>1. /\ Len(raised) \in Nat /\ DOMAIN raised = 1 .. Len(raised)
          /\ DOMAIN raised' = 1 .. (Len(raised) + 1) /\ raised'[Len(raised) + 1] = e
          /\ \A k \in DOMAIN raised : raised'[k] = raised[k]
      BY <1>1, <1>2
    <2> QED BY <2>1, RaisedTyped
  <1>5. ASSUME NEW k \in DOMAIN raised', raised'[k].tag \notin excused'
        PROVE  /\ name'[raised'[k].tag] \in {None, raised'[k].name}
               /\ LastOf(raised', k) => raised'[k].value = value'[raised'[k].tag]
    <2>1. CASE k = Len(raised) + 1
      BY <1>1, <1>2, <1>3, <1>4, <2>1
    <2>2. CASE k \in DOMAIN raised
      <3>1. name[raised[k].tag] \in {None, raised[k].name}
        BY <1>1, <1>4, <1>5, <2>2 DEF StoreKept, RaisedKept
      <3>2. LastOf(raised', k) => LastOf(raised, k)
        BY <1>4, <2>2 DEF LastOf
      <3>3. LastOf(raised', k) => raised[k].tag # t
        BY <1>3, <1>4, <2>2 DEF LastOf
      <3>4. LastOf(raised, k) => raised[k].value = value[raised[k].tag]
        BY <1>1, <1>4, <1>5, <2>2 DEF StoreKept, RaisedKept
      <3> QED BY <1>1, <1>2, <1>4, <2>2, <3>1, <3>2, <3>3, <3>4
    <2> QED BY <1>4, <2>1, <2>2
  <1>6. RaisedKept'
    BY <1>5 DEF RaisedKept
  <1> QED BY <1>1, <1>6 DEF StoreKept, NamesApart

(* What PublishEvent takes of what is raised. *)
Takes(k) ==
  /\ k \in DOMAIN raised
  /\ raised' = Without(raised, k)
  /\ excused' = IF \E j \in 1 .. (k - 1) : raised[j].tag = raised[k].tag
                THEN excused \cup {raised[k].tag} ELSE excused
  /\ UNCHANGED <<name, value>>

LEMMA StoreTells ==
  ASSUME StoreTypes, StoreKept, NEW k, Takes(k)
  PROVE  StoreKept'
  <1>1. raised \in Seq(Event) /\ excused \subseteq excused' /\ UNCHANGED <<name, value>>
    BY DEF StoreTypes, Takes
  <1>2. /\ DOMAIN raised' = 1 .. (Len(raised) - 1) /\ Len(raised) \in Nat
        /\ k \in DOMAIN raised /\ DOMAIN raised = 1 .. Len(raised)
        /\ \A j \in DOMAIN raised' : raised'[j] = IF j < k THEN raised[j] ELSE raised[j + 1]
    BY <1>1, Removed DEF Takes
  <1>3. \A j \in 1 .. (k - 1) : raised[j].tag = raised[k].tag => raised[k].tag \in excused'
    BY DEF Takes
  <1>4. ASSUME NEW i \in DOMAIN raised, NEW j \in DOMAIN raised', raised'[j] = raised[i],
               (i = j /\ j < k) \/ (i = j + 1 /\ j >= k), raised[i].tag \notin excused'
        PROVE  /\ name[raised[i].tag] \in {None, raised[i].name}
               /\ LastOf(raised', j) => raised[i].value = value[raised[i].tag]
    <2>1. ASSUME LastOf(raised', j) PROVE LastOf(raised, i)
      <3> SUFFICES ASSUME NEW l \in DOMAIN raised, raised[l].tag = raised[i].tag PROVE l <= i
        BY DEF LastOf
      <3>1. CASE l < k
        BY <1>2, <1>4, <2>1, <3>1 DEF LastOf
      <3>2. CASE l > k
        <4>1. l - 1 <= j
          BY <1>2, <1>4, <2>1, <3>2 DEF LastOf
        <4> QED BY <1>2, <1>4, <3>2, <4>1
      <3>3. CASE l = k
        BY <1>2, <1>3, <1>4, <3>3
      <3> QED BY <1>2, <3>1, <3>2, <3>3
    <2>2. raised[i].tag \notin excused
      BY <1>1, <1>4
    <2> QED BY <2>1, <2>2 DEF StoreKept, RaisedKept
  <1>5. RaisedKept'
    <2> SUFFICES ASSUME NEW j \in DOMAIN raised', raised'[j].tag \notin excused'
                 PROVE  /\ name[raised'[j].tag] \in {None, raised'[j].name}
                        /\ LastOf(raised', j) => raised'[j].value = value[raised'[j].tag]
      BY <1>1 DEF RaisedKept
    <2>1. CASE j < k
      BY <1>2, <1>4, <2>1
    <2>2. CASE j >= k
      <3>1. PICK i \in DOMAIN raised : i = j + 1 /\ raised'[j] = raised[i]
        BY <1>2, <2>2
      <3>2. raised[i].tag \notin excused'
        BY <3>1
      <3> QED BY <1>4, <2>2, <3>1, <3>2
    <2> QED BY <1>2, <2>1, <2>2
  <1> QED BY <1>1, <1>5 DEF StoreKept, NamesApart

LEMMA StoreSwitches ==
  ASSUME StoreKept, NEW g, SwitchGroup(g)
  PROVE  StoreKept'
  BY DEF SwitchGroup, StoreKept, NamesApart, RaisedKept, storeVars

-----------------------------------------------------------------------------
(* The rows after a step of each kind *)

(* What is on its way to the page. *)
LEMMA WebTyped ==
  ASSUME Core
  PROVE  /\ toWeb \in Seq(Scripts) /\ Len(toWeb) \in Nat /\ DOMAIN toWeb = 1 .. Len(toWeb)
         /\ None \notin Ids
         /\ \A k \in DOMAIN toWeb :
              /\ toWeb[k] \in Scripts /\ toWeb[k].id \in Ids \cup {None}
              /\ toWeb[k].id # None => Fits(promise, toWeb[k]) /\ promise[toWeb[k].id] \in CallsMade
         /\ \A k, l \in DOMAIN toWeb : toWeb[k].id = toWeb[l].id => k = l \/ toWeb[k].id = None
  <1>1. toWeb \in Seq(Scripts)
    BY DEF Core, BridgeTypes
  <1>2. Len(toWeb) \in Nat /\ DOMAIN toWeb = 1 .. Len(toWeb)
        /\ \A k \in DOMAIN toWeb : toWeb[k] \in Scripts
    BY <1>1
  <1>3. \A a \in Scripts : a.id \in Ids \cup {None}
    BY DEF Scripts, Answers, Pushes
  <1>4. \A k \in DOMAIN toWeb : toWeb[k].id # None => Fits(promise, toWeb[k])
    BY DEF Core, Matching
  <1> QED BY <1>1, <1>2, <1>3, <1>4, NoneIsNoId DEF Fits, Core, OneMessage, Distinct

(* The messages to the page stay; those of the mounted table stay its own. *)
SameLists == \A k \in DOMAIN toWeb' : toWeb'[k].id \in MyLists' <=> toWeb'[k].id \in MyLists
LEMMA RowsStay ==
  ASSUME Core, UNCHANGED <<toWeb, rows, group, storeVars>>, excused \subseteq excused', SameLists
  PROVE  /\ RowsKept => RowsKept'
         /\ ListsUnique => ListsUnique'
  <1>1. UNCHANGED <<name, value, raised>>
    BY DEF storeVars
  <1>2. \A k : StartsAt(toWeb', MyLists', k) => StartsAt(toWeb, MyLists, k)
    BY WebTyped DEF StartsAt, SameLists
  <1>3. \A t : Told(t)' = Told(t)
    BY <1>1 DEF Told
  <1>4. RowsKept => RowsKept'
    BY <1>1, <1>2, <1>3 DEF RowsKept
  <1>5. ListsUnique => ListsUnique'
    BY DEF ListsUnique, SameLists
  <1> QED BY <1>4, <1>5

(* An answer is on its way that is not a list of this table. *)
LEMMA RowsAnswered ==
  ASSUME Core, NEW e \in Answers, toWeb' = Append(toWeb, e),
         UNCHANGED <<rows, group, storeVars, excused, promise, orphans>>, e.id \notin MyLists
  PROVE  /\ RowsKept => RowsKept'
         /\ ListsUnique => ListsUnique'
  <1>1. UNCHANGED <<name, value, raised, MyLists>> /\ e \in Scripts /\ ~(\E t : EventOf(e, t))
    BY NoneIsNoId DEF storeVars, MyLists, Scripts, Answers, EventOf
  <1>2. /\ DOMAIN toWeb' = 1 .. (Len(toWeb) + 1) /\ toWeb'[Len(toWeb) + 1] = e
        /\ \A k \in DOMAIN toWeb : toWeb'[k] = toWeb[k]
    BY <1>1, WebTyped
  <1>3. \A k \in Nat : StartsAt(toWeb', MyLists', k) => k \in 0 .. Len(toWeb) /\ StartsAt(toWeb, MyLists, k)
    BY <1>1, WebTyped, StartsAppend
  <1>4. \A t : Told(t)' = Told(t)
    BY <1>1 DEF Told
  <1>5. ASSUME NEW r, NEW t, NEW k \in 0 .. Len(toWeb),
               Says(r, toWeb, k, t, name[t], value[t], Told(t))
        PROVE  Says(r, toWeb', k, t, name'[t], value'[t], Told(t)')
    <2> DEFINE n == name[t]
               v == value[t]
               told == Told(t)
    <2>1. Says(r, toWeb, k, t, n, v, told) /\ ~EventOf(e, t)
      BY <1>1, <1>5
    <2> HIDE DEF n, v, told
    <2>2. Says(r, Append(toWeb, e), k, t, n, v, told)
      BY <1>1, <2>1, WebTyped, SaysAppend
    <2> QED BY <1>1, <1>4, <2>2 DEF n, v, told
  <1>6. ASSUME RowsKept PROVE RowsKept'
    <2>1. ASSUME StartsAt(toWeb', MyLists', 0), NEW t \in Tags \ excused', GroupOf[t] = group'
          PROVE  Says(rows'[t], toWeb', 0, t, name'[t], value'[t], Told(t)')
      <3>1. Says(rows[t], toWeb, 0, t, name[t], value[t], Told(t))
        BY <1>3, <1>6, <2>1 DEF RowsKept
      <3>2. 0 \in 0 .. Len(toWeb)
        BY WebTyped
      <3>3. Says(rows[t], toWeb', 0, t, name'[t], value'[t], Told(t)')
        BY <1>5, <3>1, <3>2
      <3> QED BY <3>3
    <2>2. ASSUME NEW k \in DOMAIN toWeb', StartsAt(toWeb', MyLists', k), NEW t \in Tags \ excused',
                 GroupOf[t] = group'
          PROVE  Says(toWeb'[k].data[t], toWeb', k, t, name'[t], value'[t], Told(t)')
      <3>1. k \in 0 .. Len(toWeb) /\ k \in DOMAIN toWeb /\ StartsAt(toWeb, MyLists, k)
        BY <1>2, <1>3, <2>2, WebTyped
      <3>2. Says(toWeb[k].data[t], toWeb, k, t, name[t], value[t], Told(t))
        BY <1>6, <2>2, <3>1 DEF RowsKept
      <3>3. Says(toWeb[k].data[t], toWeb', k, t, name'[t], value'[t], Told(t)')
        BY <1>5, <3>1, <3>2
      <3> QED BY <1>2, <3>1, <3>3
    <2> QED BY <2>1, <2>2 DEF RowsKept
  <1>7. ListsUnique => ListsUnique'
    BY <1>1, <1>2, WebTyped DEF ListsUnique
  <1> QED BY <1>6, <1>7

(* A list of this table is on its way: what the store has just now. *)
LEMMA RowsListed ==
  ASSUME Core, StoreTypes, NamesApart, NEW e \in Answers, toWeb' = Append(toWeb, e),
         UNCHANGED <<rows, group, storeVars, excused, promise, orphans>>,
         e.id \in MyLists, e.data = ListTags(group)
  PROVE  /\ RowsKept'
         /\ ListsUnique => ListsUnique'
  <1>1. UNCHANGED <<name, value, raised, MyLists>> /\ e \in Scripts
    BY DEF storeVars, MyLists, Scripts
  <1>2. /\ DOMAIN toWeb' = 1 .. (Len(toWeb) + 1) /\ toWeb'[Len(toWeb) + 1] = e
        /\ \A k \in DOMAIN toWeb : toWeb'[k] = toWeb[k]
    BY <1>1, WebTyped
  <1>3. \A k \in Nat : StartsAt(toWeb', MyLists', k) => k = Len(toWeb) + 1
    BY <1>1, WebTyped, StartsAppend
  <1>4. \A t \in Tags : ListTags(group)[t] =
          IF GroupOf[t] = group /\ name[t] # None THEN [name |-> name[t], value |-> value[t]] ELSE None
    BY DEF ListTags
  <1>5. ASSUME NEW t \in Tags, GroupOf[t] = group
        PROVE  Says(e.data[t], toWeb', Len(toWeb) + 1, t, name'[t], value'[t], Told(t)')
    <2>1. \A l \in DOMAIN toWeb' : ~(l > Len(toWeb) + 1)
      BY <1>2, WebTyped
    <2>2. CASE name[t] = None
      BY <1>1, <1>4, <1>5, <2>2 DEF Says
    <2>3. CASE name[t] # None
      <3>1. e.data[t] # None /\ e.data[t].name = name[t] /\ e.data[t].value = value[t]
        <4>1. e.data[t] = [name |-> name[t], value |-> value[t]]
          BY <1>4, <1>5, <2>3
        <4>2. name[t] \in Names /\ value[t] \in Values
          BY <2>3, RaisedTyped
        <4> QED BY <4>1, <4>2, NoneIsNoRow DEF Row
      <3> QED BY <1>1, <2>1, <2>3, <3>1 DEF Says
    <2> QED BY <2>2, <2>3
  <1>6. RowsKept'
    BY <1>1, <1>2, <1>3, <1>5, WebTyped DEF RowsKept
  <1>7. Unique(ListTags(group))
    <2>1. ASSUME NEW t \in Tags, ListTags(group)[t] # None
          PROVE  GroupOf[t] = group /\ name[t] # None /\ ListTags(group)[t].name = name[t]
      <3>1. GroupOf[t] = group /\ name[t] # None
        BY <1>4, <2>1
      <3>2. ListTags(group)[t] = [name |-> name[t], value |-> value[t]]
        BY <1>4, <3>1
      <3> QED BY <3>1, <3>2
    <2> QED BY <2>1 DEF Unique, NamesApart
  <1>8. ListsUnique => ListsUnique'
    BY <1>1, <1>2, <1>7, WebTyped DEF ListsUnique
  <1> QED BY <1>6, <1>8

(* The answer at the front is handled: if it is a list of this table, it    *)
(* gives the rows.                                                         *)
LEMMA RowsTaken ==
  ASSUME Core, toWeb # <<>>, toWeb' = Tail(toWeb), toWeb[1].id # None,
         UNCHANGED <<group, storeVars, excused>>, SameLists,
         rows' = IF toWeb[1].id \in MyLists THEN toWeb[1].data ELSE rows
  PROVE  /\ RowsKept => RowsKept'
         /\ ListsUnique => ListsUnique'
  <1>1. UNCHANGED <<name, value, raised>> /\ ~(\E t : EventOf(toWeb[1], t))
    BY DEF storeVars, EventOf
  <1>2. /\ 1 \in DOMAIN toWeb /\ DOMAIN toWeb' \subseteq Nat \ {0} /\ 0 \in Nat /\ 0 + 1 = 1
        /\ \A k \in DOMAIN toWeb' : k + 1 \in DOMAIN toWeb /\ toWeb'[k] = toWeb[k + 1]
    BY WebTyped, TailFacts
  <1>3. \A k \in Nat : StartsAt(toWeb', MyLists', k) =>
          /\ k # 0 => StartsAt(toWeb, MyLists, k + 1)
          /\ k = 0 /\ toWeb[1].id \in MyLists => StartsAt(toWeb, MyLists, 1)
          /\ k = 0 /\ toWeb[1].id \notin MyLists => StartsAt(toWeb, MyLists, 0)
    BY WebTyped, StartsTail DEF SameLists
  <1>4. \A t : Told(t)' = Told(t)
    BY <1>1 DEF Told
  <1>5. ASSUME NEW r, NEW t, NEW k \in Nat,
               \/ Says(r, toWeb, k + 1, t, name[t], value[t], Told(t))
               \/ k = 0 /\ Says(r, toWeb, 0, t, name[t], value[t], Told(t))
        PROVE  Says(r, toWeb', k, t, name'[t], value'[t], Told(t)')
    <2> DEFINE n == name[t]
               v == value[t]
               told == Told(t)
    <2>1. /\ ~EventOf(toWeb[1], t)
          /\ Says(r, toWeb, k + 1, t, n, v, told) \/ (k = 0 /\ Says(r, toWeb, 0, t, n, v, told))
      BY <1>1, <1>5
    <2> HIDE DEF n, v, told
    <2>2. Says(r, Tail(toWeb), k, t, n, v, told)
      BY <2>1, WebTyped, SaysTail
    <2> QED BY <1>1, <1>4, <2>2 DEF n, v, told
  <1>6. ASSUME RowsKept PROVE RowsKept'
    <2>1. ASSUME StartsAt(toWeb', MyLists', 0), NEW t \in Tags \ excused', GroupOf[t] = group'
          PROVE  Says(rows'[t], toWeb', 0, t, name'[t], value'[t], Told(t)')
      <3>1. CASE toWeb[1].id \in MyLists
        <4>1. Says(toWeb[1].data[t], toWeb, 1, t, name[t], value[t], Told(t))
          BY <1>2, <1>3, <1>6, <2>1, <3>1 DEF RowsKept
        <4>2. Says(toWeb[1].data[t], toWeb', 0, t, name'[t], value'[t], Told(t)')
          BY <1>2, <1>5, <4>1
        <4> QED BY <3>1, <4>2
      <3>2. CASE toWeb[1].id \notin MyLists
        <4>1. Says(rows[t], toWeb, 0, t, name[t], value[t], Told(t))
          BY <1>2, <1>3, <1>6, <2>1, <3>2 DEF RowsKept
        <4>2. Says(rows[t], toWeb', 0, t, name'[t], value'[t], Told(t)')
          BY <1>2, <1>5, <4>1
        <4> QED BY <3>2, <4>2
      <3> QED BY <3>1, <3>2
    <2>2. ASSUME NEW k \in DOMAIN toWeb', StartsAt(toWeb', MyLists', k), NEW t \in Tags \ excused',
                 GroupOf[t] = group'
          PROVE  Says(toWeb'[k].data[t], toWeb', k, t, name'[t], value'[t], Told(t)')
      <3>1. /\ k \in Nat /\ k + 1 \in DOMAIN toWeb /\ StartsAt(toWeb, MyLists, k + 1)
            /\ toWeb'[k] = toWeb[k + 1]
        BY <1>2, <1>3, <2>2
      <3>2. Says(toWeb[k + 1].data[t], toWeb, k + 1, t, name[t], value[t], Told(t))
        BY <1>6, <2>2, <3>1 DEF RowsKept
      <3>3. Says(toWeb[k + 1].data[t], toWeb', k, t, name'[t], value'[t], Told(t)')
        BY <1>5, <3>1, <3>2
      <3> QED BY <3>1, <3>3
    <2> QED BY <2>1, <2>2 DEF RowsKept
  <1>7. ASSUME ListsUnique PROVE ListsUnique'
    <2>1. Unique(rows')
      BY <1>2, <1>7 DEF ListsUnique
    <2>2. \A k \in DOMAIN toWeb' : toWeb'[k].id \in MyLists' => Unique(toWeb'[k].data)
      BY <1>2, <1>7 DEF ListsUnique, SameLists
    <2> QED BY <2>1, <2>2 DEF ListsUnique
  <1> QED BY <1>6, <1>7

(* What an event does to the rows: it is about the row of its name. *)
LEMMA EventHits ==
  ASSUME ViewTypes, NEW e \in Event, OnTagValueChanged(e), handler = group, group # None,
         Unique(rows)
  PROVE  /\ excused \subseteq excused' /\ Unique(rows')
         /\ \A t \in Tags : rows[t] = None => rows'[t] = None
         /\ \A t \in Tags \ excused' : rows[t] # None =>
              IF e.tag = t /\ rows[t].name = e.name
              THEN rows'[t] # None /\ rows'[t].name = rows[t].name /\ rows'[t].value = e.value
              ELSE e.tag = t \/ rows'[t] = rows[t]
  <1>1. rows \in Tables /\ e.tag \in Tags /\ e.value \in Values
    BY DEF ViewTypes, Event
  <1>2. CASE \E t \in Tags : rows[t] # None /\ rows[t].name = e.name
    <2> DEFINE u == RowNamed(e.name)
    <2>1. u \in Tags /\ rows[u] # None /\ rows[u].name = e.name
      BY <1>2 DEF RowNamed
    <2>2. /\ rows' = [rows EXCEPT ![u] = [rows[u] EXCEPT !.value = e.value]]
          /\ excused' = IF e.tag = u THEN excused ELSE excused \cup {u}
      BY <1>2 DEF OnTagValueChanged
    <2> HIDE DEF u
    <2>3. rows[u] \in Row
      BY <1>1, <2>1 DEF Tables
    <2>4. LET q == [rows[u] EXCEPT !.value = e.value]
          IN q # None /\ q.name = rows[u].name /\ q.value = e.value
      <3>1. [rows[u] EXCEPT !.value = e.value] \in Row
        BY <1>1, <2>3 DEF Row
      <3> QED BY <2>3, <3>1, NoneIsNoRow DEF Row
    <2>5. /\ rows'[u] # None /\ rows'[u].name = rows[u].name /\ rows'[u].value = e.value
          /\ \A t \in Tags \ {u} : rows'[t] = rows[t]
      BY <1>1, <2>1, <2>2, <2>4 DEF Tables
    <2>6. Unique(rows')
      BY <2>1, <2>5 DEF Unique
    <2>7. \A t \in Tags : rows[t] # None /\ rows[t].name = e.name => t = u
      BY <2>1 DEF Unique
    <2>8. excused \subseteq excused'
      BY <2>2
    <2>9. ASSUME NEW t \in Tags \ excused', rows[t] # None
          PROVE  IF e.tag = t /\ rows[t].name = e.name
                 THEN rows'[t] # None /\ rows'[t].name = rows[t].name /\ rows'[t].value = e.value
                 ELSE e.tag = t \/ rows'[t] = rows[t]
      BY <2>2, <2>5, <2>7, <2>9
    <2> QED BY <2>1, <2>5, <2>6, <2>8, <2>9
  <1>3. CASE ~\E t \in Tags : rows[t] # None /\ rows[t].name = e.name
    <2>1. rows' = rows /\ excused' = excused
      BY <1>3 DEF OnTagValueChanged
    <2> QED BY <1>3, <2>1
  <1> QED BY <1>2, <1>3

(* An event is handled. *)
LEMMA RowsTold ==
  ASSUME Core, ViewTypes, ReceiveEvent, handler = group, group # None, ListsUnique
  PROVE  /\ RowsKept => RowsKept'
         /\ ListsUnique'
  <1> DEFINE e == toWeb[1].data
  <1>1. /\ toWeb # <<>> /\ toWeb' = Tail(toWeb) /\ toWeb[1].id = None /\ OnTagValueChanged(e)
        /\ UNCHANGED <<name, value, raised, group, orphans, promise>>
    <2>1. Head(toWeb) = toWeb[1]
      BY WebTyped DEF ReceiveEvent
    <2> QED BY <2>1 DEF ReceiveEvent, storeVars, mountVars
  <1>2. e \in Event
    BY <1>1, WebTyped, ReceiveEventFacts, TailFacts
  <1> HIDE DEF e
  <1>3. /\ excused \subseteq excused' /\ Unique(rows')
        /\ \A t \in Tags : rows[t] = None => rows'[t] = None
        /\ \A t \in Tags \ excused' : rows[t] # None =>
             IF e.tag = t /\ rows[t].name = e.name
             THEN rows'[t] # None /\ rows'[t].name = rows[t].name /\ rows'[t].value = e.value
             ELSE e.tag = t \/ rows'[t] = rows[t]
    BY <1>1, <1>2, EventHits DEF ListsUnique
  <1>4. /\ 1 \in DOMAIN toWeb /\ DOMAIN toWeb' \subseteq Nat \ {0} /\ 0 \in Nat
        /\ \A k \in DOMAIN toWeb' : k + 1 \in DOMAIN toWeb /\ toWeb'[k] = toWeb[k + 1]
    BY <1>1, WebTyped, TailFacts
  <1>5. MyLists' = MyLists /\ toWeb[1].id \notin MyLists /\ \A t : Told(t)' = Told(t)
    BY <1>1, WebTyped DEF MyLists, Told
  <1>6. \A k \in Nat : StartsAt(toWeb', MyLists', k) =>
          /\ k # 0 => StartsAt(toWeb, MyLists, k + 1)
          /\ k = 0 => StartsAt(toWeb, MyLists, 0)
    BY <1>1, <1>5, WebTyped, StartsTail
  <1>7. ASSUME RowsKept PROVE RowsKept'
    <2>1. ASSUME StartsAt(toWeb', MyLists', 0), NEW t \in Tags \ excused', GroupOf[t] = group'
          PROVE  Says(rows'[t], toWeb', 0, t, name'[t], value'[t], Told(t)')
      <3> DEFINE n == name[t]
                 v == value[t]
                 told == Told(t)
                 r == rows[t]
                 q == rows'[t]
      <3>1. Says(r, toWeb, 0, t, n, v, told)
        BY <1>1, <1>3, <1>4, <1>6, <1>7, <2>1 DEF RowsKept
      <3>2. CASE n = None
        <4>1. q = None
          BY <1>3, <3>1, <3>2 DEF Says
        <4>2. Says(q, toWeb', 0, t, n, v, told)
          BY <3>2, <4>1 DEF Says
        <4> QED BY <1>1, <1>5, <4>2
      <3>3. CASE n # None /\ e.tag = t
        <4>1. EventOf(toWeb[1], t) /\ r # None /\ r.name = n /\ e.name = n
          <5>1. EventOf(toWeb[1], t)
            BY <1>1, <3>3 DEF EventOf, e
          <5> QED BY <1>4, <3>1, <3>3, <5>1 DEF Says, e
        <4>2. q # None /\ q.name = r.name /\ q.value = toWeb[1].data.value
          BY <1>3, <3>3, <4>1 DEF e
        <4> HIDE DEF n, v, told, r, q
        <4>3. Says(q, Tail(toWeb), 0, t, n, v, told)
          BY <1>1, <3>1, <3>3, <4>1, <4>2, WebTyped, SaysTail
        <4> QED BY <1>1, <1>5, <4>3 DEF n, v, told, q
      <3>4. CASE n # None /\ e.tag # t
        <4>1. q = r
          BY <1>3, <3>1, <3>4 DEF Says
        <4>2. ~EventOf(toWeb[1], t)
          BY <3>4 DEF EventOf, e
        <4> HIDE DEF n, v, told, r, q
        <4>3. Says(q, Tail(toWeb), 0, t, n, v, told)
          BY <1>1, <3>1, <4>1, <4>2, WebTyped, SaysTail
        <4> QED BY <1>1, <1>5, <4>3 DEF n, v, told, q
      <3> QED BY <3>2, <3>3, <3>4
    <2>2. ASSUME NEW k \in DOMAIN toWeb', StartsAt(toWeb', MyLists', k), NEW t \in Tags \ excused',
                 GroupOf[t] = group'
          PROVE  Says(toWeb'[k].data[t], toWeb', k, t, name'[t], value'[t], Told(t)')
      <3> DEFINE n == name[t]
                 v == value[t]
                 told == Told(t)
                 r == toWeb[k + 1].data[t]
      <3>1. k \in Nat /\ k + 1 \in DOMAIN toWeb /\ StartsAt(toWeb, MyLists, k + 1)
            /\ toWeb'[k] = toWeb[k + 1]
        BY <1>4, <1>6, <2>2
      <3>2. Says(r, toWeb, k + 1, t, n, v, told)
        BY <1>1, <1>3, <1>7, <2>2, <3>1 DEF RowsKept
      <3> HIDE DEF n, v, told, r
      <3>3. Says(r, Tail(toWeb), k, t, n, v, told)
        BY <1>1, <3>1, <3>2, WebTyped, SaysTail
      <3> QED BY <1>1, <1>5, <3>1, <3>3 DEF n, v, told, r
    <2> QED BY <2>1, <2>2 DEF RowsKept
  <1>8. ListsUnique'
    BY <1>3, <1>4, <1>5 DEF ListsUnique
  <1> QED BY <1>7, <1>8

(* What an event leaves untold, nothing more need be said of. *)
LEMMA SaysLess ==
  ASSUME NEW r, NEW w, NEW k, NEW t, NEW n, NEW v, NEW told, NEW later, Says(r, w, k, t, n, v, told),
         later => told
  PROVE  Says(r, w, k, t, n, v, later)
  BY DEF Says

(* The value of a tag changes: the row waits for the event. *)
LEMMA RowsRaised ==
  ASSUME StoreTypes, NEW u \in Tags, NEW x \in Values, ValueChanges(u, x)
  PROVE  /\ RowsKept => RowsKept'
         /\ ListsUnique => ListsUnique'
  <1> DEFINE e == [tag |-> u, name |-> name[u], value |-> x]
  <1>1. /\ value' = [value EXCEPT ![u] = x] /\ raised' = Append(raised, e)
        /\ UNCHANGED <<name, rows, group, orphans, excused, promise, toWeb>>
    BY DEF ValueChanges, HostVars, viewVars, bridgeVars, answerVars
  <1>2. raised \in Seq(Event) /\ value \in [Tags -> Values] /\ e.tag = u
    BY DEF StoreTypes
  <1> HIDE DEF e
  <1>3. /\ Len(raised) \in Nat /\ DOMAIN raised = 1 .. Len(raised)
        /\ DOMAIN raised' = 1 .. (Len(raised) + 1) /\ raised'[Len(raised) + 1] = e
        /\ \A k \in DOMAIN raised : raised'[k] = raised[k]
    BY <1>1, <1>2
  <1>4. ~Told(u)' /\ \A t : Told(t)' => Told(t)
    BY <1>2, <1>3 DEF Told
  <1>5. ASSUME NEW t \in Tags, NEW r, NEW k, Says(r, toWeb, k, t, name[t], value[t], Told(t))
        PROVE  Says(r, toWeb', k, t, name'[t], value'[t], Told(t)')
    <2> DEFINE n == name[t]
               v == value[t]
               y == value'[t]
               told == Told(t)
               later == Told(t)'
    <2>1. Says(r, toWeb, k, t, n, v, told) /\ (later => told)
      BY <1>4, <1>5
    <2>2. t = u => ~later
      BY <1>4
    <2>3. t # u => y = v
      BY <1>1, <1>2
    <2> HIDE DEF n, v, y, told, later
    <2>4. Says(r, toWeb, k, t, n, v, later)
      BY <2>1, SaysLess
    <2>5. Says(r, toWeb, k, t, n, y, later)
      BY <2>2, <2>3, <2>4 DEF Says
    <2> QED BY <1>1, <2>5 DEF n, y, later
  <1>6. MyLists' = MyLists
    BY <1>1 DEF MyLists
  <1>7. RowsKept => RowsKept'
    BY <1>1, <1>5, <1>6 DEF RowsKept, StartsAt
  <1>8. ListsUnique => ListsUnique'
    BY <1>1, <1>6 DEF ListsUnique
  <1> QED BY <1>7, <1>8

(* The event of a tag is pushed to the page. If no other of it is raised,  *)
(* it says what the store has.                                             *)
LEMMA RowsPublished ==
  ASSUME Core, StoreTypes, RaisedKept, NEW k, Takes(k),
         toWeb' = Append(toWeb, [id |-> None, ok |-> TRUE, data |-> raised[k]]),
         UNCHANGED <<rows, group, orphans, promise>>
  PROVE  /\ RowsKept => RowsKept'
         /\ ListsUnique => ListsUnique'
  <1> DEFINE e == [id |-> None, ok |-> TRUE, data |-> raised[k]]
  <1>1. /\ k \in DOMAIN raised /\ raised \in Seq(Event) /\ raised[k] \in Event
        /\ UNCHANGED <<name, value>> /\ MyLists' = MyLists
    BY RaisedTyped DEF Takes, MyLists
  <1>2. e \in Scripts /\ e.id = None /\ e.data = raised[k] /\ toWeb' = Append(toWeb, e)
    BY <1>1 DEF Scripts, Pushes
  <1> HIDE DEF e
  <1>3. /\ Len(raised) \in Nat /\ DOMAIN raised = 1 .. Len(raised) /\ k \in 1 .. Len(raised)
        /\ DOMAIN raised' = 1 .. (Len(raised) - 1)
        /\ \A j \in DOMAIN raised' : raised'[j] = IF j < k THEN raised[j] ELSE raised[j + 1]
    BY <1>1, Removed DEF Takes
  <1>4. \A j \in DOMAIN raised : j # k => \E i \in DOMAIN raised' : raised'[i] = raised[j]
    <2> SUFFICES ASSUME NEW j \in DOMAIN raised, j # k
                 PROVE  \E i \in DOMAIN raised' : raised'[i] = raised[j]
      OBVIOUS
    <2>1. CASE j < k
      BY <1>3, <2>1
    <2>2. CASE j > k
      <3>1. j - 1 \in DOMAIN raised' /\ ~(j - 1 < k) /\ (j - 1) + 1 = j
        BY <1>3, <2>2
      <3> QED BY <1>3, <3>1
    <2> QED BY <1>3, <2>1, <2>2
  <1>5. excused \subseteq excused'
        /\ (raised[k].tag \notin excused' => \A j \in DOMAIN raised : j < k => raised[j].tag # raised[k].tag)
    BY <1>3 DEF Takes
  <1>6. /\ DOMAIN toWeb' = 1 .. (Len(toWeb) + 1) /\ toWeb'[Len(toWeb) + 1] = e
        /\ \A l \in DOMAIN toWeb : toWeb'[l] = toWeb[l]
    BY <1>2, WebTyped
  <1>7. e.id \notin MyLists
    BY <1>2, WebTyped DEF MyLists
  <1>8. \A l \in Nat : StartsAt(toWeb', MyLists', l) => l \in 0 .. Len(toWeb) /\ StartsAt(toWeb, MyLists, l)
    BY <1>1, <1>2, <1>7, WebTyped, StartsAppend
  <1>9. ASSUME NEW t \in Tags \ excused', NEW r, NEW l \in 0 .. Len(toWeb),
               Says(r, toWeb, l, t, name[t], value[t], Told(t))
        PROVE  Says(r, toWeb', l, t, name'[t], value'[t], Told(t)')
    <2> DEFINE n == name[t]
               v == value[t]
               told == Told(t)
               later == Told(t)'
    <2>1. CASE raised[k].tag # t
      <3>1. ~EventOf(e, t) /\ (later => told)
        <4>1. ~EventOf(e, t)
          BY <1>2, <2>1 DEF EventOf
        <4>2. ASSUME later PROVE told
          BY <1>4, <2>1, <4>2 DEF Told
        <4> QED BY <4>1, <4>2
      <3>2. Says(r, toWeb, l, t, n, v, told)
        BY <1>9
      <3> HIDE DEF n, v, told, later
      <3>3. Says(r, Append(toWeb, e), l, t, n, v, later)
        BY <1>2, <3>1, <3>2, WebTyped, SaysAppend
      <3> QED BY <1>1, <1>2, <3>3 DEF n, v, later
    <2>2. CASE raised[k].tag = t
      <3>1. n \in {None, raised[k].name} /\ (LastOf(raised, k) => raised[k].value = v)
        BY <1>1, <1>5, <1>9, <2>2 DEF RaisedKept
      <3>2. later => LastOf(raised, k)
        <4> SUFFICES ASSUME later, NEW j \in DOMAIN raised, raised[j].tag = raised[k].tag
                     PROVE  j <= k
          BY DEF LastOf
        <4>1. j = k
          BY <1>4, <2>2 DEF Told
        <4> QED BY <1>3, <4>1
      <3>3. EventOf(e, t) /\ e.data.name = raised[k].name /\ e.data.value = raised[k].value
        BY <1>2, <2>2 DEF EventOf
      <3>4. Says(r, toWeb, l, t, n, v, told)
        BY <1>9
      <3> HIDE DEF n, v, told, later
      <3>5. n = None \/ (n # None /\ EventOf(e, t) /\ e.data.name = n /\ (later => e.data.value = v))
        BY <3>1, <3>2, <3>3
      <3>6. Says(r, Append(toWeb, e), l, t, n, v, later)
        BY <1>2, <3>4, <3>5, WebTyped, SaysAppend
      <3> QED BY <1>1, <1>2, <3>6 DEF n, v, later
    <2> QED BY <2>1, <2>2
  <1>10. ASSUME RowsKept PROVE RowsKept'
    <2>1. ASSUME StartsAt(toWeb', MyLists', 0), NEW t \in Tags \ excused', GroupOf[t] = group'
          PROVE  Says(rows'[t], toWeb', 0, t, name'[t], value'[t], Told(t)')
      <3>1. Says(rows[t], toWeb, 0, t, name[t], value[t], Told(t))
        BY <1>5, <1>8, <1>10, <2>1 DEF RowsKept
      <3>2. 0 \in 0 .. Len(toWeb)
        BY WebTyped
      <3>3. Says(rows[t], toWeb', 0, t, name'[t], value'[t], Told(t)')
        BY <1>9, <3>1, <3>2
      <3> QED BY <3>3
    <2>2. ASSUME NEW l \in DOMAIN toWeb', StartsAt(toWeb', MyLists', l), NEW t \in Tags \ excused',
                 GroupOf[t] = group'
          PROVE  Says(toWeb'[l].data[t], toWeb', l, t, name'[t], value'[t], Told(t)')
      <3>1. l \in 0 .. Len(toWeb) /\ l \in DOMAIN toWeb /\ StartsAt(toWeb, MyLists, l)
        <4>1. l \in Nat /\ l # 0
          BY <1>6, <2>2, WebTyped
        <4>2. l \in 0 .. Len(toWeb) /\ StartsAt(toWeb, MyLists, l)
          BY <1>8, <2>2, <4>1
        <4> QED BY <4>1, <4>2, WebTyped
      <3>2. Says(toWeb[l].data[t], toWeb, l, t, name[t], value[t], Told(t))
        BY <1>5, <1>10, <2>2, <3>1 DEF RowsKept
      <3>3. Says(toWeb[l].data[t], toWeb', l, t, name'[t], value'[t], Told(t)')
        BY <1>9, <3>1, <3>2
      <3> QED BY <1>6, <3>1, <3>3
    <2> QED BY <2>1, <2>2 DEF RowsKept
  <1>11. ListsUnique => ListsUnique'
    BY <1>1, <1>6, <1>7, WebTyped DEF ListsUnique
  <1> QED BY <1>10, <1>11

-----------------------------------------------------------------------------
(* The steps of the table, for what it asks and where the messages are *)

(* What the user does switches the group, makes a call, or does neither. *)
LEMMA UserSteps ==
  ASSUME ViewTypes, View, UserStep
  PROVE  \/ \E g \in Groups \cup {None} : SwitchGroup(g)
         \/ \E call \in CallsMade : Make(call) /\ rows' = rows
         \/ UNCHANGED <<bridgeVars, storeVars, group, orphans, clean, excused, rows>>
  <1>1. CASE OpenSome \/ CloseDialog \/ (\E t \in Tags, v \in {Default, Typed} : Type(t, v))
    BY <1>1 DEF OpenSome, OpenDialog, CloseDialog, Type, Click
  <1>2. CASE HandleRefresh
    <2>1. CallTo("ListTags", group, "refresh") \in CallsMade
      BY <1>2 DEF HandleRefresh, AtTable, ViewTypes, CallTo, CallsMade
    <2> QED BY <1>2, <2>1 DEF HandleRefresh
  <1>3. ASSUME NEW n \in Names, HandleAddTag(n)
        PROVE  \E call \in CallsMade : Make(call) /\ rows' = rows
    <2>1. group \in Groups
      BY <1>3 DEF HandleAddTag, ViewTypes, View, DialogOfTable, Closed
    <2>2. CallTo("AddTag", group, n) \in CallsMade
      BY <2>1 DEF CallTo, CallsMade
    <2> QED BY <1>3, <2>2 DEF HandleAddTag, viewVars
  <1>4. ASSUME NEW n \in Names, HandleSaveEdit(n)
        PROVE  \E call \in CallsMade : Make(call) /\ rows' = rows
    <2>1. dialog[2] \in Tags
      BY <1>4 DEF HandleSaveEdit, ViewTypes, Closed
    <2>2. CallTo("UpdateTag", dialog[2], n) \in CallsMade
      BY <2>1 DEF CallTo, CallsMade
    <2> QED BY <1>4, <2>2 DEF HandleSaveEdit, viewVars
  <1>5. CASE HandleRemoveTag
    <2>1. dialog[2] \in Tags
      BY <1>5 DEF HandleRemoveTag, ViewTypes, Closed
    <2>2. CallTo("RemoveTag", dialog[2], None) \in CallsMade
      BY <2>1 DEF CallTo, CallsMade
    <2> QED BY <1>5, <2>2 DEF HandleRemoveTag
  <1>6. ASSUME NEW n \in Names, HandleShowHistory(n)
        PROVE  \E call \in CallsMade : Make(call) /\ rows' = rows
    <2>1. CallTo("GetTagHistory", group, n) \in CallsMade
      BY <1>6 DEF HandleShowHistory, AtTable, ViewTypes, CallTo, CallsMade
    <2> QED BY <1>6, <2>1 DEF HandleShowHistory
  <1>7. ASSUME NEW t \in Tags, HandleWriteTag(t)
        PROVE  \E call \in CallsMade : Make(call) /\ rows' = rows
    <2>1. CallTo("WriteTag", t, None) \in CallsMade
      BY DEF CallTo, CallsMade
    <2> QED BY <1>7, <2>1 DEF HandleWriteTag
  <1> QED BY <1>1, <1>2, <1>3, <1>4, <1>5, <1>6, <1>7 DEF UserStep

(* Which way a call goes. *)
LEMMA TurnWay ==
  ASSUME BridgeTypes, NEW done, NEW i \in Ids, NEW call \in CallsMade,
         Turn(done, <<Request(i, call)>>)
  PROVE  /\ Request(i, call).web <=> platform = "webview"
         /\ platform = "webview" => toNative' = Append(toNative, Request(i, call)) /\ http' = http
         /\ platform # "webview" => toNative' = toNative /\ http' = http \cup {Request(i, call)}
  <1> DEFINE r == Request(i, call)
  <1>1. r \in Requests /\ (r.web <=> platform = "webview")
    BY DEF Request, Requests
  <1>2. Turn(done, <<r>>)
    OBVIOUS
  <1> HIDE DEF r
  <1>3. toNative \o <<r>> = Append(toNative, r)
    BY <1>1 DEF BridgeTypes
  <1>4. {<<r>>[k] : k \in DOMAIN <<r>>} = {r}
    OBVIOUS
  <1> QED BY <1>1, <1>2, <1>3, <1>4 DEF Turn, r

(* Messages by the native channel are answered there, requests by HTTP are not. *)
LEMMA WaysTurn ==
  ASSUME BridgeTypes, Ways, NEW done, NEW i \in Ids, NEW call \in CallsMade,
         Turn(done, <<Request(i, call)>>)
  PROVE  Ways'
  <1> DEFINE r == Request(i, call)
  <1>1. /\ r.web <=> platform = "webview"
        /\ platform = "webview" => toNative' = Append(toNative, r) /\ http' = http
        /\ platform # "webview" => toNative' = toNative /\ http' = http \cup {r}
        /\ r \in Requests
    BY TurnWay DEF Request, Requests
  <1> HIDE DEF r
  <1>2. CASE platform = "webview"
    <2>1. /\ DOMAIN toNative' = 1 .. (Len(toNative) + 1) /\ Len(toNative) \in Nat
          /\ DOMAIN toNative = 1 .. Len(toNative)
          /\ toNative'[Len(toNative) + 1] = r /\ \A k \in DOMAIN toNative : toNative'[k] = toNative[k]
      BY <1>1, <1>2 DEF BridgeTypes
    <2>2. \A k \in DOMAIN toNative' : k = Len(toNative) + 1 \/ k \in DOMAIN toNative
      BY <2>1
    <2> QED BY <1>1, <1>2, <2>1, <2>2 DEF Ways
  <1>3. CASE platform # "webview"
    BY <1>1, <1>3 DEF Ways
  <1> QED BY <1>2, <1>3

LEMMA WaysFewer ==
  ASSUME Ways, http' \subseteq http,
         \A k \in DOMAIN toNative' : \E l \in DOMAIN toNative : toNative'[k] = toNative[l]
  PROVE  Ways'
  BY DEF Ways

LEMMA WaysContinue ==
  ASSUME Core, Ways, NEW answer \in Answers, Continue(answer)
  PROVE  Ways'
  <1> DEFINE i == answer.id
             call == promise[i]
             next == CallTo("ListTags", GroupAsked(call), "load")
  <1>1. Arrives(answer) /\ Turn({i}, Following(answer, call))
    BY DEF Continue
  <1>2. i \in Ids /\ call \in CallsMade
    BY <1>1, ArrivesFacts DEF Fits
  <1>3. CASE call.method \in Changing /\ answer.ok
    <2>1. Turn({i}, <<Request(i, next)>>)
      BY <1>1, <1>3 DEF Following
    <2>2. next \in CallsMade
      BY <1>2, CallTypes DEF CallTo, CallsMade
    <2> HIDE DEF i, next
    <2> QED BY <1>2, <2>1, <2>2, WaysTurn DEF Core
  <1>4. CASE ~(call.method \in Changing /\ answer.ok)
    <2>1. Turn({i}, <<>>)
      BY <1>1, <1>4 DEF Following
    <2> QED BY <2>1, TurnNone, WaysFewer DEF Core
  <1> QED BY <1>3, <1>4

LEMMA WaysNext ==
  ASSUME IInv, Ways, [Next]_vars
  PROVE  Ways'
  <1>1. Core /\ ViewTypes /\ View /\ StoreTypes /\ BridgeTypes
    BY DEF IInv, Core
  <1>2. CASE UserStep
    <2>1. ASSUME NEW g \in Groups \cup {None}, SwitchGroup(g) PROVE Ways'
      <3>1. CASE g = None
        <4>1. Turn({}, <<>>)
          BY <2>1, <3>1 DEF SwitchGroup
        <4> QED BY <1>1, <4>1, TurnNone, WaysFewer
      <3>2. CASE g # None
        <4> DEFINE call == CallTo("ListTags", g, "load")
        <4>1. Turn({}, <<Request(NextId, call)>>) /\ FreeIds # {}
          BY <2>1, <3>2 DEF SwitchGroup
        <4>2. call \in CallsMade
          BY <3>2 DEF CallTo, CallsMade
        <4> HIDE DEF call
        <4> QED BY <1>1, <4>1, <4>2, NextIdFree, WaysTurn
      <3> QED BY <3>1, <3>2
    <2>2. ASSUME NEW call \in CallsMade, Make(call) PROVE Ways'
      BY <1>1, <2>2, NextIdFree, WaysTurn DEF Make
    <2>3. CASE UNCHANGED bridgeVars
      BY <2>3 DEF Ways, bridgeVars, nativeVars
    <2> QED BY <1>1, <1>2, <2>1, <2>2, <2>3, UserSteps
  <1>3. CASE Answering
    BY <1>1, <1>3, AnsweringFacts, WaysContinue
  <1>4. CASE Handling
    <2>1. PICK m \in http \cup {toNative[k] : k \in DOMAIN toNative} : Handle(m)
      BY <1>4 DEF Handling
    <2>2. m \in Requests
      BY <1>1 DEF BridgeTypes
    <2>3. Received(m)
      BY <2>1 DEF Handle, UpdateTag, Query, AddTag, RemoveTag, BeginWrite, HandleInvoke, BeginInvoke
    <2> QED BY <1>1, <2>2, <2>3, ReceivedFacts, WaysFewer
  <1>5. CASE ReceiveEvent \/ Writing \/ Publishing \/ Injecting \/ UNCHANGED vars
             \/ \E t \in Tags, v \in Values : ValueChanges(t, v)
    <2>1. UNCHANGED <<toNative, http>>
      BY <1>5 DEF ReceiveEvent, Writing, FinishWrite, FinishInvoke, Publishing, PublishEvent, Injecting,
                  InjectBridge, ValueChanges, vars, bridgeVars, nativeVars
    <2> QED BY <2>1 DEF Ways
  <1> QED BY <1>2, <1>3, <1>4, <1>5 DEF Next

(* A list of this table that is asked for, while messages come and go. *)
LEMMA AskedAppend ==
  ASSUME BridgeTypes, NEW r \in Requests, toNative' = Append(toNative, r), orphans' = orphans,
         r.id \in orphans => r.call.method \notin Changing
  PROVE  /\ LeftBefore => LeftBefore'
         /\ ListAsked \/ AsksList(r) => ListAsked'
  <1>1. /\ Len(toNative) \in Nat /\ DOMAIN toNative = 1 .. Len(toNative)
        /\ DOMAIN toNative' = 1 .. (Len(toNative) + 1)
        /\ toNative'[Len(toNative) + 1] = r /\ \A k \in DOMAIN toNative : toNative'[k] = toNative[k]
    BY DEF BridgeTypes
  <1>2. \A m : AsksList(m)' = AsksList(m)
    BY DEF AsksList
  <1>3. ASSUME LeftBefore, NEW k \in DOMAIN toNative', toNative'[k].id \in orphans',
               toNative'[k].call.method \in Changing
        PROVE  \E l \in DOMAIN toNative' : l > k /\ AsksList(toNative[l])'
    <2>1. k \in DOMAIN toNative /\ toNative'[k] = toNative[k]
      BY <1>1, <1>3
    <2>2. PICK l \in DOMAIN toNative : l > k /\ AsksList(toNative[l])
      BY <1>3, <2>1 DEF LeftBefore
    <2>3. l \in DOMAIN toNative' /\ toNative'[l] = toNative[l]
      BY <1>1
    <2> QED BY <1>2, <2>2, <2>3
  <1>4. LeftBefore => LeftBefore'
    BY <1>3 DEF LeftBefore
  <1>5. ListAsked => ListAsked'
    <2> SUFFICES ASSUME NEW k \in DOMAIN toNative, AsksList(toNative[k])
                 PROVE  ListAsked'
      BY DEF ListAsked
    <2>1. k \in DOMAIN toNative' /\ AsksList(toNative[k])'
      BY <1>1, <1>2
    <2> QED BY <2>1 DEF ListAsked
  <1>6. AsksList(r) => ListAsked'
    <2>1. Len(toNative) + 1 \in DOMAIN toNative'
      BY <1>1
    <2> QED BY <1>1, <1>2, <2>1 DEF ListAsked
  <1> QED BY <1>4, <1>5, <1>6

LEMMA AskedTail ==
  ASSUME BridgeTypes, toNative # <<>>, toNative' = Tail(toNative), orphans' = orphans
  PROVE  /\ LeftBefore => LeftBefore'
         /\ ListAsked => AsksList(toNative[1]) \/ ListAsked'
         /\ LeftBefore /\ toNative[1].id \in orphans /\ toNative[1].call.method \in Changing => ListAsked'
  <1>1. /\ 1 \in DOMAIN toNative /\ DOMAIN toNative \subseteq Nat \ {0} /\ DOMAIN toNative' \subseteq Nat \ {0}
        /\ \A l \in DOMAIN toNative' : l + 1 \in DOMAIN toNative /\ toNative'[l] = toNative[l + 1]
        /\ \A l \in DOMAIN toNative : l = 1 \/ l - 1 \in DOMAIN toNative'
    BY TailFacts DEF BridgeTypes
  <1>2. \A l \in DOMAIN toNative : l # 1 => l - 1 \in DOMAIN toNative' /\ toNative'[l - 1] = toNative[l]
    BY <1>1
  <1>3. \A m : AsksList(m)' = AsksList(m)
    BY DEF AsksList
  <1>4. ASSUME LeftBefore, NEW k \in DOMAIN toNative', toNative'[k].id \in orphans',
               toNative'[k].call.method \in Changing
        PROVE  \E l \in DOMAIN toNative' : l > k /\ AsksList(toNative[l])'
    <2>1. PICK l \in DOMAIN toNative : l > k + 1 /\ AsksList(toNative[l])
      BY <1>1, <1>4 DEF LeftBefore
    <2>2. l - 1 \in DOMAIN toNative' /\ l - 1 > k /\ toNative'[l - 1] = toNative[l]
      BY <1>1, <1>2, <2>1
    <2> QED BY <1>3, <2>1, <2>2
  <1>5. ASSUME NEW l \in DOMAIN toNative, l # 1, AsksList(toNative[l]) PROVE ListAsked'
    <2>1. l - 1 \in DOMAIN toNative' /\ AsksList(toNative[l - 1])'
      BY <1>2, <1>3, <1>5
    <2> QED BY <2>1 DEF ListAsked
  <1>6. LeftBefore => LeftBefore'
    BY <1>4 DEF LeftBefore
  <1>7. ListAsked => AsksList(toNative[1]) \/ ListAsked'
    BY <1>5 DEF ListAsked
  <1>8. ASSUME LeftBefore, toNative[1].id \in orphans, toNative[1].call.method \in Changing
        PROVE  ListAsked'
    <2>1. PICK l \in DOMAIN toNative : l > 1 /\ AsksList(toNative[l])
      BY <1>1, <1>8 DEF LeftBefore
    <2> QED BY <1>1, <1>5, <2>1
  <1> QED BY <1>6, <1>7, <1>8

LEMMA AskedStays ==
  ASSUME toNative' = toNative, orphans' \subseteq orphans
  PROVE  /\ LeftBefore => LeftBefore'
         /\ ListAsked => ListAsked'
  <1>1. \A m : AsksList(m) => AsksList(m)'
    BY DEF AsksList
  <1>2. ListAsked => ListAsked'
    BY <1>1 DEF ListAsked
  <1>3. LeftBefore => LeftBefore'
    BY <1>1 DEF LeftBefore
  <1> QED BY <1>2, <1>3

(* Something is added to what is on its way to the page. *)
LEMMA ToldAppend ==
  ASSUME Core, NEW e \in Scripts, toWeb' = Append(toWeb, e),
         orphans' = orphans, promise' = promise
  PROVE  /\ ChangeTold \/ SomeChange(e) => ChangeTold'
         /\ rows' = rows /\ (e.id \in MyLists => Unique(e.data)) /\ ListsUnique => ListsUnique'
  <1>1. /\ Len(toWeb) \in Nat /\ DOMAIN toWeb = 1 .. Len(toWeb) /\ DOMAIN toWeb' = 1 .. (Len(toWeb) + 1)
        /\ toWeb'[Len(toWeb) + 1] = e /\ \A k \in DOMAIN toWeb : toWeb'[k] = toWeb[k]
    BY WebTyped
  <1>2. MyLists' = MyLists /\ \A a : SomeChange(a)' = SomeChange(a)
    BY DEF MyLists, SomeChange
  <1>3. ChangeTold => ChangeTold'
    <2> SUFFICES ASSUME NEW k \in DOMAIN toWeb, SomeChange(toWeb[k]) PROVE ChangeTold'
      BY DEF ChangeTold
    <2>1. k \in DOMAIN toWeb' /\ SomeChange(toWeb[k])'
      BY <1>1, <1>2
    <2> QED BY <2>1 DEF ChangeTold
  <1>4. SomeChange(e) => ChangeTold'
    <2>1. Len(toWeb) + 1 \in DOMAIN toWeb'
      BY <1>1
    <2> QED BY <1>1, <1>2, <2>1 DEF ChangeTold
  <1>5. rows' = rows /\ (e.id \in MyLists => Unique(e.data)) /\ ListsUnique => ListsUnique'
    BY <1>1, <1>2 DEF ListsUnique
  <1> QED BY <1>3, <1>4, <1>5

(* The front of it is taken, and the promises of the others stay. *)
LEMMA ToldTail ==
  ASSUME Core, toWeb # <<>>, toWeb' = Tail(toWeb), orphans' \subseteq orphans,
         \A j \in Ids : j # toWeb[1].id => promise'[j] = promise[j]
  PROVE  ChangeTold => SomeChange(toWeb[1]) \/ ChangeTold'
  <1>1. /\ 1 \in DOMAIN toWeb
        /\ \A l \in DOMAIN toWeb : l = 1 \/ l - 1 \in DOMAIN toWeb'
        /\ \A l \in DOMAIN toWeb' : l + 1 \in DOMAIN toWeb /\ toWeb'[l] = toWeb[l + 1]
        /\ DOMAIN toWeb \subseteq Nat \ {0}
    BY WebTyped, TailFacts
  <1>2. ASSUME NEW l \in DOMAIN toWeb, l # 1, SomeChange(toWeb[l]) PROVE ChangeTold'
    <2>1. l - 1 \in DOMAIN toWeb' /\ toWeb'[l - 1] = toWeb[l]
      BY <1>1, <1>2
    <2>2. toWeb[l].id # toWeb[1].id /\ toWeb[l].id \in Ids
      BY <1>1, <1>2, WebTyped DEF SomeChange
    <2>3. SomeChange(toWeb[l - 1])'
      BY <1>2, <2>1, <2>2 DEF SomeChange
    <2> QED BY <2>1, <2>3 DEF ChangeTold
  <1> QED BY <1>2 DEF ChangeTold

LEMMA ToldStays ==
  ASSUME Core, toWeb' = toWeb, orphans' \subseteq orphans, NEW i, i \notin IdsOf(toWeb),
         \A j \in Ids : j # i => promise'[j] = promise[j]
  PROVE  /\ ChangeTold => ChangeTold'
         /\ (\A j \in Ids \ {i} : j \in orphans' <=> j \in orphans) => SameLists
  <1>1. \A k \in DOMAIN toWeb : toWeb[k].id # i
    BY DEF IdsOf
  <1>2. \A k \in DOMAIN toWeb : SomeChange(toWeb[k]) => SomeChange(toWeb[k])'
    BY <1>1 DEF SomeChange
  <1>3. ChangeTold => ChangeTold'
    BY <1>2 DEF ChangeTold
  <1>4. (\A j \in Ids \ {i} : j \in orphans' <=> j \in orphans) => SameLists
    BY <1>1 DEF SameLists, MyLists
  <1> QED BY <1>3, <1>4

-----------------------------------------------------------------------------
(* TableKept after a step of each kind *)

(* What the invariant says of a table, mounted cleanly or not. *)
LEMMA KeptFacts ==
  ASSUME IInv, Kept
  PROVE  /\ Core /\ BridgeTypes /\ StoreTypes /\ ViewTypes /\ StoreKept /\ NamesApart /\ RaisedKept
         /\ \A i \in orphans : promise[i] # None
         /\ \A i \in Ids \ orphans : promise[i] # None => GroupAsked(promise[i]) = group
         /\ clean => /\ platform = "webview" /\ http = {} /\ (\A m \in running : m.web)
                     /\ (\A a \in fetched : a.id \in orphans)
                     /\ ListsUnique /\ handler = group
         /\ clean /\ group # None => LeftBefore /\ (ListToCome \/ RowsKept)
         /\ \A k \in DOMAIN toNative : toNative[k].web
  BY DEF IInv, Kept, Core, StoreKept, TableKept, OneWay, View, CallsOfTable, Mine, ListenerIsMounted, Ways

(* A call leaves the rows alone, and no list is forgotten. *)
LEMMA TableMakes ==
  ASSUME IInv, Kept, NEW call \in CallsMade, Make(call), rows' = rows
  PROVE  TableKept'
  <1> DEFINE i == NextId
             r == Request(i, call)
  <1>1. /\ FreeIds # {} /\ Turn({}, <<Request(i, call)>>)
        /\ UNCHANGED <<storeVars, group, orphans, clean, excused, toWeb, fetched, rows>>
    BY DEF Make, mountVars, answerVars
  <1>2. /\ Core /\ BridgeTypes
        /\ \A j \in orphans : promise[j] # None
        /\ clean => /\ platform = "webview" /\ http = {} /\ (\A m \in running : m.web)
                    /\ (\A a \in fetched : a.id \in orphans)
                    /\ ListsUnique
        /\ clean /\ group # None => LeftBefore /\ (ListToCome \/ RowsKept)
    BY KeptFacts
  <1>3. i \in Ids /\ promise[i] = None /\ i \notin IdsOf(toWeb) /\ i \notin orphans
    BY <1>1, <1>2, NextIdFree
  <1> HIDE DEF i
  <1>4. /\ promise' = [j \in Ids |-> IF j = i THEN call ELSE promise[j]]
        /\ r \in Requests /\ r.id = i /\ UNCHANGED <<platform, running>>
        /\ platform = "webview" => toNative' = Append(toNative, r) /\ http' = http
    <2>1. Posted(Request(i, call), i, call, {})
      BY <1>1, <1>2, <1>3, TurnOne
    <2> QED BY <1>1, <1>2, <1>3, <2>1, TurnWay DEF Posted
  <1> HIDE DEF r
  <1>5. (ChangeTold => ChangeTold') /\ SameLists
    BY <1>1, <1>2, <1>3, <1>4, ToldStays
  <1>6. (RowsKept => RowsKept') /\ (ListsUnique => ListsUnique')
    BY <1>1, <1>2, <1>5, RowsStay
  <1>7. CASE clean
    <2>1. (LeftBefore => LeftBefore') /\ (ListAsked => ListAsked')
      BY <1>1, <1>2, <1>3, <1>4, <1>7, AskedAppend
    <2>2. OneWay'
      BY <1>1, <1>2, <1>4, <1>7 DEF OneWay
    <2> QED BY <1>1, <1>2, <1>5, <1>6, <1>7, <2>1, <2>2 DEF TableKept, ListToCome
  <1>8. CASE ~clean
    BY <1>1, <1>8 DEF TableKept
  <1> QED BY <1>7, <1>8

(* The list that the new table asks for comes after all that the old one   *)
(* has asked.                                                              *)
LEMMA TableSwitches ==
  ASSUME IInv, Kept, NEW g \in Groups \cup {None}, SwitchGroup(g)
  PROVE  TableKept'
  <1>1. /\ Core /\ BridgeTypes /\ \A m \in http : ~m.web
    BY DEF IInv, Core, Kept, Ways
  <1>2. /\ group' = g /\ orphans' = {j \in Ids : promise[j] # None} /\ rows' = NoTags
        /\ clean' = (platform = "webview" /\ \A m \in http \cup running : m.web)
        /\ Turn({}, IF g = None THEN <<>> ELSE <<Request(NextId, CallTo("ListTags", g, "load"))>>)
        /\ g # None => FreeIds # {}
        /\ UNCHANGED <<toWeb, fetched>>
    BY DEF SwitchGroup, Unmounted, answerVars
  <1>3. \A k \in DOMAIN toWeb' : toWeb'[k].id \in Ids => toWeb'[k].id \in orphans'
    BY <1>1, <1>2, WebTyped, NoneIsNoCall
  <1>4. ListsUnique'
    <2>1. Unique(rows')
      BY <1>2 DEF Unique, NoTags
    <2> QED BY <1>3, <2>1 DEF ListsUnique, MyLists
  <1>5. \A a \in fetched' : a.id \in orphans'
    <2>1. \A a \in fetched : a.id \in Ids /\ promise[a.id] \in CallsMade
      BY <1>1 DEF Core, BridgeTypes, Matching, Fits, Answers
    <2> QED BY <1>2, <2>1, NoneIsNoCall
  <1>6. CASE g = None
    <2>1. UNCHANGED <<platform, toNative, http, running>>
      BY <1>1, <1>2, <1>6, TurnNone
    <2>2. clean' => OneWay'
      BY <1>1, <1>2, <1>5, <2>1 DEF OneWay
    <2> QED BY <1>2, <1>4, <1>6, <2>2 DEF TableKept
  <1>7. CASE g # None
    <2> DEFINE i == NextId
               call == CallTo("ListTags", g, "load")
               r == Request(i, call)
    <2>1. Turn({}, <<Request(i, call)>>) /\ FreeIds # {}
      BY <1>2, <1>7
    <2>2. call \in CallsMade /\ call.method = "ListTags"
      BY <1>7 DEF CallTo, CallsMade
    <2>3. i \in Ids /\ i \notin orphans'
      BY <1>2, <2>1, NextIdFree
    <2> HIDE DEF i, call
    <2>4. /\ r \in Requests /\ r.id = i /\ r.call = call /\ UNCHANGED <<platform, running>>
          /\ platform = "webview" => toNative' = Append(toNative, r) /\ http' = http
      <3>1. Posted(Request(i, call), i, call, {})
        BY <1>1, <2>1, <2>2, <2>3, TurnOne
      <3> QED BY <1>1, <2>1, <2>2, <2>3, <3>1, TurnWay DEF Posted
    <2> HIDE DEF r
    <2>5. clean' => OneWay'
      BY <1>1, <1>2, <1>5, <2>4 DEF OneWay
    <2>6. ASSUME platform = "webview" PROVE LeftBefore' /\ ListAsked'
      <3>1. PICK n \in Nat \ {0} : DOMAIN toNative' = 1 .. n /\ toNative'[n] = r
        <4>1. /\ Len(toNative) \in Nat
              /\ DOMAIN toNative' = 1 .. (Len(toNative) + 1) /\ toNative'[Len(toNative) + 1] = r
          BY <1>1, <2>4, <2>6 DEF BridgeTypes
        <4> QED BY <4>1
      <3>2. n \in DOMAIN toNative' /\ AsksList(toNative[n])'
        BY <2>2, <2>3, <2>4, <3>1 DEF AsksList
      <3>3. ListAsked'
        BY <3>2 DEF ListAsked
      <3>4. ASSUME NEW k \in DOMAIN toNative', toNative'[k].id \in orphans'
            PROVE  \E l \in DOMAIN toNative' : l > k /\ AsksList(toNative[l])'
        <4>1. k < n
          BY <2>3, <2>4, <3>1, <3>4
        <4> QED BY <3>2, <4>1
      <3> QED BY <3>3, <3>4 DEF LeftBefore
    <2> QED BY <1>2, <1>4, <2>5, <2>6 DEF TableKept, ListToCome
  <1> QED BY <1>6, <1>7

(* An answer is handled by the instance that asked. *)
LEMMA TableContinues ==
  ASSUME IInv, Kept, NEW answer \in Answers, Continue(answer)
  PROVE  TableKept'
  <1> DEFINE i == answer.id
             call == promise[i]
             next == CallTo("ListTags", GroupAsked(call), "load")
             r == Request(i, next)
             again == call.method \in Changing /\ answer.ok
  <1>1. /\ Arrives(answer) /\ Turn({i}, Following(answer, call))
        /\ UNCHANGED <<storeVars, group, clean, excused>>
    BY DEF Continue
  <1>2. /\ Core /\ BridgeTypes
        /\ \A j \in orphans : promise[j] # None
        /\ clean => /\ platform = "webview" /\ http = {} /\ (\A m \in running : m.web)
                    /\ (\A a \in fetched : a.id \in orphans)
                    /\ ListsUnique
        /\ clean /\ group # None => LeftBefore /\ (ListToCome \/ RowsKept)
    BY KeptFacts
  <1>3. /\ i \in Ids /\ call \in CallsMade /\ call # None
        /\ i \notin IdsOf(toWeb') \cup SetIds(fetched') /\ fetched' \subseteq fetched
    BY <1>1, <1>2, ArrivesFacts, NoneIsNoCall DEF Fits, Fewer
  <1>4. /\ promise' = [j \in Ids |-> IF j = i THEN NextCall(answer) ELSE promise[j]]
        /\ UNCHANGED platform
    BY <1>2, ContinueFacts DEF transportVars
  <1>5. CASE ~clean
    BY <1>1, <1>5 DEF TableKept
  <1>6. ASSUME clean PROVE TableKept'
    <2>1. /\ IF again THEN /\ r \in Requests /\ r.id = i /\ r.call = next /\ next.method = "ListTags"
                           /\ toNative' = Append(toNative, r)
                           /\ NextCall(answer) = next
                      ELSE toNative' = toNative /\ NextCall(answer) = None
          /\ UNCHANGED <<http, running>>
      <3>1. CASE again
        <4>1. Turn({i}, <<Request(i, next)>>)
          BY <1>1, <3>1 DEF Following
        <4>2. next \in CallsMade /\ next.method = "ListTags" /\ NextCall(answer) = next
          BY <1>3, <3>1, CallTypes DEF CallTo, CallsMade, NextCall
        <4> HIDE DEF i, next
        <4>3. Posted(Request(i, next), i, next, {i})
          BY <1>2, <1>3, <4>1, <4>2, TurnOne
        <4>4. toNative' = Append(toNative, Request(i, next)) /\ http' = http
          BY <1>2, <1>3, <1>6, <4>1, <4>2, TurnWay
        <4> QED BY <3>1, <4>2, <4>3, <4>4 DEF Posted, i, next
      <3>2. CASE ~again
        <4>1. Turn({i}, <<>>)
          BY <1>1, <3>2 DEF Following
        <4> QED BY <1>2, <3>2, <4>1, TurnNone DEF NextCall
      <3> QED BY <3>1, <3>2
    <2>2. orphans' = IF i \in orphans /\ ~again THEN orphans \ {i} ELSE orphans
      BY DEF Continue, Following
    <2>3. rows' = IF i \in MyLists THEN answer.data ELSE rows
      <3>1. i \in MyLists <=> i \notin orphans /\ call.method = "ListTags"
        BY <1>3 DEF MyLists
      <3>2. CASE i \in orphans
        BY <3>1, <3>2 DEF Continue, viewVars
      <3>3. CASE i \notin orphans
        BY <3>1, <3>3 DEF Continue, TagsLoaded, TagWritten, HistoryLoaded, TagChanged, Changing, viewVars
      <3> QED BY <3>2, <3>3
    <2> HIDE DEF i, call, next, r, again
    <2>4. (LeftBefore => LeftBefore') /\ (ListAsked => ListAsked')
          /\ (again /\ i \notin orphans => ListAsked')
      <3>1. CASE again
        <4>1. r.id \in orphans => r.call.method \notin Changing
          BY <2>1, <3>1 DEF Changing
        <4>2. i \notin orphans => AsksList(r)
          BY <1>3, <2>1, <3>1 DEF AsksList
        <4> QED BY <1>2, <2>1, <2>2, <3>1, <4>1, <4>2, AskedAppend
      <3>2. CASE ~again
        BY <2>1, <2>2, <3>2, AskedStays
      <3> QED BY <3>1, <3>2
    <2>5. OneWay'
      <3>1. \A a \in fetched' : a.id \in orphans'
        BY <1>2, <1>3, <1>6, <2>2 DEF SetIds
      <3> QED BY <1>2, <1>4, <1>6, <2>1, <3>1 DEF OneWay
    <2>6. SameLists
      <3>1. \A k \in DOMAIN toWeb' : toWeb'[k].id # i
        BY <1>3 DEF IdsOf
      <3> QED BY <1>4, <2>2, <3>1 DEF SameLists, MyLists
    <2>7. /\ RowsKept => RowsKept'
          /\ ListsUnique'
          /\ ListToCome => ListToCome'
      <3>1. CASE answer \in fetched /\ toWeb' = toWeb
        <4>1. i \in orphans /\ i \notin MyLists
          BY <1>2, <1>6, <3>1 DEF MyLists, i
        <4>2. i \notin IdsOf(toWeb)
          BY <1>3, <3>1
        <4>3. (RowsKept => RowsKept') /\ (ListsUnique => ListsUnique')
          BY <1>1, <1>2, <2>3, <2>6, <3>1, <4>1, RowsStay
        <4>4. ChangeTold => ChangeTold'
          BY <1>2, <1>4, <2>2, <3>1, <4>2, ToldStays
        <4> QED BY <1>2, <1>6, <2>4, <4>3, <4>4 DEF ListToCome
      <3>2. CASE toWeb # <<>> /\ answer = Head(toWeb) /\ toWeb' = Tail(toWeb)
        <4>1. toWeb[1] = answer /\ toWeb[1].id = i /\ i # None
          BY <1>2, <1>3, <3>2, WebTyped, TailFacts DEF i
        <4>2. (RowsKept => RowsKept') /\ (ListsUnique => ListsUnique')
          BY <1>1, <1>2, <2>3, <2>6, <3>2, <4>1, RowsTaken
        <4>3. ChangeTold => SomeChange(toWeb[1]) \/ ChangeTold'
          BY <1>2, <1>4, <2>2, <3>2, <4>1, ToldTail
        <4>4. SomeChange(toWeb[1]) => again /\ i \notin orphans
          BY <4>1 DEF SomeChange, again, call, i
        <4> QED BY <1>2, <1>6, <2>4, <4>2, <4>3, <4>4 DEF ListToCome
      <3> QED BY <1>1, <3>1, <3>2 DEF Arrives
    <2> QED BY <1>1, <1>2, <1>6, <2>4, <2>5, <2>7 DEF TableKept
  <1> QED BY <1>5, <1>6

(* An event is no list, and none is waited for less. *)
LEMMA TableEvents ==
  ASSUME IInv, Kept, ReceiveEvent
  PROVE  TableKept'
  <1>1. /\ toWeb # <<>> /\ toWeb[1].id = None /\ toWeb' = Tail(toWeb)
        /\ UNCHANGED <<platform, promise, toNative, http, running, fetched, group, orphans, clean>>
    <2>1. Head(toWeb) = toWeb[1]
      BY KeptFacts, WebTyped, TailFacts DEF ReceiveEvent
    <2> QED BY <2>1 DEF ReceiveEvent, transportVars, nativeVars, mountVars
  <1>2. CASE ~clean
    BY <1>1, <1>2 DEF TableKept
  <1>3. CASE clean
    <2>1. OneWay'
      BY <1>1, <1>3, KeptFacts DEF OneWay
    <2>2. ListsUnique' /\ (group # None /\ RowsKept => RowsKept')
      <3>1. CASE group # None
        BY <1>3, <3>1, KeptFacts, RowsTold
      <3>2. CASE group = None
        <4>1. rows' = rows
          BY <1>3, <3>2, KeptFacts DEF ReceiveEvent, OnTagValueChanged
        <4>2. MyLists' = MyLists /\ \A k \in DOMAIN toWeb' : k + 1 \in DOMAIN toWeb /\ toWeb'[k] = toWeb[k + 1]
          BY <1>1, KeptFacts, WebTyped, TailFacts DEF MyLists
        <4> QED BY <1>3, <3>2, <4>1, <4>2, KeptFacts DEF ListsUnique
      <3> QED BY <3>1, <3>2
    <2>3. (LeftBefore => LeftBefore') /\ (ListAsked => ListAsked')
      BY <1>1, AskedStays
    <2>4. ChangeTold => ChangeTold'
      <3>1. ChangeTold => SomeChange(toWeb[1]) \/ ChangeTold'
        BY <1>1, KeptFacts, ToldTail
      <3> QED BY <1>1, <3>1, NoneIsNoId DEF SomeChange
    <2> QED BY <1>1, <1>3, <2>1, <2>2, <2>3, <2>4, KeptFacts DEF TableKept, ListToCome
  <1> QED BY <1>2, <1>3

(* The host answers the message at the front at once: what is not a list   *)
(* that was asked for leaves the rows as they are, or tells of a change.   *)
LEMMA TableAnswered ==
  ASSUME IInv, Kept, clean, NEW m \in Requests, NEW result, Returns(m.call, result),
         HandleInvoke(m, result), UNCHANGED HostVars,
         \/ UNCHANGED <<storeVars, excused>>
            /\ (m.call.method = "ListTags" => result.data = ListTags(m.call.of))
         \/ m.call.method \in Changing /\ result.ok
  PROVE  TableKept'
  <1> DEFINE e == [id |-> m.id, ok |-> result.ok, data |-> result.data]
  <1>1. /\ Received(m) /\ Respond(m, result)
        /\ UNCHANGED <<platform, promise, running, rows, group, orphans, clean>>
    BY DEF HandleInvoke, transportVars, HostVars, viewVars
  <1>2. /\ Core /\ BridgeTypes /\ StoreTypes /\ NamesApart
        /\ \A j \in Ids \ orphans : promise[j] # None => GroupAsked(promise[j]) = group
        /\ platform = "webview" /\ http = {} /\ (\A n \in running : n.web)
        /\ (\A a \in fetched : a.id \in orphans) /\ ListsUnique
        /\ group # None => LeftBefore /\ (ListToCome \/ RowsKept)
        /\ \A k \in DOMAIN toNative : toNative[k].web
    BY KeptFacts
  <1>3. toNative # <<>> /\ m = Head(toNative) /\ toNative' = Tail(toNative) /\ http' = http
    BY <1>1, <1>2 DEF Received
  <1>4. m = toNative[1] /\ m.web /\ m.id \in Ids /\ m.call \in CallsMade /\ promise[m.id] = m.call
    <2>1. m = toNative[1] /\ 1 \in DOMAIN toNative
      BY <1>2, <1>3, TailFacts DEF BridgeTypes
    <2>2. Asked(promise, m)
      BY <1>2, <2>1 DEF Core, Matching
    <2> QED BY <1>2, <2>1, <2>2 DEF Requests, Asked
  <1>5. toWeb' = Append(toWeb, e) /\ fetched' = fetched
    BY <1>1, <1>4 DEF Respond
  <1>6. e \in Answers /\ e \in Scripts /\ e.id = m.id /\ e.data = result.data /\ e.ok = result.ok
    BY <1>4 DEF Answers, Scripts, Returns
  <1> HIDE DEF e
  <1>7. OneWay'
    BY <1>1, <1>2, <1>3, <1>5 DEF OneWay
  <1>8. /\ LeftBefore => LeftBefore'
        /\ ListAsked => AsksList(m) \/ ListAsked'
        /\ LeftBefore /\ m.id \in orphans /\ m.call.method \in Changing => ListAsked'
    BY <1>1, <1>2, <1>3, <1>4, AskedTail
  <1>9. ChangeTold \/ SomeChange(e) => ChangeTold'
    BY <1>1, <1>2, <1>5, <1>6, ToldAppend
  <1>10. e.id \in MyLists <=> m.id \notin orphans /\ m.call.method = "ListTags"
    BY <1>4, <1>6, NoneIsNoCall DEF MyLists
  <1>11. CASE m.call.method \in Changing /\ result.ok
    <2>1. e.id \notin MyLists
      BY <1>10, <1>11 DEF Changing
    <2>2. ListsUnique'
      BY <1>1, <1>2, <1>5, <1>6, <2>1, ToldAppend
    <2>3. m.id \notin orphans => SomeChange(e)
      BY <1>4, <1>6, <1>11 DEF SomeChange
    <2> QED BY <1>1, <1>2, <1>7, <1>8, <1>9, <1>11, <2>2, <2>3 DEF TableKept, ListToCome
  <1>12. CASE /\ UNCHANGED <<storeVars, excused>>
              /\ m.call.method = "ListTags" => result.data = ListTags(m.call.of)
    <2>1. CASE e.id \in MyLists
      <3>1. m.call.of = group
        BY <1>2, <1>4, <1>10, <2>1, NoneIsNoCall, CallTypes
      <3>2. e.data = ListTags(group)
        BY <1>6, <1>10, <1>12, <2>1, <3>1
      <3>3. RowsKept' /\ ListsUnique'
        BY <1>1, <1>2, <1>5, <1>6, <1>12, <2>1, <3>2, RowsListed
      <3> QED BY <1>1, <1>2, <1>7, <1>8, <3>3 DEF TableKept
    <2>2. CASE e.id \notin MyLists
      <3>1. (RowsKept => RowsKept') /\ ListsUnique'
        BY <1>1, <1>2, <1>5, <1>6, <1>12, <2>2, RowsAnswered
      <3>2. ~AsksList(m)
        BY <1>4, <1>10, <2>2 DEF AsksList
      <3> QED BY <1>1, <1>2, <1>7, <1>8, <1>9, <3>1, <3>2 DEF TableKept, ListToCome
    <2> QED BY <2>1, <2>2
  <1> QED BY <1>11, <1>12

(* The host handles a request: a change tells, or a list comes behind it. *)
LEMMA TableHandles ==
  ASSUME IInv, Kept, Handling
  PROVE  TableKept'
  <1>1. PICK m \in http \cup {toNative[k] : k \in DOMAIN toNative} : Handle(m)
    BY DEF Handling
  <1>2. m \in Requests /\ m.call \in CallsMade /\ UNCHANGED HostVars /\ clean' = clean
    <2>1. m \in Requests
      BY DEF IInv, Core, BridgeTypes
    <2> QED BY <1>1, <2>1 DEF Requests, Handle, HostVars
  <1>3. CASE ~clean
    BY <1>2, <1>3 DEF TableKept
  <1>4. ASSUME clean PROVE TableKept'
    <2> DEFINE c == m.call
    <2>1. /\ Done(None) \in [ok : {TRUE}, data : {None}] /\ Refused \in [ok : {FALSE}, data : {None}]
          /\ c.method \notin {"ListTags", "GetTagHistory"} =>
               Returns(c, Refused) /\ Returns(c, Done(None))
      BY DEF Done, Refused, Returns
    <2>2. CASE AddTag(m) \/ RemoveTag(m) \/ UpdateTag(m)
      <3>1. HandleInvoke(m, Done(None)) /\ c.method \in Changing
        BY <2>2 DEF AddTag, RemoveTag, UpdateTag, Changing
      <3>2. Returns(c, Done(None)) /\ Done(None).ok
        BY <2>1, <3>1 DEF Changing
      <3> QED BY <1>2, <1>4, <3>1, <3>2, TableAnswered
    <2>3. CASE Query(m) /\ UNCHANGED excused
      <3>1. UNCHANGED <<storeVars, excused>>
        BY <2>3 DEF Query
      <3>2. CASE c.method = "ListTags" /\ HandleInvoke(m, Done(ListTags(c.of)))
        <4>1. Done(ListTags(c.of)) \in [ok : BOOLEAN, data : {ListTags(c.of)}]
          BY DEF Done
        <4>2. Returns(c, Done(ListTags(c.of)))
          BY <1>2, <3>2, <4>1, CallTypes, ListTagsFits DEF Returns, IInv
        <4> QED BY <1>2, <1>4, <3>1, <3>2, <4>1, <4>2, TableAnswered
      <3>3. CASE c.method = "GetTagHistory" /\ HandleInvoke(m, Done(c.arg))
        <4>1. Done(c.arg) \in [ok : BOOLEAN, data : {c.arg}] /\ c.arg \in Names
          BY <1>2, <3>3, CallTypes DEF Done
        <4>2. Returns(c, Done(c.arg))
          BY <3>3, <4>1 DEF Returns
        <4> QED BY <1>2, <1>4, <3>1, <3>3, <4>2, TableAnswered
      <3>4. CASE c.method \in {"AddTag", "UpdateTag", "WriteTag"} /\ HandleInvoke(m, Refused)
        BY <1>2, <1>4, <2>1, <3>1, <3>4, TableAnswered
      <3> QED BY <2>3, <3>2, <3>3, <3>4 DEF Query
    <2>4. CASE BeginWrite(m) /\ UNCHANGED excused
      <3>1. /\ Received(m) /\ running' = running \cup {m} /\ c.method = "WriteTag"
            /\ UNCHANGED <<platform, promise, fetched, toWeb, storeVars, excused,
                           rows, group, orphans, clean>>
        BY <1>2, <2>4 DEF BeginWrite, BeginInvoke, transportVars, answerVars, HostVars, viewVars
      <3>2. toNative # <<>> /\ m = Head(toNative) /\ toNative' = Tail(toNative) /\ http' = http
        BY <1>4, <3>1, KeptFacts DEF Received
      <3>3. m = toNative[1] /\ m.web
        BY <3>2, KeptFacts, TailFacts DEF BridgeTypes
      <3>4. OneWay'
        BY <1>4, <3>1, <3>2, <3>3, KeptFacts DEF OneWay
      <3>5. (LeftBefore => LeftBefore') /\ (ListAsked => ListAsked')
        BY <3>1, <3>2, <3>3, KeptFacts, AskedTail DEF AsksList
      <3>6. SameLists /\ (ChangeTold => ChangeTold')
        BY <3>1 DEF SameLists, MyLists, ChangeTold, SomeChange
      <3>7. (RowsKept => RowsKept') /\ (ListsUnique => ListsUnique')
        BY <3>1, <3>6, KeptFacts, RowsStay
      <3> QED BY <1>4, <3>1, <3>4, <3>5, <3>6, <3>7, KeptFacts DEF TableKept, ListToCome
    <2> QED BY <1>1, <2>2, <2>3, <2>4 DEF Handle
  <1> QED BY <1>3, <1>4

LEMMA TableWrites ==
  ASSUME IInv, Kept, Writing
  PROVE  TableKept'
  <1>1. PICK m \in running : FinishWrite(m) /\ UNCHANGED <<HostVars, excused>>
    BY DEF Writing
  <1>2. PICK result \in {Done(None), Refused} : FinishInvoke(m, result)
    BY <1>1 DEF FinishWrite
  <1>3. /\ Respond(m, result) /\ running' = running \ {m}
        /\ UNCHANGED <<platform, promise, toNative, http, storeVars, excused, rows, group, orphans, clean>>
    BY <1>1, <1>2 DEF FinishWrite, FinishInvoke, transportVars, HostVars, viewVars
  <1>4. m \in Requests /\ m.id \in Ids /\ promise[m.id] = m.call /\ m.call.method = "WriteTag"
    BY DEF IInv, Core, BridgeTypes, Matching, Requests, Asked
  <1>5. CASE ~clean
    BY <1>3, <1>5 DEF TableKept
  <1>6. ASSUME clean PROVE TableKept'
    <2> DEFINE e == [id |-> m.id, ok |-> result.ok, data |-> result.data]
    <2>1. toWeb' = Append(toWeb, e) /\ fetched' = fetched
      BY <1>3, <1>6, KeptFacts DEF Respond
    <2>2. result.ok \in BOOLEAN /\ result.data = None
      <3>1. Done(None) \in [ok : BOOLEAN, data : {None}] /\ Refused \in [ok : BOOLEAN, data : {None}]
        BY DEF Done, Refused
      <3> QED BY <3>1
    <2>3. e \in Answers /\ e \in Scripts /\ e.id = m.id
      BY <1>4, <2>2 DEF Answers, Scripts
    <2> HIDE DEF e
    <2>4. e.id \notin MyLists
      BY <1>4, <2>3 DEF MyLists
    <2>5. (RowsKept => RowsKept') /\ ListsUnique'
      BY <1>3, <1>6, <2>1, <2>3, <2>4, KeptFacts, RowsAnswered
    <2>6. ChangeTold => ChangeTold'
      BY <1>3, <2>1, <2>3, KeptFacts, ToldAppend
    <2>7. (LeftBefore => LeftBefore') /\ (ListAsked => ListAsked')
      BY <1>3, AskedStays
    <2>8. OneWay'
      BY <1>3, <1>6, <2>1, KeptFacts DEF OneWay
    <2> QED BY <1>3, <1>6, <2>5, <2>6, <2>7, <2>8, KeptFacts DEF TableKept, ListToCome
  <1> QED BY <1>5, <1>6

(* Steps that are not about what the table asks. *)
LEMMA TablePublishes ==
  ASSUME IInv, Kept, Publishing
  PROVE  TableKept' /\ StoreKept'
  <1>1. PICK k \in DOMAIN raised : PublishEvent(k)
    BY DEF Publishing
  <1> DEFINE e == [id |-> None, ok |-> TRUE, data |-> raised[k]]
  <1>2. /\ Takes(k) /\ toWeb' = Append(toWeb, e)
        /\ UNCHANGED <<platform, promise, toNative, http, running, fetched, rows, group, orphans, clean>>
    BY <1>1 DEF PublishEvent, Takes, Without, transportVars, nativeVars, HostVars, viewVars
  <1>3. StoreKept'
    BY <1>2, KeptFacts, StoreTells
  <1>4. (RowsKept => RowsKept') /\ (ListsUnique => ListsUnique')
    BY <1>2, KeptFacts, RowsPublished
  <1>5. e \in Scripts
    BY KeptFacts, RaisedTyped DEF Scripts, Pushes
  <1> HIDE DEF e
  <1>6. ChangeTold => ChangeTold'
    BY <1>2, <1>5, KeptFacts, ToldAppend
  <1>7. (LeftBefore => LeftBefore') /\ (ListAsked => ListAsked')
    BY <1>2, AskedStays
  <1>8. clean => OneWay'
    BY <1>2, KeptFacts DEF OneWay
  <1> QED BY <1>2, <1>3, <1>4, <1>6, <1>7, <1>8, KeptFacts DEF TableKept, ListToCome

LEMMA TableRaises ==
  ASSUME IInv, Kept, NEW t \in Tags, NEW v \in Values, ValueChanges(t, v)
  PROVE  TableKept'
  <1>1. UNCHANGED <<platform, promise, toNative, http, running, fetched, toWeb, rows, group, orphans, clean>>
    BY DEF ValueChanges, bridgeVars, transportVars, nativeVars, answerVars, HostVars, viewVars
  <1>2. (RowsKept => RowsKept') /\ (ListsUnique => ListsUnique')
    BY KeptFacts, RowsRaised
  <1>3. (LeftBefore => LeftBefore') /\ (ListAsked => ListAsked')
    BY <1>1, AskedStays
  <1>4. ChangeTold => ChangeTold'
    BY <1>1 DEF ChangeTold, SomeChange
  <1>5. clean => OneWay'
    BY <1>1, KeptFacts DEF OneWay
  <1> QED BY <1>1, <1>2, <1>3, <1>4, <1>5, KeptFacts DEF TableKept, ListToCome

LEMMA TableStays ==
  ASSUME IInv, Kept, UNCHANGED <<bridgeVars, storeVars, group, orphans, clean, excused, rows>>
  PROVE  TableKept'
  <1>1. UNCHANGED <<platform, promise, toNative, http, running, fetched, toWeb>>
    BY DEF bridgeVars, transportVars, nativeVars, answerVars
  <1>2. SameLists /\ (ChangeTold => ChangeTold')
    BY <1>1 DEF SameLists, MyLists, ChangeTold, SomeChange
  <1>3. (RowsKept => RowsKept') /\ (ListsUnique => ListsUnique')
    BY <1>1, <1>2, KeptFacts, RowsStay
  <1>4. (LeftBefore => LeftBefore') /\ (ListAsked => ListAsked')
    BY <1>1, AskedStays
  <1>5. clean => OneWay'
    BY <1>1, KeptFacts DEF OneWay
  <1> QED BY <1>1, <1>2, <1>3, <1>4, <1>5, KeptFacts DEF TableKept, ListToCome

LEMMA InitKept == Init => Kept
  <1> SUFFICES ASSUME Init PROVE Kept
    OBVIOUS
  <1> USE DEF Init, BridgeInit
  <1>1. StoreKept
    BY DEF StoreKept, NamesApart, RaisedKept
  <1>2. Ways /\ TableKept
    BY DEF Ways, TableKept
  <1> QED BY <1>1, <1>2 DEF Kept

LEMMA NextKept == IInv /\ Kept /\ [Next]_vars => Kept'
  <1> SUFFICES ASSUME IInv, Kept, [Next]_vars PROVE Kept'
    OBVIOUS
  <1>1. Core /\ StoreTypes /\ ViewTypes /\ View /\ StoreKept /\ Ways
    BY DEF IInv, Kept
  <1>2. Ways'
    BY <1>1, WaysNext
  <1>3. SUFFICES StoreKept' /\ TableKept'
    BY <1>2 DEF Kept
  <1>4. CASE UserStep
    <2>1. ASSUME NEW g \in Groups \cup {None}, SwitchGroup(g) PROVE StoreKept' /\ TableKept'
      BY <1>1, <2>1, StoreSwitches, TableSwitches
    <2>2. ASSUME NEW call \in CallsMade, Make(call), rows' = rows PROVE StoreKept' /\ TableKept'
      <3>1. UNCHANGED <<storeVars, excused>>
        BY <2>2 DEF Make
      <3> QED BY <1>1, <2>2, <3>1, StoreStays, TableMakes
    <2>3. CASE UNCHANGED <<bridgeVars, storeVars, group, orphans, clean, excused, rows>>
      BY <1>1, <2>3, StoreStays, TableStays
    <2> QED BY <1>1, <1>4, <2>1, <2>2, <2>3, UserSteps
  <1>5. CASE Answering
    <2>1. PICK answer \in Answers : Continue(answer)
      BY <1>1, <1>5, AnsweringFacts
    <2>2. UNCHANGED <<storeVars, excused>>
      BY <2>1 DEF Continue
    <2> QED BY <1>1, <2>1, <2>2, StoreStays, TableContinues
  <1>6. CASE ReceiveEvent
    <2>1. UNCHANGED storeVars /\ excused \subseteq excused'
      BY <1>6 DEF ReceiveEvent, OnTagValueChanged
    <2> QED BY <1>1, <1>6, <2>1, StoreStays, TableEvents
  <1>7. CASE Handling
    BY <1>1, <1>7, StoreHandles, TableHandles
  <1>8. CASE Writing
    <2>1. UNCHANGED <<storeVars, excused>>
      BY <1>8 DEF Writing, FinishWrite
    <2> QED BY <1>1, <1>8, <2>1, StoreStays, TableWrites
  <1>9. CASE Publishing
    BY <1>9, TablePublishes
  <1>10. ASSUME NEW t \in Tags, NEW v \in Values, ValueChanges(t, v)
         PROVE  StoreKept' /\ TableKept'
    BY <1>1, <1>10, StoreRaises, TableRaises
  <1>11. CASE Injecting
    <2>1. ~clean /\ UNCHANGED <<storeVars, excused, clean>>
      BY <1>11 DEF IInv, Injection, Injecting, InjectBridge
    <2> QED BY <1>1, <2>1, StoreStays DEF TableKept
  <1>12. CASE UNCHANGED vars
    <2>1. UNCHANGED <<bridgeVars, storeVars, group, orphans, clean, excused, rows>>
      BY <1>12 DEF vars, viewVars
    <2> QED BY <1>1, <2>1, StoreStays, TableStays
  <1> QED BY <1>4, <1>5, <1>6, <1>7, <1>8, <1>9, <1>10, <1>11, <1>12 DEF Next

LEMMA KeptAlways == Spec => []Kept
  BY InitKept, NextKept, Invariant, PTL DEF Spec

(* Once nothing is on its way, a table that was mounted cleanly shows the  *)
(* store, although nothing polls: it waits for no list and for no event,   *)
(* so that what the last list said, and the events after it, is the latest. *)
THEOREM RowsCurrent == Spec => []QuietTableIsCurrent
  <1>1. IInv /\ Kept => QuietTableIsCurrent
    <2> SUFFICES ASSUME IInv, Kept, clean, group # None, Quiet, NEW t \in Tags \ excused
                 PROVE  rows[t] = ListTags(group)[t]
      BY DEF QuietTableIsCurrent
    <2>1. /\ rows \in Tables /\ name \in [Tags -> Names \cup {None}] /\ value \in [Tags -> Values]
          /\ \A u \in Tags : rows[u] # None => GroupOf[u] = group
      BY DEF IInv, ViewTypes, StoreTypes, View, RowsOfGroup
    <2>2. toNative = <<>> /\ toWeb = <<>> /\ raised = <<>>
      BY DEF Quiet
    <2>3. RowsKept
      BY <2>2, KeptFacts DEF ListToCome, ListAsked, ChangeTold
    <2>4. StartsAt(toWeb, MyLists, 0) /\ Told(t)
      BY <2>2 DEF StartsAt, Told
    <2>5. ListTags(group)[t] = IF GroupOf[t] = group /\ name[t] # None
                               THEN [name |-> name[t], value |-> value[t]] ELSE None
      BY DEF ListTags
    <2>6. CASE GroupOf[t] # group
      BY <2>1, <2>5, <2>6
    <2>7. CASE GroupOf[t] = group
      <3>1. Says(rows[t], toWeb, 0, t, name[t], value[t], Told(t))
        BY <2>3, <2>4, <2>7 DEF RowsKept
      <3>2. CASE name[t] = None
        BY <2>5, <3>1, <3>2 DEF Says
      <3>3. CASE name[t] # None
        <4>1. rows[t] # None /\ rows[t].name = name[t] /\ rows[t].value = value[t]
          BY <2>2, <2>4, <3>1, <3>3 DEF Says
        <4>2. rows[t] \in Row
          BY <2>1, <4>1 DEF Tables
        <4>3. rows[t] = [name |-> name[t], value |-> value[t]]
          BY <4>1, <4>2 DEF Row
        <4> QED BY <2>5, <2>7, <3>3, <4>3
      <3> QED BY <3>2, <3>3
    <2> QED BY <2>6, <2>7
  <1> QED BY <1>1, Invariant, KeptAlways, PTL
=============================================================================
