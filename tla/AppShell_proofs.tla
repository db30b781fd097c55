--------------------------- MODULE AppShell_proofs ---------------------------
(***************************************************************************)
(* Lemmas about the frame of the pages, for any calls C that a page makes  *)
(* and any data D that comes back: once the host's bridge is in place, a   *)
(* request waits in toNative, is awaited in running or is answered in      *)
(* toWeb, under an id of its own whose promise is its call (Wires). The    *)
(* proofs of the pages need of the queues only what is asked (Asking),     *)
(* what is told (Told) and which answer comes after which (Later).         *)
(***************************************************************************)
EXTENDS AppShell, FiniteSetTheorems, SequenceTheorems, WellFoundedInduction, TLAPS

Posts(C)   == [id : Ids, call : C, web : {TRUE}]
Scripts(D) == [id : Ids, ok : BOOLEAN, data : D]

Messages(s) == {s[k] : k \in DOMAIN s}
Asking == Messages(toNative)
Told   == Messages(toWeb)
Later(a, b) == \E k, l \in DOMAIN toWeb : k < l /\ toWeb[k] = a /\ toWeb[l] = b

IdsIn(S) == {m.id : m \in S}
Distinct(s) == \A k, l \in DOMAIN s : s[k].id = s[l].id => k = l

Wires(C, D) ==
  /\ platform = "webview" /\ http = {} /\ fetched = {}
  /\ promise \in [Ids -> C \cup {None}]
  /\ toNative \in Seq(Posts(C)) /\ running \subseteq Posts(C) /\ toWeb \in Seq(Scripts(D))
  /\ \A m \in Asking \cup running : promise[m.id] = m.call
  /\ \A a \in Told : promise[a.id] # None
  /\ Distinct(toNative) /\ Distinct(toWeb)
  /\ \A m, n \in running : m.id = n.id => m = n
  /\ IdsIn(Asking) \cap IdsIn(running) = {}
  /\ IdsIn(Told) \cap (IdsIn(Asking) \cup IdsIn(running)) = {}

(* What a turn of the page's event loop does to what is asked.             *)
Posted(done, rs) ==
  /\ Asking' = Asking \cup Messages(rs)
  /\ \A i \in Ids \ IdsOf(rs) : promise'[i] = IF i \in done THEN None ELSE promise[i]
  /\ \A k \in DOMAIN rs : promise'[rs[k].id] = rs[k].call
  /\ UNCHANGED <<platform, injections, http, running>>

-----------------------------------------------------------------------------
(* Sequences of messages *)

LEMMA HeadFacts ==
  ASSUME NEW S, NEW s \in Seq(S), s # <<>>
  PROVE  /\ Head(s) = s[1] /\ Head(s) \in S /\ Tail(s) \in Seq(S) /\ 1 \in DOMAIN s
         /\ DOMAIN s \subseteq Nat \ {0} /\ DOMAIN Tail(s) \subseteq Nat \ {0}
         /\ \A k \in DOMAIN Tail(s) : k + 1 \in DOMAIN s /\ Tail(s)[k] = s[k + 1]
         /\ \A k \in DOMAIN s : k = 1 \/ k - 1 \in DOMAIN Tail(s)
  OBVIOUS

LEMMA Elements ==
  ASSUME NEW S, NEW s \in Seq(S)
  PROVE  \A k \in DOMAIN s : s[k] \in S
  OBVIOUS

(* The messages but the first, whose id is only its own. *)
LEMMA TailMessages ==
  ASSUME NEW S, NEW s \in Seq(S), s # <<>>, Distinct(s)
  PROVE  /\ Distinct(Tail(s))
         /\ Messages(s) = {Head(s)} \cup Messages(Tail(s))
         /\ \A m \in Messages(Tail(s)) : m.id # Head(s).id
  <1> USE HeadFacts
  <1>1. {s[k] : k \in DOMAIN s} \subseteq {Head(s)} \cup {Tail(s)[k] : k \in DOMAIN Tail(s)}
    <2> SUFFICES ASSUME NEW k \in DOMAIN s, k # 1
                 PROVE  s[k] \in {Tail(s)[l] : l \in DOMAIN Tail(s)}
      OBVIOUS
    <2>1. k - 1 \in DOMAIN Tail(s) /\ Tail(s)[k - 1] = s[k]
      OBVIOUS
    <2> QED BY <2>1
  <1>2. {Head(s)} \cup {Tail(s)[k] : k \in DOMAIN Tail(s)} \subseteq {s[k] : k \in DOMAIN s}
    OBVIOUS
  <1>3. ASSUME NEW k \in DOMAIN Tail(s), NEW l \in DOMAIN Tail(s),
               Tail(s)[k].id = Tail(s)[l].id
        PROVE  k = l
    <2>1. k + 1 = l + 1
      BY <1>3 DEF Distinct
    <2> QED BY <2>1
  <1>4. \A k \in DOMAIN Tail(s) : Tail(s)[k].id # Head(s).id
    BY DEF Distinct
  <1> QED BY <1>1, <1>2, <1>3, <1>4 DEF Distinct, Messages

(* The messages and one more. *)
LEMMA AppendMessages ==
  ASSUME NEW S, NEW s \in Seq(S), NEW e \in S, Distinct(s),
         \A k \in DOMAIN s : s[k].id # e.id
  PROVE  /\ Append(s, e) \in Seq(S) /\ Distinct(Append(s, e))
         /\ Messages(Append(s, e)) = Messages(s) \cup {e}
         /\ Len(s) \in Nat /\ DOMAIN s = 1 .. Len(s)
         /\ DOMAIN Append(s, e) = DOMAIN s \cup {Len(s) + 1} /\ Append(s, e)[Len(s) + 1] = e
         /\ \A k \in DOMAIN s : Append(s, e)[k] = s[k]
  <1>1. /\ Len(s) \in Nat /\ DOMAIN s = 1 .. Len(s) /\ Append(s, e) \in Seq(S)
        /\ DOMAIN Append(s, e) = DOMAIN s \cup {Len(s) + 1}
        /\ Append(s, e)[Len(s) + 1] = e
        /\ \A k \in DOMAIN s : Append(s, e)[k] = s[k]
    OBVIOUS
  <1>2. Distinct(Append(s, e))
    BY <1>1 DEF Distinct
  <1>3. {Append(s, e)[k] : k \in DOMAIN Append(s, e)} = {s[k] : k \in DOMAIN s} \cup {e}
    BY <1>1
  <1> QED BY <1>1, <1>2, <1>3 DEF Messages

(* The messages of two sequences. *)
LEMMA ConcatMessages ==
  ASSUME NEW S, NEW s \in Seq(S), NEW t \in Seq(S), Distinct(s), Distinct(t),
         \A k \in DOMAIN s, l \in DOMAIN t : s[k].id # t[l].id
  PROVE  /\ s \o t \in Seq(S) /\ Distinct(s \o t)
         /\ Messages(s \o t) = Messages(s) \cup Messages(t)
  <1>1. /\ s \o t \in Seq(S) /\ Len(s) \in Nat /\ Len(t) \in Nat
        /\ DOMAIN s = 1 .. Len(s) /\ DOMAIN t = 1 .. Len(t)
        /\ DOMAIN (s \o t) = 1 .. (Len(s) + Len(t))
        /\ \A k \in DOMAIN s : (s \o t)[k] = s[k]
        /\ \A k \in (Len(s) + 1) .. (Len(s) + Len(t)) : (s \o t)[k] = t[k - Len(s)]
    OBVIOUS
  <1>2. \A k \in DOMAIN (s \o t) : k \in DOMAIN s \/ (k - Len(s) \in DOMAIN t /\ k > Len(s))
    BY <1>1
  <1>3. \A k \in DOMAIN t : k + Len(s) \in DOMAIN (s \o t) /\ (s \o t)[k + Len(s)] = t[k]
    BY <1>1
  <1>4. ASSUME NEW k \in DOMAIN (s \o t), NEW l \in DOMAIN (s \o t),
               (s \o t)[k].id = (s \o t)[l].id
        PROVE  k = l
    <2>1. CASE k \in DOMAIN s /\ l \in DOMAIN s
      BY <1>1, <1>4, <2>1 DEF Distinct
    <2>2. CASE k \in DOMAIN s /\ l - Len(s) \in DOMAIN t /\ l > Len(s)
      BY <1>1, <1>4, <2>2
    <2>3. CASE l \in DOMAIN s /\ k - Len(s) \in DOMAIN t /\ k > Len(s)
      BY <1>1, <1>4, <2>3
    <2>4. CASE k - Len(s) \in DOMAIN t /\ k > Len(s) /\ l - Len(s) \in DOMAIN t /\ l > Len(s)
      <3>1. k - Len(s) = l - Len(s)
        BY <1>1, <1>4, <2>4 DEF Distinct
      <3> QED BY <1>1, <2>4, <3>1
    <2> QED BY <1>2, <2>1, <2>2, <2>3, <2>4
  <1>5. {(s \o t)[k] : k \in DOMAIN (s \o t)} \subseteq {s[k] : k \in DOMAIN s} \cup {t[k] : k \in DOMAIN t}
    BY <1>1, <1>2
  <1>6. {s[k] : k \in DOMAIN s} \subseteq {(s \o t)[k] : k \in DOMAIN (s \o t)}
    <2>1. \A k \in DOMAIN s : k \in DOMAIN (s \o t)
      BY <1>1
    <2> QED BY <1>1, <2>1
  <1>7. {t[k] : k \in DOMAIN t} \subseteq {(s \o t)[k] : k \in DOMAIN (s \o t)}
    BY <1>3
  <1> QED BY <1>1, <1>4, <1>5, <1>6, <1>7 DEF Distinct, Messages

-----------------------------------------------------------------------------
(* Which answer comes after which *)

(* Nothing comes before the head of toWeb, and what comes after it stays in order. *)
LEMMA LaterTail ==
  ASSUME NEW C, NEW D, Wires(C, D), toWeb # <<>>, toWeb' = Tail(toWeb)
  PROVE  /\ Head(toWeb) \in Told /\ Told' = Told \ {Head(toWeb)}
         /\ toWeb' \in Seq(Scripts(D)) /\ Distinct(toWeb')
         /\ \A a \in Told' : a.id # Head(toWeb).id
         /\ \A a \in Told : ~Later(a, Head(toWeb))
         /\ \A a, b \in Told' : Later(a, b) => Later(a, b)'
  <1>1. toWeb \in Seq(Scripts(D)) /\ Distinct(toWeb)
    BY DEF Wires
  <1>2. /\ Tail(toWeb) \in Seq(Scripts(D)) /\ Distinct(Tail(toWeb))
        /\ Told = {Head(toWeb)} \cup Told'
        /\ \A a \in Told' : a.id # Head(toWeb).id
    BY <1>1, TailMessages, HeadFacts DEF Told
  <1>3. ASSUME NEW a \in Told PROVE ~Later(a, Head(toWeb))
    <2> SUFFICES ASSUME NEW k \in DOMAIN toWeb, NEW l \in DOMAIN toWeb, k < l,
                        toWeb[l] = Head(toWeb)
                 PROVE  FALSE
      BY DEF Later
    <2>1. l = 1 /\ k \in Nat \ {0}
      BY <1>1, HeadFacts DEF Distinct
    <2> QED BY <2>1
  <1>4. ASSUME NEW a \in Told', NEW b \in Told', Later(a, b)
        PROVE  Later(a, b)'
    <2>1. PICK k \in DOMAIN toWeb, l \in DOMAIN toWeb : k < l /\ toWeb[k] = a /\ toWeb[l] = b
      BY <1>4 DEF Later
    <2>2. k # 1 /\ l # 1
      BY <1>1, <1>2, <2>1, HeadFacts
    <2>3. k \in Nat /\ l \in Nat /\ k - 1 \in DOMAIN toWeb' /\ l - 1 \in DOMAIN toWeb'
      BY <1>1, <2>1, <2>2, HeadFacts
    <2>4. toWeb'[k - 1] = toWeb[(k - 1) + 1] /\ toWeb'[l - 1] = toWeb[(l - 1) + 1]
      BY <1>1, <2>3, HeadFacts
    <2>5. k - 1 < l - 1 /\ (k - 1) + 1 = k /\ (l - 1) + 1 = l
      BY <2>1, <2>3
    <2> QED BY <2>1, <2>3, <2>4, <2>5 DEF Later
  <1> QED BY <1>2, <1>3, <1>4

(* An answer that is appended comes after all the others. *)
LEMMA LaterAppend ==
  ASSUME NEW C, NEW D, Wires(C, D), NEW e \in Scripts(D), toWeb' = Append(toWeb, e),
         e.id \notin IdsIn(Told)
  PROVE  /\ Told' = Told \cup {e} /\ e \notin Told
         /\ toWeb' \in Seq(Scripts(D)) /\ Distinct(toWeb')
         /\ \A a, b \in Told : Later(a, b) => Later(a, b)'
         /\ \A a \in Told : Later(a, e)'
  <1>1. toWeb \in Seq(Scripts(D)) /\ Distinct(toWeb)
    BY DEF Wires
  <1>2. \A k \in DOMAIN toWeb : toWeb[k].id # e.id
    BY DEF IdsIn, Told, Messages
  <1>3. /\ toWeb' \in Seq(Scripts(D)) /\ Distinct(toWeb') /\ Told' = Told \cup {e}
        /\ Len(toWeb) \in Nat /\ DOMAIN toWeb = 1 .. Len(toWeb)
        /\ DOMAIN toWeb' = DOMAIN toWeb \cup {Len(toWeb) + 1} /\ toWeb'[Len(toWeb) + 1] = e
        /\ \A k \in DOMAIN toWeb : toWeb'[k] = toWeb[k]
    BY <1>1, <1>2, AppendMessages DEF Told
  <1>4. ASSUME NEW a \in Told, NEW b \in Told, Later(a, b)
        PROVE  Later(a, b)'
    BY <1>3, <1>4 DEF Later
  <1>5. ASSUME NEW a \in Told PROVE Later(a, e)'
    <2>1. PICK k \in DOMAIN toWeb : toWeb[k] = a
      BY DEF Told, Messages
    <2>2. k < Len(toWeb) + 1
      BY <1>3, <2>1
    <2> QED BY <1>3, <2>1, <2>2 DEF Later
  <1> QED BY <1>3, <1>4, <1>5 DEF IdsIn

-----------------------------------------------------------------------------
(* The ids of new calls *)

(* A set of numbers that is not empty has a least member. *)
LEMMA Least ==
  ASSUME NEW S \in SUBSET Nat, S # {}
  PROVE  \E x \in S : \A y \in S : x <= y
  <1>1. PICK x \in S : \A y \in S : ~ (<<y, x>> \in OpToRel(<, Nat))
    BY NatLessThanWellFounded, WFMin
  <1>2. \A y \in S : <<y, x>> \in OpToRel(<, Nat) <=> y < x
    BY DEF OpToRel
  <1>3. \A y \in S : ~ (y < x)
    BY <1>1, <1>2, Zenon
  <1>4. \A y \in S : x <= y
    BY <1>3
  <1> QED BY <1>4

LEMMA IdAtFacts ==
  /\ FreeIds # {} => IdAt(1) \in FreeIds
  /\ 2 <= Cardinality(FreeIds) => IdAt(2) \in FreeIds /\ IdAt(2) # IdAt(1)
  <1> DEFINE Below(i) == {j \in FreeIds : j < i}
  <1>1. FreeIds \subseteq Nat /\ IsFiniteSet(FreeIds)
    <2>1. FreeIds \subseteq Ids
      BY DEF FreeIds
    <2> QED BY <2>1, IdsAreNumbers, FS_Subset
  <1>2. ASSUME FreeIds # {}
        PROVE  IdAt(1) \in FreeIds /\ Below(IdAt(1)) = {}
    <2>1. PICK x \in FreeIds : \A y \in FreeIds : x <= y
      BY <1>1, <1>2, Least
    <2>2. \A j \in FreeIds : j \in Nat /\ ~(j < x)
      BY <1>1, <2>1
    <2>3. Below(x) = {}
      BY <2>2
    <2>4. Cardinality(Below(x)) = 1 - 1
      BY <2>3, FS_EmptySet
    <2>5. IdAt(1) \in FreeIds /\ Cardinality(Below(IdAt(1))) = 1 - 1
      BY <2>4 DEF IdAt
    <2>6. IsFiniteSet(Below(IdAt(1)))
      BY <1>1, FS_Subset
    <2> HIDE DEF Below
    <2> QED BY <2>5, <2>6, FS_EmptySet
  <1>3. ASSUME 2 <= Cardinality(FreeIds)
        PROVE  IdAt(2) \in FreeIds /\ IdAt(2) # IdAt(1)
    <2>1. FreeIds # {}
      BY <1>3, FS_EmptySet
    <2>2. PICK x \in FreeIds : \A y \in FreeIds : x <= y
      BY <1>1, <2>1, Least
    <2>3. FreeIds \ {x} # {}
      <3>1. Cardinality(FreeIds \ {x}) = Cardinality(FreeIds) - 1 /\ Cardinality(FreeIds) \in Nat
        BY <1>1, FS_RemoveElement, FS_CardinalityType
      <3>2. Cardinality(FreeIds \ {x}) # 0
        BY <1>3, <3>1
      <3> QED BY <3>2, FS_EmptySet
    <2>4. PICK z \in FreeIds \ {x} : \A y \in FreeIds \ {x} : z <= y
      BY <1>1, <2>3, Least
    <2>5. Below(z) = {x}
      <3>1. \A j \in FreeIds : j \in Nat /\ (j < z <=> j = x)
        BY <1>1, <2>2, <2>4
      <3> QED BY <3>1
    <2>6. Cardinality(Below(z)) = 2 - 1
      BY <2>5, FS_Singleton
    <2>7. IdAt(2) \in FreeIds /\ Cardinality(Below(IdAt(2))) = 2 - 1
      BY <2>6 DEF IdAt
    <2>8. Below(IdAt(1)) = {}
      BY <1>2, <2>1
    <2>9. Cardinality(Below(IdAt(1))) = 0
      BY <2>8, FS_EmptySet
    <2> QED BY <2>7, <2>9
  <1> QED BY <1>2, <1>3

(* The requests of at most two calls, under ids of their own that nothing carries. *)
LEMMA RequestsFacts ==
  ASSUME NEW C, NEW calls \in Seq(C), Len(calls) <= 2, CanCall(calls), platform = "webview"
  PROVE  /\ RequestsFor(calls) \in Seq(Posts(C)) /\ Distinct(RequestsFor(calls))
         /\ DOMAIN RequestsFor(calls) = DOMAIN calls
         /\ \A k \in DOMAIN calls : /\ RequestsFor(calls)[k].call = calls[k]
                                    /\ RequestsFor(calls)[k].id = IdAt(k) /\ IdAt(k) \in FreeIds
         /\ IdsOf(RequestsFor(calls)) \subseteq FreeIds
  <1> DEFINE rs == RequestsFor(calls)
  <1>1. /\ Len(calls) \in Nat /\ DOMAIN calls = 1 .. Len(calls) /\ Len(calls) <= Cardinality(FreeIds)
        /\ \A k \in DOMAIN calls : calls[k] \in C
    BY DEF CanCall
  <1>2. /\ \A k \in DOMAIN calls : IdAt(k) \in FreeIds
        /\ \A k, l \in DOMAIN calls : IdAt(k) = IdAt(l) => k = l
    <2>1. Cardinality(FreeIds) \in Nat /\ (FreeIds = {} => Cardinality(FreeIds) = 0)
      <3>1. FreeIds \subseteq Ids
        BY DEF FreeIds
      <3> QED BY <3>1, IdsAreNumbers, FS_Subset, FS_CardinalityType, FS_EmptySet
    <2>2. CASE Len(calls) = 0
      BY <1>1, <2>2
    <2>3. CASE Len(calls) = 1
      <3>1. FreeIds # {}
        BY <1>1, <2>1, <2>3
      <3> QED BY <1>1, <2>3, <3>1, IdAtFacts
    <2>4. CASE Len(calls) = 2
      <3>1. FreeIds # {} /\ 2 <= Cardinality(FreeIds) /\ DOMAIN calls = {1, 2}
        BY <1>1, <2>1, <2>4
      <3> QED BY <3>1, IdAtFacts
    <2> QED BY <1>1, <2>2, <2>3, <2>4
  <1>3. DOMAIN rs = 1 .. Len(calls) /\ \A k \in DOMAIN calls : rs[k] = Request(IdAt(k), calls[k])
    BY <1>1 DEF RequestsFor
  <1>4. ASSUME NEW k \in DOMAIN calls
        PROVE  rs[k] \in Posts(C) /\ rs[k].id = IdAt(k) /\ rs[k].call = calls[k]
    <2>1. IdAt(k) \in Ids /\ calls[k] \in C /\ (platform = "webview") = TRUE
      BY <1>1, <1>2 DEF FreeIds
    <2>2. rs[k] = [id |-> IdAt(k), call |-> calls[k], web |-> TRUE]
      BY <1>3, <2>1 DEF Request
    <2> HIDE DEF rs
    <2> QED BY <2>1, <2>2 DEF Posts
  <1>5. rs = [k \in 1 .. Len(calls) |-> Request(IdAt(k), calls[k])]
    BY <1>1 DEF RequestsFor
  <1> HIDE DEF rs
  <1>6. rs \in Seq(Posts(C))
    <2>1. rs \in [1 .. Len(calls) -> Posts(C)]
      BY <1>1, <1>3, <1>4, <1>5
    <2> QED BY <1>1, <2>1, IsASeq
  <1>7. Distinct(rs)
    BY <1>1, <1>2, <1>3, <1>4 DEF Distinct
  <1>8. IdsOf(rs) \subseteq FreeIds
    BY <1>1, <1>2, <1>3, <1>4 DEF IdsOf
  <1> QED BY <1>1, <1>2, <1>3, <1>4, <1>6, <1>7, <1>8 DEF rs

(* Nothing carries an id that is free. *)
LEMMA FreeFacts ==
  ASSUME NEW i \in FreeIds
  PROVE  i \in Ids /\ promise[i] = None /\ i \notin IdsIn(Asking) \cup IdsIn(running) \cup IdsIn(Told)
  BY DEF FreeIds, Carried, IdsOf, IdsIn, Asking, Told, Messages

-----------------------------------------------------------------------------
(* Every step keeps the wires in order *)

(* A turn of the page, after an answer has arrived or not. *)
LEMMA WiresTurn ==
  ASSUME NEW C, NEW D, None \notin C, Wires(C, D),
         NEW done \in SUBSET Ids, NEW rs \in Seq(Posts(C)), Distinct(rs), Turn(done, rs),
         fetched' = {}, toWeb' \in Seq(Scripts(D)), Distinct(toWeb'), Told' \subseteq Told,
         done \cap (IdsIn(Asking) \cup IdsIn(running) \cup IdsIn(Told')) = {},
         IdsOf(rs) \cap (IdsIn(Asking) \cup IdsIn(running) \cup IdsIn(Told')) = {}
  PROVE  Wires(C, D)' /\ Posted(done, rs)
  <1> DEFINE callOf(i) == rs[CHOOSE k \in DOMAIN rs : rs[k].id = i].call
  <1>1. /\ \A k \in DOMAIN rs : rs[k] \in Posts(C) /\ rs[k].id \in Ids /\ rs[k].call \in C
        /\ IdsOf(rs) \subseteq Ids
    <2>1. \A k \in DOMAIN rs : rs[k] \in Posts(C)
      BY Elements
    <2> QED BY <2>1 DEF Posts, IdsOf
  <1>2. \A k \in DOMAIN rs : callOf(rs[k].id) = rs[k].call
    BY DEF Distinct
  <1>3. /\ promise' = [i \in Ids |-> IF i \in IdsOf(rs) THEN callOf(i)
                                     ELSE IF i \in done THEN None ELSE promise[i]]
        /\ toNative' = toNative \o rs /\ UNCHANGED <<platform, injections, http, running>>
    BY DEF Turn, Wires, transportVars
  <1>4. /\ \A i \in Ids \ IdsOf(rs) : promise'[i] = IF i \in done THEN None ELSE promise[i]
        /\ \A k \in DOMAIN rs : promise'[rs[k].id] = rs[k].call
        /\ \A k \in DOMAIN rs : rs[k].id \in IdsOf(rs)
    BY <1>1, <1>2, <1>3 DEF IdsOf
  <1>5. promise' \in [Ids -> C \cup {None}]
    <2>1. \A i \in IdsOf(rs) : callOf(i) \in C
      BY <1>1, <1>2 DEF IdsOf
    <2> HIDE DEF callOf
    <2>2. promise \in [Ids -> C \cup {None}]
      BY DEF Wires
    <2> QED BY <1>3, <2>1, <2>2
  <1>6. /\ toNative' \in Seq(Posts(C)) /\ Distinct(toNative')
        /\ Asking' = Asking \cup Messages(rs)
    <2>1. toNative \in Seq(Posts(C)) /\ Distinct(toNative)
      BY DEF Wires
    <2>2. \A k \in DOMAIN toNative, l \in DOMAIN rs : toNative[k].id # rs[l].id
      BY DEF IdsOf, IdsIn, Asking, Messages
    <2>3. toNative \o rs \in Seq(Posts(C)) /\ Distinct(toNative \o rs)
      BY <2>1, <2>2, ConcatMessages
    <2>4. Messages(toNative \o rs) = Messages(toNative) \cup Messages(rs)
      BY <2>1, <2>2, ConcatMessages
    <2> QED BY <1>3, <2>3, <2>4 DEF Asking
  <1>7. \A m \in Asking \cup running : m.id \in Ids \ (IdsOf(rs) \cup done) /\ promise[m.id] = m.call
    <2>1. \A m \in Asking \cup running : m.id \in IdsIn(Asking) \cup IdsIn(running) /\ m \in Posts(C)
      BY DEF IdsIn, Asking, Messages, Wires
    <2> QED BY <2>1 DEF Posts, Wires
  <1>8. \A a \in Told' : a.id \in Ids \ (IdsOf(rs) \cup done) /\ promise[a.id] # None
    <2>1. \A a \in Told' : a.id \in IdsIn(Told') /\ a \in Scripts(D)
      BY DEF IdsIn, Told, Messages
    <2> QED BY <2>1 DEF Scripts, Wires
  <1>9. ASSUME NEW m \in Asking' \cup running'
        PROVE  promise'[m.id] = m.call
    <2>1. CASE m \in Asking \cup running
      BY <1>4, <1>7, <2>1
    <2>2. CASE m \in Messages(rs)
      BY <1>4, <2>2 DEF Messages
    <2> QED BY <1>3, <1>6, <2>1, <2>2
  <1>10. \A a \in Told' : promise'[a.id] # None
    BY <1>4, <1>8
  <1>11. IdsIn(Asking') = IdsIn(Asking) \cup IdsOf(rs)
    BY <1>6 DEF IdsIn, IdsOf, Messages
  <1>12. IdsIn(Told') \subseteq IdsIn(Told)
    BY DEF IdsIn
  <1>13. Posted(done, rs)
    BY <1>3, <1>4, <1>6 DEF Posted
  <1>14. /\ IdsIn(Asking') \cap IdsIn(running') = {}
         /\ IdsIn(Told') \cap (IdsIn(Asking') \cup IdsIn(running')) = {}
    BY <1>3, <1>11, <1>12 DEF Wires
  <1> QED BY <1>3, <1>5, <1>6, <1>9, <1>10, <1>13, <1>14 DEF Wires

(* What is on its way belongs to a call: its id is one whose promise is open. *)
LEMMA OpenFacts ==
  ASSUME NEW C, NEW D, None \notin C, Wires(C, D)
  PROVE  /\ \A m \in Asking \cup running : /\ m \in Posts(C) /\ m.id \in Ids /\ m.call \in C
                                           /\ promise[m.id] = m.call /\ m.id \in Open
         /\ \A a \in Told : a \in Scripts(D) /\ a.id \in Open /\ promise[a.id] \in C
         /\ Open = {} => Asking = {} /\ running = {} /\ Told = {}
  <1>1. ASSUME NEW m \in Asking \cup running
        PROVE  /\ m \in Posts(C) /\ m.id \in Ids /\ m.call \in C
               /\ promise[m.id] = m.call /\ m.id \in Open
    <2>1. toNative \in Seq(Posts(C)) /\ running \subseteq Posts(C) /\ promise[m.id] = m.call
      BY DEF Wires
    <2>2. m \in Posts(C)
      BY <2>1, Elements DEF Asking, Messages
    <2> QED BY <2>1, <2>2 DEF Posts, Open
  <1>2. ASSUME NEW a \in Told
        PROVE  a \in Scripts(D) /\ a.id \in Open /\ promise[a.id] \in C
    <2>1. toWeb \in Seq(Scripts(D)) /\ promise[a.id] # None /\ promise \in [Ids -> C \cup {None}]
      BY DEF Wires
    <2>2. a \in Scripts(D)
      BY <2>1, Elements DEF Told, Messages
    <2> QED BY <2>1, <2>2 DEF Scripts, Open
  <1> QED BY <1>1, <1>2

(* No two of the requests and answers on their way have one id. *)
LEMMA ApartFacts ==
  ASSUME NEW C, NEW D, Wires(C, D)
  PROVE  /\ \A m, n \in Asking \cup running : m.id = n.id => m = n
         /\ \A a, b \in Told : a.id = b.id => a = b
         /\ \A m \in Asking \cup running, a \in Told : m.id # a.id
         /\ Asking \cap running = {}
  <1>1. /\ Distinct(toNative) /\ Distinct(toWeb)
        /\ \A m, n \in running : m.id = n.id => m = n
        /\ IdsIn(Asking) \cap IdsIn(running) = {}
        /\ IdsIn(Told) \cap (IdsIn(Asking) \cup IdsIn(running)) = {}
    BY DEF Wires
  <1>2. \A m, n \in Asking : m.id = n.id => m = n
    BY <1>1 DEF Asking, Messages, Distinct
  <1>3. \A a, b \in Told : a.id = b.id => a = b
    BY <1>1 DEF Told, Messages, Distinct
  <1>4. \A m \in Asking, n \in running : m.id # n.id
    BY <1>1 DEF IdsIn
  <1>5. \A m \in Asking \cup running, a \in Told : m.id # a.id
    BY <1>1 DEF IdsIn
  <1> QED BY <1>1, <1>2, <1>3, <1>4, <1>5

(* A step that leaves the bridge alone. *)
LEMMA Still ==
  ASSUME NEW C, NEW D, Wires(C, D), UNCHANGED bridgeVars
  PROVE  /\ Wires(C, D)' /\ Asking' = Asking /\ Told' = Told
         /\ \A a, b : Later(a, b) => Later(a, b)'
  <1>1. /\ UNCHANGED <<platform, promise, toNative, http, running, fetched, toWeb>>
    BY DEF bridgeVars, transportVars, nativeVars, answerVars
  <1>2. Asking' = Asking /\ Told' = Told
    BY <1>1 DEF Asking, Told
  <1>3. \A a, b : Later(a, b) => Later(a, b)'
    BY <1>1 DEF Later
  <1>4. Wires(C, D)'
    BY <1>1, <1>2 DEF Wires
  <1> QED BY <1>2, <1>3, <1>4

(* Calls that the user's click makes, on the page in place or on the one it goes to. *)
LEMMA Clicked ==
  ASSUME NEW C, NEW D, None \notin C, Wires(C, D), NEW calls \in Seq(C), Len(calls) <= 2,
         CanCall(calls), Turn({}, RequestsFor(calls)), UNCHANGED answerVars
  PROVE  /\ Wires(C, D)' /\ Posted({}, RequestsFor(calls)) /\ Told' = Told
         /\ \A a, b : Later(a, b) => Later(a, b)'
         /\ \A m \in Messages(RequestsFor(calls)) :
              /\ promise[m.id] = None
              /\ \E k \in DOMAIN calls : m.call = calls[k]
         /\ \A k \in DOMAIN calls : \E m \in Messages(RequestsFor(calls)) : m.call = calls[k]
         /\ \A i \in Ids : promise[i] # None => promise'[i] = promise[i]
  <1> DEFINE rs == RequestsFor(calls)
  <1>1. platform = "webview" /\ fetched = {} /\ toWeb \in Seq(Scripts(D)) /\ Distinct(toWeb)
    BY DEF Wires
  <1>2. /\ rs \in Seq(Posts(C)) /\ Distinct(rs) /\ DOMAIN rs = DOMAIN calls
        /\ \A k \in DOMAIN calls : rs[k].call = calls[k] /\ rs[k].id \in FreeIds
        /\ IdsOf(rs) \subseteq FreeIds
    <2>1. /\ rs \in Seq(Posts(C)) /\ Distinct(rs) /\ DOMAIN rs = DOMAIN calls
          /\ IdsOf(rs) \subseteq FreeIds
      BY <1>1, RequestsFacts
    <2>2. \A k \in DOMAIN calls : rs[k].call = calls[k] /\ rs[k].id = IdAt(k) /\ IdAt(k) \in FreeIds
      BY <1>1, RequestsFacts
    <2> QED BY <2>1, <2>2
  <1> HIDE DEF rs
  <1>3. fetched' = fetched /\ toWeb' = toWeb /\ Told' = Told
    BY DEF answerVars, Told
  <1>4. IdsOf(rs) \cap (IdsIn(Asking) \cup IdsIn(running) \cup IdsIn(Told')) = {}
    BY <1>2, <1>3, FreeFacts
  <1>5. Turn({}, rs) /\ {} \in SUBSET Ids
    BY DEF rs
  <1>6. Wires(C, D)' /\ Posted({}, rs)
    BY <1>1, <1>2, <1>3, <1>4, <1>5, WiresTurn
  <1>7. \A m \in Messages(rs) : promise[m.id] = None /\ \E k \in DOMAIN calls : m.call = calls[k]
    BY <1>2, FreeFacts DEF Messages
  <1>8. \A k \in DOMAIN calls : \E m \in Messages(rs) : m.call = calls[k]
    BY <1>2 DEF Messages
  <1>9. \A a, b : Later(a, b) => Later(a, b)'
    BY <1>3 DEF Later
  <1>10. \A i \in Ids : promise[i] # None => promise'[i] = promise[i]
    <2>1. \A i \in IdsOf(rs) : promise[i] = None
      BY <1>2, FreeFacts
    <2> QED BY <1>6, <2>1 DEF Posted
  <1> QED BY <1>3, <1>6, <1>7, <1>8, <1>9, <1>10 DEF rs

(***************************************************************************)
(* An answer settles its promise, and what awaited it makes one more call  *)
(* or none.                                                                *)
(***************************************************************************)
Settlement(C, D, a, following) ==
  /\ Wires(C, D)'
  /\ a \in Told /\ Told' = Told \ {a} /\ running' = running
  /\ promise[a.id] \in C /\ a \in Scripts(D)
  /\ \A m \in Asking \cup running : m.id # a.id
  /\ \A b \in Told' : b.id # a.id
  /\ \A b \in Told : ~Later(b, a)
  /\ \A b, c \in Told' : Later(b, c) => Later(b, c)'
  /\ \A i \in Ids \ {a.id} : promise'[i] = promise[i]
  /\ following = <<>> => Asking' = Asking /\ promise'[a.id] = None
  /\ \A call \in C : following = <<Request(a.id, call)>> =>
       /\ Asking' = Asking \cup {[id |-> a.id, call |-> call, web |-> TRUE]}
       /\ promise'[a.id] = call

LEMMA Settles ==
  ASSUME NEW C, NEW D, None \notin C, Wires(C, D), NEW a, NEW following,
         Arrives(a), Turn({a.id}, following),
         following = <<>> \/ \E call \in C : following = <<Request(a.id, call)>>
  PROVE  Settlement(C, D, a, following)
  <1>1. /\ platform = "webview" /\ fetched = {} /\ toWeb # <<>> /\ a = Head(toWeb)
        /\ toWeb' = Tail(toWeb) /\ fetched' = {}
    BY DEF Arrives, Wires
  <1>2. /\ a \in Told /\ Told' = Told \ {a} /\ toWeb' \in Seq(Scripts(D)) /\ Distinct(toWeb')
        /\ \A b \in Told' : b.id # a.id
        /\ \A b \in Told : ~Later(b, a)
        /\ \A b, c \in Told' : Later(b, c) => Later(b, c)'
    BY <1>1, LaterTail
  <1>3. a \in Scripts(D) /\ a.id \in Ids /\ promise[a.id] \in C
    BY <1>2, OpenFacts DEF Open
  <1>4. a.id \notin IdsIn(Asking) \cup IdsIn(running) \cup IdsIn(Told')
    <2>1. a.id \in IdsIn(Told)
      BY <1>2 DEF IdsIn
    <2>2. a.id \notin IdsIn(Told')
      BY <1>2 DEF IdsIn
    <2> QED BY <2>1, <2>2 DEF Wires
  <1>5. \A m \in Asking \cup running : m.id # a.id
    BY <1>4 DEF IdsIn
  <1>6. ASSUME following = <<>>
        PROVE  Wires(C, D)' /\ Posted({a.id}, <<>>)
    <2>1. Distinct(<<>>) /\ <<>> \in Seq(Posts(C)) /\ IdsOf(<<>>) = {}
      BY DEF Distinct, IdsOf
    <2>2. Turn({a.id}, <<>>) /\ {a.id} \in SUBSET Ids /\ Told' \subseteq Told
      BY <1>2, <1>3, <1>6
    <2>3. /\ {a.id} \cap (IdsIn(Asking) \cup IdsIn(running) \cup IdsIn(Told')) = {}
          /\ IdsOf(<<>>) \cap (IdsIn(Asking) \cup IdsIn(running) \cup IdsIn(Told')) = {}
      BY <1>4, <2>1
    <2> QED BY <1>1, <1>2, <2>1, <2>2, <2>3, WiresTurn
  <1>7. ASSUME NEW call \in C, following = <<Request(a.id, call)>>
        PROVE  /\ Wires(C, D)' /\ Posted({a.id}, <<[id |-> a.id, call |-> call, web |-> TRUE]>>)
               /\ Asking' = Asking \cup {[id |-> a.id, call |-> call, web |-> TRUE]}
               /\ promise'[a.id] = call
    <2> DEFINE r == [id |-> a.id, call |-> call, web |-> TRUE]
    <2>1. following = <<r>> /\ r \in Posts(C) /\ r.id = a.id
      <3>1. (platform = "webview") = TRUE
        BY <1>1
      <3> QED BY <1>3, <1>7, <3>1 DEF Request, Posts
    <2> HIDE DEF r
    <2>2. Distinct(<<r>>) /\ <<r>> \in Seq(Posts(C)) /\ IdsOf(<<r>>) = {a.id}
      BY <2>1 DEF Distinct, IdsOf
    <2>3. Turn({a.id}, <<r>>) /\ {a.id} \in SUBSET Ids /\ Told' \subseteq Told
      BY <1>2, <1>3, <2>1
    <2>4. /\ {a.id} \cap (IdsIn(Asking) \cup IdsIn(running) \cup IdsIn(Told')) = {}
          /\ IdsOf(<<r>>) \cap (IdsIn(Asking) \cup IdsIn(running) \cup IdsIn(Told')) = {}
      BY <1>4, <2>2
    <2>5. Wires(C, D)' /\ Posted({a.id}, <<r>>)
      BY <1>1, <1>2, <2>2, <2>3, <2>4, WiresTurn
    <2>6. Messages(<<r>>) = {r} /\ r.call = call /\ 1 \in DOMAIN <<r>> /\ <<r>>[1] = r
      <3>1. r.call = call
        BY DEF r
      <3> QED BY <3>1 DEF Messages
    <2>7. Asking' = Asking \cup {r} /\ promise'[a.id] = call
      BY <2>1, <2>5, <2>6 DEF Posted
    <2> QED BY <2>5, <2>7 DEF r
  <1>8. Wires(C, D)' /\ running' = running
    BY <1>6, <1>7 DEF Posted
  <1>9. \A i \in Ids \ {a.id} : promise'[i] = promise[i]
    <2>1. CASE following = <<>>
      BY <1>6, <2>1 DEF Posted, IdsOf
    <2>2. CASE \E call \in C : following = <<Request(a.id, call)>>
      <3>1. PICK call \in C : following = <<Request(a.id, call)>>
        BY <2>2
      <3>2. Posted({a.id}, <<[id |-> a.id, call |-> call, web |-> TRUE]>>)
        BY <1>7, <3>1
      <3> QED BY <3>2 DEF Posted, IdsOf
    <2> QED BY <2>1, <2>2
  <1>10. following = <<>> => Asking' = Asking /\ promise'[a.id] = None
    <2>1. IdsOf(<<>>) = {} /\ Messages(<<>>) = {}
      BY DEF IdsOf, Messages
    <2> QED BY <1>3, <1>6, <2>1 DEF Posted
  <1> QED BY <1>2, <1>3, <1>5, <1>7, <1>8, <1>9, <1>10 DEF Settlement

(* The host takes the next message. *)
LEMMA Receives ==
  ASSUME NEW C, NEW D, Wires(C, D), NEW m, Received(m)
  PROVE  /\ m \in Asking /\ Asking' = Asking \ {m} /\ http' = {}
         /\ toNative' \in Seq(Posts(C)) /\ Distinct(toNative')
         /\ \A n \in Asking' : n.id # m.id
  <1>1. /\ toNative # <<>> /\ m = Head(toNative) /\ toNative' = Tail(toNative) /\ http' = {}
        /\ toNative \in Seq(Posts(C)) /\ Distinct(toNative)
    BY DEF Received, Wires
  <1>2. /\ Tail(toNative) \in Seq(Posts(C)) /\ Distinct(Tail(toNative))
        /\ Asking = {m} \cup Asking'
        /\ \A n \in Asking' : n.id # m.id
    BY <1>1, TailMessages, HeadFacts DEF Asking
  <1> QED BY <1>1, <1>2

(* A method that does not await answers the message at once. *)
LEMMA Handles ==
  ASSUME NEW C, NEW D, None \notin C, Wires(C, D), NEW m, NEW result, HandleInvoke(m, result),
         result.ok \in BOOLEAN, result.data \in D
  PROVE  /\ Wires(C, D)'
         /\ m \in Asking /\ Asking' = Asking \ {m} /\ running' = running /\ promise' = promise
         /\ LET e == [id |-> m.id, ok |-> result.ok, data |-> result.data]
            IN Told' = Told \cup {e} /\ e \notin Told /\ \A a \in Told : Later(a, e)'
         /\ \A a, b \in Told : Later(a, b) => Later(a, b)'
         /\ promise[m.id] = m.call /\ m.call \in C /\ m.id \in Ids
  <1> DEFINE e == [id |-> m.id, ok |-> result.ok, data |-> result.data]
  <1>1. /\ m \in Asking /\ Asking' = Asking \ {m} /\ http' = {}
        /\ toNative' \in Seq(Posts(C)) /\ Distinct(toNative')
    BY Receives DEF HandleInvoke
  <1>2. /\ m \in Posts(C) /\ m.id \in Ids /\ m.call \in C /\ promise[m.id] = m.call
    BY <1>1, OpenFacts
  <1>3. m.web = TRUE
    BY <1>2 DEF Posts
  <1>4. /\ toWeb' = Append(toWeb, e) /\ fetched' = fetched
        /\ UNCHANGED <<platform, promise, running>>
    BY <1>3 DEF HandleInvoke, Respond, transportVars
  <1>5. e \in Scripts(D) /\ e.id = m.id
    BY <1>2 DEF Scripts
  <1>6. m.id \notin IdsIn(Told)
    <2>1. m.id \in IdsIn(Asking) \cup IdsIn(running)
      BY <1>1 DEF IdsIn
    <2> QED BY <2>1 DEF Wires
  <1> HIDE DEF e
  <1>7. /\ Told' = Told \cup {e} /\ e \notin Told
        /\ toWeb' \in Seq(Scripts(D)) /\ Distinct(toWeb')
        /\ \A a, b \in Told : Later(a, b) => Later(a, b)'
        /\ \A a \in Told : Later(a, e)'
    BY <1>4, <1>5, <1>6, LaterAppend
  <1>8. Wires(C, D)'
    <2>1. /\ platform' = "webview" /\ http' = {} /\ fetched' = {}
          /\ promise' \in [Ids -> C \cup {None}] /\ running' \subseteq Posts(C)
          /\ \A n, o \in running' : n.id = o.id => n = o
      BY <1>1, <1>4 DEF Wires
    <2>2. \A n \in Asking' \cup running' : promise'[n.id] = n.call
      BY <1>1, <1>4 DEF Wires
    <2>3. \A a \in Told' : promise'[a.id] # None
      BY <1>2, <1>4, <1>5, <1>7 DEF Wires
    <2>4. /\ IdsIn(Asking') \subseteq IdsIn(Asking) /\ m.id \notin IdsIn(Asking')
          /\ m.id \notin IdsIn(running')
      <3>1. m.id \notin IdsIn(Asking')
        BY Receives DEF HandleInvoke, IdsIn
      <3>2. m.id \notin IdsIn(running)
        BY <1>1 DEF Wires, IdsIn
      <3> QED BY <1>1, <1>4, <3>1, <3>2 DEF IdsIn
    <2>5. IdsIn(Told') = IdsIn(Told) \cup {m.id}
      BY <1>5, <1>7 DEF IdsIn
    <2>6. /\ IdsIn(Asking') \cap IdsIn(running') = {}
          /\ IdsIn(Told') \cap (IdsIn(Asking') \cup IdsIn(running')) = {}
      BY <1>4, <2>4, <2>5 DEF Wires
    <2> QED BY <1>1, <1>7, <2>1, <2>2, <2>3, <2>6 DEF Wires
  <1> QED BY <1>1, <1>2, <1>4, <1>7, <1>8 DEF e

(* One that awaits keeps it among those that run. *)
LEMMA Begins ==
  ASSUME NEW C, NEW D, None \notin C, Wires(C, D), NEW m, BeginInvoke(m)
  PROVE  /\ Wires(C, D)'
         /\ m \in Asking /\ Asking' = Asking \ {m} /\ running' = running \cup {m}
         /\ m \notin running /\ promise' = promise /\ Told' = Told
         /\ \A a, b : Later(a, b) => Later(a, b)'
         /\ promise[m.id] = m.call /\ m.call \in C /\ m.id \in Ids
  <1>1. /\ m \in Asking /\ Asking' = Asking \ {m} /\ http' = {}
        /\ toNative' \in Seq(Posts(C)) /\ Distinct(toNative')
        /\ \A n \in Asking' : n.id # m.id
    BY Receives DEF BeginInvoke
  <1>2. /\ m \in Posts(C) /\ m.id \in Ids /\ m.call \in C /\ promise[m.id] = m.call
    BY <1>1, OpenFacts
  <1>3. /\ running' = running \cup {m}
        /\ UNCHANGED <<platform, promise, fetched, toWeb>>
    BY DEF BeginInvoke, transportVars, answerVars
  <1>4. Told' = Told /\ \A a, b : Later(a, b) => Later(a, b)'
    BY <1>3 DEF Told, Later
  <1>5. m.id \in IdsIn(Asking) /\ m.id \notin IdsIn(running)
    BY <1>1 DEF Wires, IdsIn
  <1>6. \A n \in running : n.id # m.id
    BY <1>5 DEF IdsIn
  <1>7. Wires(C, D)'
    <2>1. /\ platform' = "webview" /\ fetched' = {} /\ promise' \in [Ids -> C \cup {None}]
          /\ running' \subseteq Posts(C) /\ toWeb' \in Seq(Scripts(D)) /\ Distinct(toWeb')
      BY <1>2, <1>3 DEF Wires
    <2>2. \A n \in Asking' \cup running' : promise'[n.id] = n.call
      BY <1>1, <1>2, <1>3 DEF Wires
    <2>3. \A a \in Told' : promise'[a.id] # None
      BY <1>3, <1>4 DEF Wires
    <2>4. \A n, o \in running' : n.id = o.id => n = o
      BY <1>3, <1>6 DEF Wires
    <2>5. /\ IdsIn(running') = IdsIn(running) \cup {m.id}
          /\ IdsIn(Asking') \subseteq IdsIn(Asking) \ {m.id}
      BY <1>1, <1>3 DEF IdsIn
    <2>6. /\ IdsIn(Asking') \cap IdsIn(running') = {}
          /\ IdsIn(Told') \cap (IdsIn(Asking') \cup IdsIn(running')) = {}
      BY <1>4, <1>5, <2>5 DEF Wires
    <2> QED BY <1>1, <2>1, <2>2, <2>3, <2>4, <2>6 DEF Wires
  <1> QED BY <1>1, <1>2, <1>3, <1>4, <1>6, <1>7

(* And answers it when the await is over. *)
LEMMA Finishes ==
  ASSUME NEW C, NEW D, None \notin C, Wires(C, D), NEW m, NEW result, FinishInvoke(m, result),
         result.ok \in BOOLEAN, result.data \in D
  PROVE  /\ Wires(C, D)'
         /\ m \in running /\ running' = running \ {m} /\ Asking' = Asking /\ promise' = promise
         /\ LET e == [id |-> m.id, ok |-> result.ok, data |-> result.data]
            IN Told' = Told \cup {e} /\ e \notin Told /\ \A a \in Told : Later(a, e)'
         /\ \A a, b \in Told : Later(a, b) => Later(a, b)'
         /\ promise[m.id] = m.call /\ m.call \in C /\ m.id \in Ids
  <1> DEFINE e == [id |-> m.id, ok |-> result.ok, data |-> result.data]
  <1>1. /\ m \in running /\ running' = running \ {m}
        /\ UNCHANGED <<platform, promise, toNative, http>>
    BY DEF FinishInvoke, transportVars
  <1>2. /\ m \in Posts(C) /\ m.id \in Ids /\ m.call \in C /\ promise[m.id] = m.call
    BY <1>1, OpenFacts
  <1>3. m.web = TRUE
    BY <1>2 DEF Posts
  <1>4. toWeb' = Append(toWeb, e) /\ fetched' = fetched
    BY <1>3 DEF FinishInvoke, Respond
  <1>5. e \in Scripts(D) /\ e.id = m.id
    BY <1>2 DEF Scripts
  <1>6. m.id \notin IdsIn(Told)
    <2>1. m.id \in IdsIn(Asking) \cup IdsIn(running)
      BY <1>1 DEF IdsIn
    <2> QED BY <2>1 DEF Wires
  <1> HIDE DEF e
  <1>7. /\ Told' = Told \cup {e} /\ e \notin Told
        /\ toWeb' \in Seq(Scripts(D)) /\ Distinct(toWeb')
        /\ \A a, b \in Told : Later(a, b) => Later(a, b)'
        /\ \A a \in Told : Later(a, e)'
    BY <1>4, <1>5, <1>6, LaterAppend
  <1>8. Asking' = Asking
    BY <1>1 DEF Asking
  <1>9. Wires(C, D)'
    <2>1. /\ platform' = "webview" /\ http' = {} /\ fetched' = {}
          /\ promise' \in [Ids -> C \cup {None}] /\ running' \subseteq Posts(C)
          /\ toNative' \in Seq(Posts(C)) /\ Distinct(toNative')
          /\ \A n, o \in running' : n.id = o.id => n = o
      BY <1>1, <1>4 DEF Wires
    <2>2. \A n \in Asking' \cup running' : promise'[n.id] = n.call
      BY <1>1, <1>8 DEF Wires
    <2>3. \A a \in Told' : promise'[a.id] # None
      BY <1>1, <1>2, <1>5, <1>7 DEF Wires
    <2>4. m.id \notin IdsIn(running') /\ IdsIn(running') \subseteq IdsIn(running) /\ m.id \in IdsIn(running)
      BY <1>1 DEF Wires, IdsIn
    <2>5. IdsIn(Told') = IdsIn(Told) \cup {m.id}
      BY <1>5, <1>7 DEF IdsIn
    <2>6. /\ IdsIn(Asking') \cap IdsIn(running') = {}
          /\ IdsIn(Told') \cap (IdsIn(Asking') \cup IdsIn(running')) = {}
      BY <1>8, <2>4, <2>5 DEF Wires
    <2> QED BY <1>7, <2>1, <2>2, <2>3, <2>6 DEF Wires
  <1> QED BY <1>1, <1>2, <1>7, <1>8, <1>9 DEF e

(* The bridge as the pages find it. *)
LEMMA WiresInit ==
  ASSUME NEW C, NEW D, BridgeInjected
  PROVE  Wires(C, D) /\ Asking = {} /\ Told = {} /\ running = {} /\ Open = {}
  <1>1. /\ toNative \in Seq(Posts(C)) /\ toWeb \in Seq(Scripts(D))
        /\ Distinct(toNative) /\ Distinct(toWeb) /\ Asking = {} /\ Told = {}
    BY DEF BridgeInjected, Distinct, Asking, Told, Messages
  <1> QED BY <1>1 DEF BridgeInjected, Wires, IdsIn, Open
=============================================================================
