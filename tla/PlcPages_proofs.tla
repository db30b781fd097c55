--------------------------- MODULE PlcPages_proofs ---------------------------
(***************************************************************************)
(* Proofs about the pages of the PLCs: their types, that the list and the  *)
(* page of one PLC are current when nothing is on its way, and that a PLC  *)
(* that is shown as connected has a session.                               *)
(***************************************************************************)
EXTENDS PlcPages, AppShell_proofs

Data == [PlcNames -> {None, "on", "off"}] \cup (SUBSET Groups) \cup {None}
Ops == {"AddPlc", "RemovePlc", "UpdatePlc", "ConnectPlc", "DisconnectPlc"}

-----------------------------------------------------------------------------
(* The calls *)

LEMMA CallForms ==
  ASSUME NEW c \in CallsMade
  PROVE  /\ c # None
         /\ c.method \in {"ListPlcs", "ListDbGroups"} \cup ChangingGroups \cup Ops
         /\ c.method = "ListPlcs" => c.of \in PlcNames \cup {None}
         /\ c.method \in Ops \cup {"ListDbGroups", "CreateDbGroup"} => c.of \in PlcNames
         /\ c.method = "UpdatePlc" => c.arg \in PlcNames
         /\ c.method \in Ops \ {"UpdatePlc"} => c.arg = None /\ c = CallTo(c.method, c.of, None)
         /\ c.method \in {"DeleteDbGroup", "RenameDbGroup"} => c.of \in Groups /\ c.arg \in PlcNames
  <1>1. c # None
    BY NoneIsNoCall
  <1>2. CASE c \in [method : {"ListPlcs"}, of : PlcNames \cup {None}, arg : {None}]
    BY <1>1, <1>2 DEF ChangingGroups, Ops
  <1>3. CASE c \in [method : {"AddPlc", "RemovePlc", "ConnectPlc", "DisconnectPlc", "ListDbGroups",
                              "CreateDbGroup"}, of : PlcNames, arg : {None}]
    BY <1>1, <1>3 DEF ChangingGroups, Ops, CallTo
  <1>4. CASE c \in [method : {"UpdatePlc"}, of : PlcNames, arg : PlcNames]
    BY <1>1, <1>4 DEF ChangingGroups, Ops
  <1>5. CASE c \in [method : {"DeleteDbGroup", "RenameDbGroup"}, of : Groups, arg : PlcNames]
    BY <1>1, <1>5 DEF ChangingGroups, Ops
  <1> QED BY <1>2, <1>3, <1>4, <1>5 DEF CallsMade

LEMMA CallsOfPages ==
  /\ LoadPlcs \in CallsMade
  /\ \A n \in PlcNames :
       /\ LoadPlc(n) \in CallsMade /\ LoadGroups(n) \in CallsMade
       /\ \A method \in Ops \ {"UpdatePlc"} : CallTo(method, n, None) \in CallsMade
       /\ CallTo("CreateDbGroup", n, None) \in CallsMade
       /\ \A new \in PlcNames : CallTo("UpdatePlc", n, new) \in CallsMade
       /\ \A g \in Groups : /\ CallTo("RenameDbGroup", g, n) \in CallsMade
                            /\ CallTo("DeleteDbGroup", g, n) \in CallsMade
  BY DEF CallTo, LoadPlcs, LoadPlc, LoadGroups, CallsMade, Ops

(* A call is known by its method and what it is about. *)
AddOf(n)        == CallTo("AddPlc", n, None)
ConnectOf(n)    == CallTo("ConnectPlc", n, None)
DisconnectOf(n) == CallTo("DisconnectPlc", n, None)
Toggles(n)      == {ConnectOf(n), DisconnectOf(n)}

LEMMA CallIs ==
  ASSUME NEW c \in CallsMade
  PROVE  /\ c = LoadPlcs <=> c.method = "ListPlcs" /\ c.of = None
         /\ \A n \in PlcNames :
              /\ c = LoadPlc(n) <=> c.method = "ListPlcs" /\ c.of = n
              /\ c = LoadGroups(n) <=> c.method = "ListDbGroups" /\ c.of = n
              /\ c = AddOf(n) <=> c.method = "AddPlc" /\ c.of = n
              /\ c = ConnectOf(n) <=> c.method = "ConnectPlc" /\ c.of = n
              /\ c = DisconnectOf(n) <=> c.method = "DisconnectPlc" /\ c.of = n
              /\ c \in Toggles(n) <=> c.method \in {"ConnectPlc", "DisconnectPlc"} /\ c.of = n
              /\ c.method \in Ops =>
                   (n \in PlcsOf(c) <=> n = c.of \/ (c.method = "UpdatePlc" /\ n = c.arg))
  <1>1. /\ LoadPlcs.method = "ListPlcs" /\ LoadPlcs.of = None
        /\ \A n : /\ LoadPlc(n).method = "ListPlcs" /\ LoadPlc(n).of = n
                  /\ LoadGroups(n).method = "ListDbGroups" /\ LoadGroups(n).of = n
                  /\ AddOf(n).method = "AddPlc" /\ AddOf(n).of = n
                  /\ ConnectOf(n).method = "ConnectPlc" /\ ConnectOf(n).of = n
                  /\ DisconnectOf(n).method = "DisconnectPlc" /\ DisconnectOf(n).of = n
    BY DEF LoadPlcs, LoadPlc, LoadGroups, AddOf, ConnectOf, DisconnectOf, CallTo
  <1>2. c.method \in {"ListPlcs", "ListDbGroups"} \cup (Ops \ {"UpdatePlc"}) =>
          c = CallTo(c.method, c.of, None) /\ c.arg = None
    BY DEF CallsMade, CallTo, Ops
  <1>3. ASSUME NEW n \in PlcNames
        PROVE  c.method \in Ops =>
                 (n \in PlcsOf(c) <=> n = c.of \/ (c.method = "UpdatePlc" /\ n = c.arg))
    <2>1. n # None
      BY PlcsAssumption
    <2>2. c.method \in Ops => c.method = "UpdatePlc" \/ c.arg = None
      BY <1>2
    <2> QED BY <2>1, <2>2 DEF PlcsOf
  <1>4. c.method \in {"ListPlcs", "ListDbGroups"} \cup (Ops \ {"UpdatePlc"}) =>
          /\ c.method = "ListPlcs" => c = LoadPlc(c.of) /\ (c.of = None => c = LoadPlcs)
          /\ c.method = "ListDbGroups" => c = LoadGroups(c.of)
          /\ c.method = "AddPlc" => c = AddOf(c.of)
          /\ c.method = "ConnectPlc" => c = ConnectOf(c.of)
          /\ c.method = "DisconnectPlc" => c = DisconnectOf(c.of)
    BY <1>2 DEF LoadPlcs, LoadPlc, LoadGroups, AddOf, ConnectOf, DisconnectOf
  <1>5. {"ListPlcs", "ListDbGroups", "AddPlc", "ConnectPlc", "DisconnectPlc"}
          \subseteq {"ListPlcs", "ListDbGroups"} \cup (Ops \ {"UpdatePlc"})
    BY DEF Ops
  <1>6. c = LoadPlcs <=> c.method = "ListPlcs" /\ c.of = None
    BY <1>1, <1>4, <1>5
  <1>7. ASSUME NEW n \in PlcNames
        PROVE  /\ c = LoadPlc(n) <=> c.method = "ListPlcs" /\ c.of = n
               /\ c = LoadGroups(n) <=> c.method = "ListDbGroups" /\ c.of = n
               /\ c = AddOf(n) <=> c.method = "AddPlc" /\ c.of = n
               /\ c = ConnectOf(n) <=> c.method = "ConnectPlc" /\ c.of = n
               /\ c = DisconnectOf(n) <=> c.method = "DisconnectPlc" /\ c.of = n
    BY <1>1, <1>4, <1>5
  <1>8. \A n \in PlcNames :
          c \in Toggles(n) <=> c.method \in {"ConnectPlc", "DisconnectPlc"} /\ c.of = n
    BY <1>7 DEF Toggles
  <1> QED BY <1>3, <1>6, <1>7, <1>8

-----------------------------------------------------------------------------
(* The host *)

Flags == [PlcNames -> {None, "on", "off"}]
HubTypeOK(h) ==
  h \in [session : [PlcNames -> {None, "fresh", "scanned"}],
         engine : [PlcNames -> {None, "starting", "running"}],
         starter : [PlcNames -> Ids \cup {None}]]

(* A hub that differs in what it knows of n. *)
Besides(n, h, g) ==
  \A k \in PlcNames \ {n} : h.session[k] = g.session[k] /\ h.engine[k] = g.engine[k]

(* An operation is about the PLC it names, or the two of an update. *)
Frame(m) ==
  /\ \A n \in PlcNames \ PlcsOf(m.call) : /\ hub'.session[n] = hub.session[n]
                                          /\ hub'.engine[n] = hub.engine[n]
  /\ \A i \in Ids \ {m.id} : step'[i] = step[i]

(* What the answer to a call says, and what has changed by then. *)
Answered(m, result) ==
  /\ Answer(m, result) /\ result.ok \in BOOLEAN /\ result.data \in Data
  /\ Frame(m)
  /\ m.call.method = "ListPlcs" => result.data = Listed /\ result.ok
  /\ m.call.method = "ListDbGroups" => result.data = GroupsOf(m.call.of) /\ result.ok
  /\ m.call.method \notin Ops => hub' = hub /\ step' = step
  /\ m.call.method \notin {"RemovePlc", "UpdatePlc"} \cup ChangingGroups => owner' = owner
  /\ m.call.method \in ChangingGroups /\ ~result.ok => owner' = owner
  /\ m.call.method \in ChangingGroups =>
       \A g \in Groups : \/ owner'[g] = owner[g] \/ owner[g] = None
                         \/ m.call.method = "DeleteDbGroup" /\ g = m.call.of /\ result.ok
  /\ m.call.method \notin ChangingPlcs => Stored' = Stored
  /\ m.call.method = "AddPlc" /\ ~result.ok =>
       /\ Stored \subseteq Stored' /\ Stored' \subseteq Stored \cup {m.call.of}
       /\ m \in running \/ hub' = hub
  /\ m.call.method \in {"RemovePlc", "UpdatePlc"} =>
       result.ok \/ (Stored' = Stored /\ hub' = hub /\ m \notin running)
  /\ m.call.method = "ConnectPlc" /\ result.ok =>
       /\ m \in running /\ step[m.id] = "starting"
       /\ hub'.session[m.call.of] = hub.session[m.call.of]
  /\ m.call.method = "DisconnectPlc" /\ ~result.ok => hub' = hub

(* What has changed when an operation begins to await, or goes on to await. *)
Awaited(m) ==
  /\ Await(m) /\ m.call.method \in Ops
  /\ Frame(m)
  /\ m.call.method # "UpdatePlc" => owner' = owner
  /\ m.call.method \notin {"UpdatePlc", "AddPlc"} => Stored' = Stored
  /\ m.call.method = "AddPlc" =>
       /\ m \notin running /\ m.call.of \notin Stored /\ Stored' = Stored \cup {m.call.of}
       /\ hub'.session[m.call.of] = "fresh" /\ hub'.engine[m.call.of] = "starting"
  /\ step'[m.id] = "starting" =>
       /\ m.call.method \in {"AddPlc", "ConnectPlc", "UpdatePlc"}
       /\ hub'.session[Target(m)] # None
  /\ m.call.method \in {"RemovePlc", "DisconnectPlc"} => hub'.session = hub.session

LEMMA Results ==
  /\ Done(None).ok = TRUE /\ Done(None).data = None /\ None \in Data
  /\ Refused.ok = FALSE /\ Refused.data = None
  BY DEF Done, Refused, Data

(* Of the flags, only those of PLCs that are stored are written. *)
SameNames(p, q) == \A n \in PlcNames : p[n] = None <=> q[n] = None

LEMMA FlagFacts ==
  ASSUME NEW m, Target(m) \in PlcNames, NEW p \in Flags, NEW flag \in {"on", "off"}
  PROVE  /\ Flagged(m, p, flag) \in Flags /\ SameNames(Flagged(m, p, flag), p)
         /\ \A n \in PlcNames : Flag(p, n, flag) \in Flags /\ SameNames(Flag(p, n, flag), p)
  BY PlcsAssumption DEF Flagged, Flag, Flags, SameNames

LEMMA SameStored ==
  ASSUME NEW p, plcs' = p, SameNames(p, plcs)
  PROVE  Stored' = Stored
  BY DEF Stored, SameNames

LEMMA EndsFacts ==
  ASSUME PlcTypeOK, NEW m, m.id \in Ids, NEW h, HubTypeOK(h), NEW result, Ends(m, h, result)
  PROVE  /\ hub' = h /\ HubTypeOK(hub)' /\ step' \in [Ids -> {None, "stopping", "starting"}]
         /\ \A i \in Ids \ {m.id} : step'[i] = step[i]
         /\ Answer(m, result)
  BY DEF Ends, PlcTypeOK, HubTypeOK

LEMMA AddToHubFacts ==
  ASSUME PlcTypeOK, NEW m, m.id \in Ids, Target(m) \in PlcNames,
         NEW h, HubTypeOK(h), NEW p \in Flags, AddToHub(m, h, p)
  PROVE  /\ HubTypeOK(hub)' /\ step' \in [Ids -> {None, "stopping", "starting"}]
         /\ plcs' \in Flags /\ SameNames(plcs', p)
         /\ Besides(Target(m), hub', h)
         /\ \A i \in Ids \ {m.id} : step'[i] = step[i]
         /\ \/ Answer(m, Failed(m)) /\ hub' = h
            \/ /\ Await(m) /\ step'[m.id] = "starting"
               /\ hub'.session[Target(m)] = "fresh" /\ hub'.engine[Target(m)] = "starting"
  <1> DEFINE n == Target(m)
  <1>1. CASE h.session[n] # None /\ plcs' = Flagged(m, p, "off") /\ Ends(m, h, Failed(m))
    <2>1. plcs' \in Flags /\ SameNames(plcs', p)
      BY <1>1, FlagFacts
    <2>2. /\ hub' = h /\ HubTypeOK(hub)' /\ step' \in [Ids -> {None, "stopping", "starting"}]
          /\ \A i \in Ids \ {m.id} : step'[i] = step[i]
          /\ Answer(m, Failed(m))
      BY <1>1, EndsFacts
    <2> QED BY <2>1, <2>2 DEF Besides
  <1>2. CASE /\ hub' = [h EXCEPT !.session[n] = "fresh", !.engine[n] = "starting", !.starter[n] = m.id]
             /\ step' = [step EXCEPT ![m.id] = "starting"]
             /\ plcs' = p /\ Await(m)
    <2>1. /\ HubTypeOK(hub)' /\ Besides(n, hub', h)
          /\ hub'.session[n] = "fresh" /\ hub'.engine[n] = "starting"
      BY <1>2 DEF HubTypeOK, Besides
    <2>2. /\ step' \in [Ids -> {None, "stopping", "starting"}] /\ step'[m.id] = "starting"
          /\ \A i \in Ids \ {m.id} : step'[i] = step[i]
      BY <1>2 DEF PlcTypeOK
    <2> QED BY <1>2, <2>1, <2>2 DEF SameNames
  <1> QED BY <1>1, <1>2 DEF AddToHub

(* RemovePlcAsync leaves a hub behind that differs in what it knows of n. *)
LEMMA ForgottenFacts ==
  ASSUME PlcTypeOK, NEW n \in PlcNames
  PROVE  /\ HubTypeOK(hub) /\ Besides(n, hub, hub)
         /\ HubTypeOK(Forgotten(n)) /\ Besides(n, Forgotten(n), hub)
         /\ HubTypeOK([hub EXCEPT !.session[n] = None])
         /\ Besides(n, [hub EXCEPT !.session[n] = None], hub)
  BY DEF PlcTypeOK, HubTypeOK, Besides, Forgotten

(* What a running call is about. *)
LEMMA OpsOf ==
  ASSUME NEW m, m.call \in CallsMade, m.call.method \in Ops
  PROVE  /\ m.call.of \in PlcNames /\ Target(m) \in PlcNames
         /\ m.call.of \in PlcsOf(m.call) /\ Target(m) \in PlcsOf(m.call)
         /\ m.call.method # "UpdatePlc" => Target(m) = m.call.of
  BY CallForms DEF Target, PlcsOf

LEMMA AwaitStopFacts ==
  ASSUME PlcTypeOK, NEW m, m.id \in Ids, NEW n \in PlcsOf(m.call), n \in PlcNames,
         NEW p, AwaitStop(m, n, p)
  PROVE  /\ HubTypeOK(hub)' /\ step' \in [Ids -> {None, "stopping", "starting"}]
         /\ plcs' = p /\ Frame(m) /\ Await(m)
         /\ hub'.session = hub.session /\ step'[m.id] = "stopping"
  BY DEF AwaitStop, PlcTypeOK, HubTypeOK, Frame

LEMMA AfterStopFacts ==
  ASSUME PlcTypeOK, NEW m, m.id \in Ids, m.call \in CallsMade,
         NEW h, HubTypeOK(h), Besides(m.call.of, h, hub),
         NEW found \in BOOLEAN, ~found => h = hub,
         AfterStop(m, h, plcs, found)
  PROVE  PlcTypeOK' /\ (Awaited(m) \/ \E result : Answered(m, result))
  <1> DEFINE n == m.call.of
  <1>1. /\ m.call.method \in {"RemovePlc", "DisconnectPlc", "ConnectPlc"}
        /\ m.call.method \in Ops /\ m.call.method \notin ChangingGroups
    BY DEF AfterStop, Ops, ChangingGroups
  <1>2. n \in PlcNames /\ Target(m) = n /\ n \in PlcsOf(m.call)
    BY <1>1, OpsOf
  <1>3. plcs \in Flags /\ owner \in [Groups -> PlcNames \cup {None}] /\ kept \subseteq Ids
    BY DEF PlcTypeOK, Flags
  <1>4. CASE m.call.method = "RemovePlc"
    <2>1. /\ kept' = KeptWithout(n) /\ plcs' = [plcs EXCEPT ![n] = None]
          /\ owner' = [g \in Groups |-> IF owner[g] = n THEN None ELSE owner[g]]
          /\ Ends(m, h, Done(None))
      BY <1>4 DEF AfterStop
    <2>2. /\ hub' = h /\ HubTypeOK(hub)' /\ step' \in [Ids -> {None, "stopping", "starting"}]
          /\ \A i \in Ids \ {m.id} : step'[i] = step[i]
          /\ Answer(m, Done(None))
      BY <2>1, EndsFacts
    <2>3. PlcTypeOK'
      BY <1>3, <2>1, <2>2 DEF PlcTypeOK, Flags, KeptWithout, HubTypeOK
    <2>4. Frame(m)
      BY <1>2, <2>2 DEF Frame, Besides
    <2>5. Answered(m, Done(None))
      BY <1>1, <1>4, <2>2, <2>4, Results DEF Answered, ChangingPlcs
    <2> QED BY <2>3, <2>5
  <1>5. CASE m.call.method = "DisconnectPlc"
    <2> DEFINE result == IF found THEN Done(None) ELSE Refused
    <2>1. /\ plcs' = IF found THEN Flag(plcs, n, "off") ELSE plcs
          /\ Ends(m, h, result) /\ UNCHANGED <<owner, kept>>
      BY <1>5 DEF AfterStop
    <2>2. /\ hub' = h /\ HubTypeOK(hub)' /\ step' \in [Ids -> {None, "stopping", "starting"}]
          /\ \A i \in Ids \ {m.id} : step'[i] = step[i]
          /\ Answer(m, result)
      BY <2>1, EndsFacts
    <2>3. plcs' \in Flags /\ SameNames(plcs', plcs)
      BY <1>2, <1>3, <2>1, FlagFacts DEF SameNames
    <2>4. PlcTypeOK'
      BY <1>3, <2>1, <2>2, <2>3 DEF PlcTypeOK, Flags, HubTypeOK
    <2>5. Frame(m) /\ Stored' = Stored
      BY <1>2, <2>2, <2>3, SameStored DEF Frame, Besides
    <2>6. result.ok \in BOOLEAN /\ result.data \in Data /\ (~result.ok => hub' = hub)
      BY <2>2, Results
    <2> HIDE DEF result
    <2>7. Answered(m, result)
      BY <1>1, <1>5, <2>1, <2>2, <2>5, <2>6 DEF Answered
    <2> QED BY <2>4, <2>7
  <1>6. CASE m.call.method = "ConnectPlc"
    <2>1. AddToHub(m, h, plcs) /\ UNCHANGED <<owner, kept>>
      BY <1>6 DEF AfterStop
    <2>2. /\ HubTypeOK(hub)' /\ step' \in [Ids -> {None, "stopping", "starting"}]
          /\ plcs' \in Flags /\ SameNames(plcs', plcs)
          /\ Besides(n, hub', h)
          /\ \A i \in Ids \ {m.id} : step'[i] = step[i]
          /\ \/ Answer(m, Failed(m))
             \/ /\ Await(m) /\ step'[m.id] = "starting"
                /\ hub'.session[n] = "fresh" /\ hub'.engine[n] = "starting"
      BY <1>2, <1>3, <2>1, AddToHubFacts
    <2>3. PlcTypeOK'
      BY <1>3, <2>1, <2>2 DEF PlcTypeOK, Flags, HubTypeOK
    <2>4. Frame(m) /\ Stored' = Stored
      BY <1>2, <2>2, SameStored DEF Frame, Besides
    <2>5. Failed(m) = Refused
      BY <1>6 DEF Failed
    <2>6. CASE Answer(m, Failed(m))
      <3>1. Answered(m, Refused)
        BY <1>1, <1>6, <2>1, <2>4, <2>5, <2>6, Results DEF Answered
      <3> QED BY <2>3, <3>1
    <2>7. CASE Await(m) /\ step'[m.id] = "starting" /\ hub'.session[n] = "fresh"
      <3>1. "fresh" # None
        BY PlcsAssumption
      <3>2. Awaited(m)
        BY <1>1, <1>2, <1>6, <2>1, <2>4, <2>7, <3>1 DEF Awaited
      <3> QED BY <2>3, <3>2
    <2> QED BY <2>2, <2>6, <2>7
  <1> QED BY <1>1, <1>4, <1>5, <1>6

LEMMA UpdateAfterStopFacts ==
  ASSUME PlcTypeOK, NEW m, m.id \in Ids, m.call \in CallsMade,
         NEW h, HubTypeOK(h), Besides(m.call.of, h, hub),
         NEW p \in Flags, NEW found, UpdateAfterStop(m, h, p, found)
  PROVE  /\ HubTypeOK(hub)' /\ step' \in [Ids -> {None, "stopping", "starting"}] /\ plcs' \in Flags
         /\ Awaited(m) \/ \E result : Answered(m, result)
  <1>1. m.call.method = "UpdatePlc" /\ m.call.method \in Ops /\ m.call.method \notin ChangingGroups
    BY DEF UpdateAfterStop, Ops, ChangingGroups
  <1>2. /\ m.call.of \in PlcNames /\ Target(m) \in PlcNames
        /\ m.call.of \in PlcsOf(m.call) /\ Target(m) \in PlcsOf(m.call)
    BY <1>1, OpsOf
  <1>3. ASSUME Besides(Target(m), hub', h), \A i \in Ids \ {m.id} : step'[i] = step[i]
        PROVE  Frame(m)
    BY <1>2, <1>3 DEF Frame, Besides
  <1>4. ASSUME Frame(m), Answer(m, Done(None))
        PROVE  Answered(m, Done(None))
    BY <1>1, <1>4, Results DEF Answered, ChangingPlcs
  <1>5. Failed(m) = Done(None)
    BY <1>1 DEF Failed
  <1>6. CASE AddToHub(m, h, p)
    <2>1. /\ HubTypeOK(hub)' /\ step' \in [Ids -> {None, "stopping", "starting"}]
          /\ plcs' \in Flags
          /\ Besides(Target(m), hub', h)
          /\ \A i \in Ids \ {m.id} : step'[i] = step[i]
          /\ \/ Answer(m, Failed(m))
             \/ /\ Await(m) /\ step'[m.id] = "starting"
                /\ hub'.session[Target(m)] = "fresh"
      BY <1>2, <1>6, AddToHubFacts
    <2>2. CASE Answer(m, Failed(m))
      BY <1>3, <1>4, <1>5, <2>1, <2>2
    <2>3. CASE Await(m) /\ step'[m.id] = "starting" /\ hub'.session[Target(m)] = "fresh"
      <3>1. "fresh" # None
        BY PlcsAssumption
      <3>2. Awaited(m)
        BY <1>1, <1>3, <2>1, <2>3, <3>1 DEF Awaited
      <3> QED BY <2>1, <3>2
    <2> QED BY <2>1, <2>2, <2>3
  <1>7. CASE plcs' = Flagged(m, p, "off") /\ Ends(m, h, Done(None))
    <2>1. plcs' \in Flags
      BY <1>2, <1>7, FlagFacts
    <2>2. /\ hub' = h /\ HubTypeOK(hub)' /\ step' \in [Ids -> {None, "stopping", "starting"}]
          /\ \A i \in Ids \ {m.id} : step'[i] = step[i]
          /\ Answer(m, Done(None))
      BY <1>7, EndsFacts
    <2>3. Besides(Target(m), hub', h)
      BY <2>2 DEF Besides
    <2> QED BY <1>3, <1>4, <2>1, <2>2, <2>3
  <1> QED BY <1>6, <1>7 DEF UpdateAfterStop

(* Nothing but a message is changed by what does not touch the PLCs. *)
LEMMA QuietAnswer ==
  ASSUME PlcTypeOK, NEW m, m \notin running, NEW result, HandleInvoke(m, result),
         result.ok \in BOOLEAN, result.data \in Data, UNCHANGED <<hub, step, kept>>,
         plcs' \in Flags, SameNames(plcs', plcs),
         m.call.method = "ListPlcs" => result.data = Listed /\ result.ok,
         m.call.method = "ListDbGroups" => result.data = GroupsOf(m.call.of) /\ result.ok,
         owner' \in [Groups -> PlcNames \cup {None}],
         m.call.method \notin ChangingGroups \/ ~result.ok => owner' = owner,
         m.call.method \in ChangingGroups =>
           \A g \in Groups : \/ owner'[g] = owner[g] \/ owner[g] = None
                             \/ m.call.method = "DeleteDbGroup" /\ g = m.call.of /\ result.ok,
         m.call.method \in {"ConnectPlc"} => ~result.ok
  PROVE  PlcTypeOK' /\ Answered(m, result)
  <1>1. PlcTypeOK'
    BY DEF PlcTypeOK, Flags
  <1>2. Frame(m) /\ Stored' = Stored /\ Answer(m, result)
    BY SameStored DEF Frame, Answer
  <1> QED BY <1>1, <1>2 DEF Answered

LEMMA HostHandles ==
  ASSUME PlcTypeOK, NEW m, m.id \in Ids, m.call \in CallsMade, m \notin running,
         NEW used, PlcHandle(m, used)
  PROVE  PlcTypeOK' /\ (Awaited(m) \/ \E result : Answered(m, result))
  <1> DEFINE n == m.call.of
  <1>1. /\ plcs \in Flags /\ owner \in [Groups -> PlcNames \cup {None}] /\ kept \subseteq Ids
        /\ SameNames(plcs, plcs)
    BY DEF PlcTypeOK, Flags, SameNames
  <1>2. ASSUME UNCHANGED plcVars, HandleInvoke(m, Refused) \/ HandleInvoke(m, Done(None)),
               m.call.method \notin {"ListPlcs", "ListDbGroups", "ConnectPlc"}
                 \/ (m.call.method = "ConnectPlc" /\ HandleInvoke(m, Refused))
        PROVE  PlcTypeOK' /\ \E result : Answered(m, result)
    <2>1. UNCHANGED <<plcs, owner, hub, step, kept>>
      BY <1>2 DEF plcVars
    <2>2. CASE HandleInvoke(m, Refused)
      BY <1>1, <1>2, <2>1, <2>2, Results, QuietAnswer
    <2>3. CASE /\ HandleInvoke(m, Done(None))
               /\ m.call.method \notin {"ListPlcs", "ListDbGroups", "ConnectPlc"}
      BY <1>1, <2>1, <2>3, Results, QuietAnswer
    <2> QED BY <1>2, <2>2, <2>3
  <1>3. CASE ListPlcs(m)
    <2>1. /\ m.call.method = "ListPlcs" /\ HandleInvoke(m, Done(Listed)) /\ plcs' = Listed
          /\ UNCHANGED <<owner, hub, step, kept>>
      BY <1>3 DEF ListPlcs
    <2>2. Listed \in Flags /\ SameNames(Listed, plcs)
      BY PlcsAssumption DEF Listed, Connected, Flags, SameNames
    <2>3. Done(Listed).ok = TRUE /\ Done(Listed).data = Listed /\ Listed \in Data
      BY <2>2 DEF Done, Data, Flags
    <2>4. m.call.method \notin {"ListDbGroups", "ConnectPlc"} \cup ChangingGroups
      BY <2>1 DEF ChangingGroups
    <2> QED BY <1>1, <2>1, <2>2, <2>3, <2>4, QuietAnswer
  <1>4. CASE ListDbGroups(m)
    <2>1. /\ m.call.method = "ListDbGroups" /\ HandleInvoke(m, Done(GroupsOf(n)))
          /\ UNCHANGED <<plcs, owner, hub, step, kept>>
      BY <1>4 DEF ListDbGroups, plcVars
    <2>2. /\ Done(GroupsOf(n)).ok = TRUE /\ Done(GroupsOf(n)).data = GroupsOf(n)
          /\ GroupsOf(n) \in Data
      BY DEF Done, Data, GroupsOf
    <2>3. m.call.method \notin {"ListPlcs", "ConnectPlc"} \cup ChangingGroups
      BY <2>1 DEF ChangingGroups
    <2> QED BY <1>1, <2>1, <2>2, <2>3, QuietAnswer
  <1>5. CASE CreateDbGroup(m, used)
    <2>1. /\ m.call.method = "CreateDbGroup" /\ UNCHANGED <<plcs, hub, step, kept>>
          /\ m.call.method \notin {"ListPlcs", "ListDbGroups", "ConnectPlc"}
      BY <1>5 DEF CreateDbGroup
    <2>2. CASE HandleInvoke(m, Refused) /\ UNCHANGED owner
      BY <1>1, <2>1, <2>2, Results, QuietAnswer
    <2>3. ASSUME NEW g \in Groups, owner[g] = None, owner' = [owner EXCEPT ![g] = n],
                 HandleInvoke(m, Done(None))
          PROVE  PlcTypeOK' /\ \E result : Answered(m, result)
      <3>1. n \in PlcNames
        BY <2>1, CallForms
      <3>2. /\ owner' \in [Groups -> PlcNames \cup {None}]
            /\ \A k \in Groups : owner'[k] = owner[k] \/ owner[k] = None
        BY <1>1, <2>3, <3>1
      <3>3. m.call.method \in ChangingGroups
        BY <2>1 DEF ChangingGroups
      <3> QED BY <1>1, <2>1, <2>3, <3>2, <3>3, Results, QuietAnswer
    <2> QED BY <1>5, <2>2, <2>3 DEF CreateDbGroup
  <1>6. CASE DeleteDbGroup(m)
    <2>1. /\ m.call.method = "DeleteDbGroup" /\ UNCHANGED <<plcs, hub, step, kept>>
          /\ owner' = [owner EXCEPT ![n] = None] /\ HandleInvoke(m, Done(None))
          /\ m.call.method \notin {"ListPlcs", "ListDbGroups", "ConnectPlc"}
      BY <1>6 DEF DeleteDbGroup
    <2>2. /\ owner' \in [Groups -> PlcNames \cup {None}]
          /\ \A g \in Groups : owner'[g] = owner[g] \/ g = n
      BY <1>1, <2>1
    <2>3. m.call.method \in ChangingGroups
      BY <2>1 DEF ChangingGroups
    <2> QED BY <1>1, <2>1, <2>2, <2>3, Results, QuietAnswer
  <1>7. CASE RenameDbGroup(m)
    BY <1>2, <1>7 DEF RenameDbGroup
  <1>8. CASE ConnectUnknownPlc(m)
    BY <1>2, <1>8 DEF ConnectUnknownPlc
  <1>9. CASE AddPlc(m)
    <2>1. /\ m.call.method = "AddPlc" /\ m.call.method \in Ops /\ UNCHANGED <<owner, kept>>
          /\ m.call.method \notin ChangingGroups
      BY <1>9 DEF AddPlc, Ops, ChangingGroups
    <2>2. n \in PlcNames /\ Target(m) = n /\ n \in PlcsOf(m.call)
      BY <2>1, OpsOf
    <2>3. CASE HandleInvoke(m, Refused) /\ UNCHANGED <<plcs, hub, step>>
      BY <1>2, <2>1, <2>3 DEF plcVars
    <2>4. CASE plcs[n] = None /\ AddToHub(m, hub, [plcs EXCEPT ![n] = "off"])
      <3> DEFINE p == [plcs EXCEPT ![n] = "off"]
      <3>1. p \in Flags /\ HubTypeOK(hub) /\ \A k \in PlcNames : p[k] = None <=> plcs[k] = None /\ k # n
        BY <1>1, <2>2, PlcsAssumption DEF Flags, PlcTypeOK, HubTypeOK
      <3> HIDE DEF p
      <3>2. /\ HubTypeOK(hub)' /\ step' \in [Ids -> {None, "stopping", "starting"}]
            /\ plcs' \in Flags /\ SameNames(plcs', p)
            /\ Besides(n, hub', hub)
            /\ \A i \in Ids \ {m.id} : step'[i] = step[i]
            /\ \/ Answer(m, Failed(m)) /\ hub' = hub
               \/ /\ Await(m) /\ step'[m.id] = "starting"
                  /\ hub'.session[n] = "fresh" /\ hub'.engine[n] = "starting"
        BY <2>2, <2>4, <3>1, AddToHubFacts DEF p
      <3>3. PlcTypeOK'
        BY <1>1, <2>1, <3>2 DEF PlcTypeOK, Flags, HubTypeOK
      <3>4. Frame(m)
        BY <2>2, <3>2 DEF Frame, Besides
      <3>5. n \notin Stored /\ Stored' = Stored \cup {n}
        BY <2>2, <2>4, <3>1, <3>2 DEF Stored, SameNames
      <3>6. CASE Answer(m, Failed(m)) /\ hub' = hub
        <4>1. Failed(m) = Refused
          BY <2>1 DEF Failed
        <4>2. Answered(m, Refused)
          BY <2>1, <3>4, <3>5, <3>6, <4>1, Results DEF Answered, ChangingPlcs
        <4> QED BY <3>3, <4>2
      <3>7. CASE /\ Await(m) /\ step'[m.id] = "starting"
                 /\ hub'.session[n] = "fresh" /\ hub'.engine[n] = "starting"
        <4>1. "fresh" # None
          BY PlcsAssumption
        <4>2. Awaited(m)
          BY <2>1, <2>2, <3>4, <3>5, <3>7, <4>1 DEF Awaited
        <4> QED BY <3>3, <4>2
      <3> QED BY <3>2, <3>6, <3>7
    <2> QED BY <1>9, <2>3, <2>4 DEF AddPlc
  <1>10. CASE StopPlc(m)
    <2>1. /\ m.call.method \in {"RemovePlc", "DisconnectPlc", "ConnectPlc"} /\ m.call.method \in Ops
          /\ m.call.method \notin ChangingGroups
      BY <1>10 DEF StopPlc, Ops, ChangingGroups
    <2>2. n \in PlcNames /\ n \in PlcsOf(m.call)
      BY <2>1, OpsOf
    <2>3. CASE AwaitStop(m, n, plcs) /\ UNCHANGED <<owner, kept>>
      <3>1. /\ HubTypeOK(hub)' /\ step' \in [Ids -> {None, "stopping", "starting"}]
            /\ plcs' = plcs /\ Frame(m) /\ Await(m)
            /\ hub'.session = hub.session /\ step'[m.id] = "stopping"
        BY <2>2, <2>3, AwaitStopFacts
      <3>2. PlcTypeOK'
        BY <1>1, <2>3, <3>1 DEF PlcTypeOK, Flags, HubTypeOK
      <3>3. Stored' = Stored
        BY <3>1 DEF Stored
      <3>4. Awaited(m)
        BY <2>1, <2>3, <3>1, <3>3 DEF Awaited
      <3> QED BY <3>2, <3>4
    <2>4. CASE AfterStop(m, Forgotten(n), plcs, TRUE)
      BY <2>2, <2>4, ForgottenFacts, AfterStopFacts
    <2>5. CASE AfterStop(m, hub, plcs, FALSE)
      BY <2>2, <2>5, ForgottenFacts, AfterStopFacts
    <2> QED BY <1>10, <2>3, <2>4, <2>5 DEF StopPlc
  <1>11. CASE UpdatePlc(m)
    <2> DEFINE new == m.call.arg
               p   == [plcs EXCEPT ![n] = None, ![new] = plcs[n]]
    <2>1. m.call.method = "UpdatePlc" /\ m.call.method \in Ops /\ m.call.method \notin ChangingGroups
      BY <1>11 DEF UpdatePlc, Ops, ChangingGroups
    <2>2. n \in PlcNames /\ n \in PlcsOf(m.call) /\ new \in PlcNames
      BY <2>1, OpsOf, CallForms
    <2>3. CASE HandleInvoke(m, Refused) /\ UNCHANGED plcVars
      BY <1>2, <2>1, <2>3
    <2>4. p \in Flags
      BY <1>1, <2>2 DEF Flags
    <2> HIDE DEF p
    <2> DEFINE Good == /\ HubTypeOK(hub)' /\ step' \in [Ids -> {None, "stopping", "starting"}]
                       /\ plcs' \in Flags
                       /\ Awaited(m) \/ \E result : Answered(m, result)
    <2>5. ASSUME owner' = [g \in Groups |-> IF owner[g] = n THEN new ELSE owner[g]],
                 kept' = {i \in KeptWithout(n) \cup {m.id} : step'[i] # None}, Good
          PROVE  PlcTypeOK' /\ (Awaited(m) \/ \E result : Answered(m, result))
      <3>1. owner' \in [Groups -> PlcNames \cup {None}] /\ kept' \subseteq Ids
        BY <1>1, <2>2, <2>5 DEF KeptWithout
      <3> QED BY <2>5, <3>1 DEF PlcTypeOK, Flags, HubTypeOK
    <2>6. ASSUME plcs' = p, Ends(m, hub, Done(None)) PROVE Good
      <3>1. /\ hub' = hub /\ HubTypeOK(hub)' /\ step' \in [Ids -> {None, "stopping", "starting"}]
            /\ \A i \in Ids \ {m.id} : step'[i] = step[i]
            /\ Answer(m, Done(None))
        BY <2>2, <2>6, ForgottenFacts, EndsFacts
      <3>2. Answered(m, Done(None))
        BY <2>1, <3>1, Results DEF Answered, Frame, ChangingPlcs
      <3> QED BY <2>4, <2>6, <3>1, <3>2
    <2>7. ASSUME AwaitStop(m, n, p) PROVE Good
      <3>1. /\ HubTypeOK(hub)' /\ step' \in [Ids -> {None, "stopping", "starting"}]
            /\ plcs' = p /\ Frame(m) /\ Await(m) /\ step'[m.id] = "stopping"
        BY <2>2, <2>7, AwaitStopFacts
      <3>2. Awaited(m)
        BY <2>1, <3>1 DEF Awaited
      <3> QED BY <2>4, <3>1, <3>2
    <2>8. ASSUME UpdateAfterStop(m, Forgotten(n), p, TRUE) PROVE Good
      BY <2>2, <2>4, <2>8, ForgottenFacts, UpdateAfterStopFacts
    <2>9. ASSUME UpdateAfterStop(m, hub, p, FALSE) PROVE Good
      BY <2>2, <2>4, <2>9, ForgottenFacts, UpdateAfterStopFacts
    <2> HIDE DEF Good
    <2>10. \/ HandleInvoke(m, Refused) /\ UNCHANGED plcVars
           \/ /\ owner' = [g \in Groups |-> IF owner[g] = n THEN new ELSE owner[g]]
              /\ kept' = {i \in KeptWithout(n) \cup {m.id} : step'[i] # None}
              /\ \/ plcs' = p /\ Ends(m, hub, Done(None))
                 \/ AwaitStop(m, n, p)
                 \/ UpdateAfterStop(m, Forgotten(n), p, TRUE)
                 \/ UpdateAfterStop(m, hub, p, FALSE)
      BY <1>11 DEF UpdatePlc, p
    <2> QED BY <2>3, <2>5, <2>6, <2>7, <2>8, <2>9, <2>10
  <1> QED BY <1>3, <1>4, <1>5, <1>6, <1>7, <1>8, <1>9, <1>10, <1>11 DEF PlcHandle

LEMMA HostFinishes ==
  ASSUME PlcTypeOK, NEW m \in running, m.id \in Ids, m.call \in CallsMade, m.call.method \in Ops,
         step[m.id] = "starting" => m.call.method \in {"AddPlc", "ConnectPlc", "UpdatePlc"},
         PlcFinish(m)
  PROVE  PlcTypeOK' /\ (Awaited(m) \/ \E result : Answered(m, result))
  <1> DEFINE n == m.call.of
  <1>1. /\ plcs \in Flags /\ owner \in [Groups -> PlcNames \cup {None}] /\ kept \subseteq Ids
        /\ SameNames(plcs, plcs)
    BY DEF PlcTypeOK, Flags, SameNames
  <1>2. /\ n \in PlcNames /\ Target(m) \in PlcNames
        /\ n \in PlcsOf(m.call) /\ Target(m) \in PlcsOf(m.call)
        /\ m.call.method # "UpdatePlc" => Target(m) = n
    BY OpsOf
  <1>3. CASE FinishStop(m)
    <2> DEFINE h == [hub EXCEPT !.session[n] = None]
    <2>1. HubTypeOK(h) /\ Besides(n, h, hub)
      BY <1>2, ForgottenFacts
    <2>2. CASE AfterStop(m, h, plcs, TRUE)
      BY <2>1, <2>2, AfterStopFacts
    <2>3. CASE /\ UpdateAfterStop(m, h, plcs, TRUE)
               /\ kept' = {i \in kept : step'[i] # None} /\ UNCHANGED owner
      <3> HIDE DEF h
      <3>1. /\ HubTypeOK(hub)' /\ step' \in [Ids -> {None, "stopping", "starting"}]
            /\ plcs' \in Flags
            /\ Awaited(m) \/ \E result : Answered(m, result)
        BY <1>1, <2>1, <2>3, UpdateAfterStopFacts
      <3>2. PlcTypeOK'
        BY <1>1, <2>3, <3>1 DEF PlcTypeOK, Flags, HubTypeOK
      <3> QED BY <3>1, <3>2
    <2> QED BY <1>3, <2>2, <2>3 DEF FinishStop
  <1>4. CASE FinishStart(m)
    <2> DEFINE k       == Target(m)
               started == [hub EXCEPT !.engine[k] = "running", !.starter[k] = None]
               h       == IF hub.starter[k] = m.id THEN started ELSE hub
    <2>1. /\ step[m.id] = "starting" /\ kept' = kept \ {m.id} /\ owner' = owner
          /\ \/ Ends(m, h, Done(None)) /\ plcs' = Flagged(m, plcs, "on")
             \/ Ends(m, Forgotten(k), Failed(m)) /\ plcs' = Flagged(m, plcs, "off")
      BY <1>4 DEF FinishStart
    <2>2. /\ HubTypeOK(h) /\ Besides(k, h, hub) /\ h.session = hub.session
          /\ HubTypeOK(Forgotten(k)) /\ Besides(k, Forgotten(k), hub)
      <3>1. HubTypeOK(hub)
        BY DEF PlcTypeOK, HubTypeOK
      <3>2. HubTypeOK(started) /\ Besides(k, started, hub) /\ started.session = hub.session
        BY <1>2, <3>1 DEF HubTypeOK, Besides
      <3>3. HubTypeOK(Forgotten(k)) /\ Besides(k, Forgotten(k), hub)
        BY <1>2, ForgottenFacts
      <3> HIDE DEF started
      <3> QED BY <3>1, <3>2, <3>3 DEF Besides
    <2> HIDE DEF h, k
    <2>3. plcs' \in Flags /\ SameNames(plcs', plcs)
      BY <1>1, <1>2, <2>1, FlagFacts
    <2>4. Stored' = Stored
      BY <2>3, SameStored
    <2>5. ASSUME NEW g, HubTypeOK(g), Besides(k, g, hub), NEW result, Ends(m, g, result)
          PROVE  /\ PlcTypeOK' /\ hub' = g /\ Answer(m, result) /\ Frame(m)
      <3>1. /\ hub' = g /\ HubTypeOK(hub)' /\ step' \in [Ids -> {None, "stopping", "starting"}]
            /\ \A i \in Ids \ {m.id} : step'[i] = step[i]
            /\ Answer(m, result)
        BY <2>5, EndsFacts
      <3>2. Frame(m)
        BY <1>2, <2>5, <3>1 DEF Frame, Besides, k
      <3>3. PlcTypeOK'
        BY <1>1, <2>1, <2>3, <3>1 DEF PlcTypeOK, Flags, HubTypeOK
      <3> QED BY <3>1, <3>2, <3>3
    <2>6. m.call.method \in {"AddPlc", "ConnectPlc", "UpdatePlc"} /\ m.call.method \notin ChangingGroups
      BY <2>1 DEF ChangingGroups
    <2>7. CASE Ends(m, h, Done(None))
      <3>1. PlcTypeOK' /\ hub' = h /\ Answer(m, Done(None)) /\ Frame(m)
        BY <2>2, <2>5, <2>7
      <3>2. Answered(m, Done(None))
        BY <2>1, <2>2, <2>4, <2>6, <3>1, Results DEF Answered, Ops
      <3> QED BY <3>1, <3>2
    <2>8. CASE Ends(m, Forgotten(k), Failed(m))
      <3>1. PlcTypeOK' /\ hub' = Forgotten(k) /\ Answer(m, Failed(m)) /\ Frame(m)
        BY <2>2, <2>5, <2>8
      <3>2. Failed(m) = IF m.call.method = "UpdatePlc" THEN Done(None) ELSE Refused
        BY DEF Failed
      <3>3. Answered(m, Failed(m))
        BY <2>1, <2>4, <2>6, <3>1, <3>2, Results DEF Answered, Ops
      <3> QED BY <3>1, <3>3
    <2> QED BY <2>1, <2>7, <2>8
  <1> QED BY <1>3, <1>4 DEF PlcFinish

-----------------------------------------------------------------------------
(***************************************************************************)
(* What keeps the pages current. On a page that was mounted with no call   *)
(* open, each open call is one of that page. About a PLC that is not        *)
(* excused at most one operation is open: what the hub and the page know of *)
(* it is then as the operation that was answered last has left it.         *)
(***************************************************************************)
Fits ==
  \A a \in Told :
    /\ promise[a.id].method = "ListPlcs" => a.data \in Flags
    /\ promise[a.id].method = "ListDbGroups" => a.data \subseteq Groups
Runs ==
  \A m \in running :
    /\ m.call.method \in Ops
    /\ step[m.id] = "starting" => m.call.method \in {"AddPlc", "ConnectPlc", "UpdatePlc"}

About(i, n) == promise[i] # None /\ promise[i].method \in Ops /\ n \in PlcsOf(promise[i])
OneOperation ==
  \A n \in PlcNames \ excused : \A i, j \in Ids : About(i, n) /\ About(j, n) => i = j
HubKept ==
  \A n \in PlcNames \ excused :
    /\ \A m \in running :
         /\ step[m.id] = "starting" /\ Target(m) = n => hub.session[n] # None
         /\ m.call = AddOf(n) => hub.session[n] = "fresh" /\ hub.engine[n] = "starting"
    /\ \A b \in Told : b.ok /\ promise[b.id] = ConnectOf(n) => hub.session[n] # None

(***************************************************************************)
(* The list. Unless a load is still to be handled, or sure to be asked for, *)
(* the last list on its way, or the one that is shown, has the PLCs that    *)
(* are stored, but for those whose AddPlc failed or has not ended. What it  *)
(* says of the flag of a PLC is right, or an operation is about to correct  *)
(* it on the row that is `held`.                                           *)
(***************************************************************************)
CallsOfList == \A i \in Open : promise[i] = LoadPlcs \/ promise[i].method \in Ops

Lists == {a \in Told : promise[a.id] = LoadPlcs}
ListToCome ==
  \/ \E m \in Asking : m.call = LoadPlcs
  \/ \E m \in running : m.call.method = "UpdatePlc"
  \/ \E b \in Told : b.ok /\ promise[b.id].method \in ChangingPlcs
Added(n) == \E m \in running : m.call = AddOf(n)
FailedAdd(b, n) == ~b.ok /\ promise[b.id] = AddOf(n)

ListAnswer(a) ==
  \A n \in PlcNames :
    /\ a.data[n] # None => n \in Stored
    /\ n \in Stored => a.data[n] # None \/ Added(n) \/ \E b \in Told : Later(a, b) /\ FailedAdd(b, n)
ListShown ==
  \A n \in PlcNames :
    /\ rows[n] # None => n \in Stored
    /\ n \in Stored => rows[n] # None \/ n \in unseen \/ Added(n) \/ \E b \in Told : FailedAdd(b, n)
ListKept ==
  ListToCome \/ /\ \A a \in Lists : (\E b \in Lists : Later(a, b)) \/ ListAnswer(a)
                /\ Lists = {} => ListShown

HeldKept ==
  \A i \in held :
    /\ i \in Open /\ \E n \in PlcNames : promise[i] \in Toggles(n) /\ rows[n] # None
    /\ \A n \in PlcNames \ excused : promise[i] = ConnectOf(n) => rows[n] = "off"

Connects(n) == hub.session[n] # None /\ ~Added(n)
OnAnswer(a, n) ==
  a.data[n] = "on" =>
    \/ Connects(n)
    \/ \E m \in Asking \cup running : m.call \in Toggles(n)
    \/ \E b \in Told : Later(a, b) /\ promise[b.id] \in Toggles(n)
OnShown(n) ==
  rows[n] = "on" =>
    \/ Connects(n)
    \/ \E i \in Open \ held : promise[i] \in Toggles(n)
    \/ \E b \in Told : b.ok /\ promise[b.id] = DisconnectOf(n)
FlagsKept ==
  ListToCome \/ \A n \in PlcNames \ excused :
                  /\ \A a \in Lists : (\E b \in Lists : Later(a, b)) \/ OnAnswer(a, n)
                  /\ Lists = {} => OnShown(n)

(***************************************************************************)
(* The page of one PLC. Its flag is set by one load, before any operation,  *)
(* and by the operations. Its groups, like the list above, are those of the *)
(* last answer; a group that is active or shown is stored, or the answer to *)
(* its deletion is on its way.                                             *)
(***************************************************************************)
Here == page.plc
CallsOfDetail ==
  \A i \in Open : \/ promise[i] \in {LoadPlc(Here), LoadGroups(Here)} \cup Toggles(Here)
                  \/ promise[i].method \in ChangingGroups /\ PlcOf(promise[i]) = Here

LoadOpen == \E i \in Open : promise[i] = LoadPlc(Here)
Toggling == \E i \in Open : promise[i] \in Toggles(Here)
PlcKept ==
  /\ \A i, j \in Open : promise[i] = LoadPlc(Here) /\ promise[j] = LoadPlc(Here) => i = j
  /\ LoadOpen => plc = None
  /\ plc = None => ~Toggling /\ LoadOpen
  /\ plc # None => Here \in Stored
  /\ \A a \in Told : promise[a.id] = LoadPlc(Here) /\ a.data[Here] # None => Here \in Stored
FlagKept ==
  Here \notin excused =>
    /\ \A a \in Told :
         promise[a.id] = LoadPlc(Here) /\ a.data[Here] = "on" => hub.session[Here] # None
    /\ \A i \in Open : promise[i] = ConnectOf(Here) => plc = "off"
    /\ plc = "on" => \/ hub.session[Here] # None
                     \/ \E b \in Told : b.ok /\ promise[b.id] = DisconnectOf(Here)

GroupLists == {a \in Told : promise[a.id].method = "ListDbGroups"}
GroupsToCome ==
  \/ \E m \in Asking : m.call.method = "ListDbGroups"
  \/ \E b \in Told : b.ok /\ promise[b.id].method \in ChangingGroups
GroupsKept ==
  GroupsToCome \/ /\ \A a \in GroupLists : \/ \E b \in GroupLists : Later(a, b)
                                           \/ a.data = GroupsOf(Here)
                  /\ GroupLists = {} => groups = GroupsOf(Here)
Deleted(b, g) == b.ok /\ promise[b.id].method = "DeleteDbGroup" /\ promise[b.id].of = g
ActiveKept ==
  /\ activeGroup = None => groups = {} \/ \E i \in Open : promise[i] = LoadGroups(Here)
  /\ activeGroup # None => owner[activeGroup] = Here \/ \E b \in Told : Deleted(b, activeGroup)
  /\ ~loading => \A g \in groups : owner[g] = Here \/ \E b \in Told : Deleted(b, g)
  /\ \A a \in GroupLists : \A g \in a.data :
       owner[g] = Here \/ \E b \in Told : Later(a, b) /\ Deleted(b, g)

DialogOfPage ==
  /\ dialog[1] \in {"add", "remove", "edit"} => At("list")
  /\ dialog[1] \in {"create", "rename", "delete"} => At("detail")

ListPart   == CallsOfList /\ HeldKept /\ ListKept /\ FlagsKept
DetailPart == CallsOfDetail /\ PlcKept /\ FlagKept /\ GroupsKept /\ ActiveKept
PageKept ==
  /\ Fits /\ Runs /\ DialogOfPage
  /\ ~At("list") => rows = NoRows
  /\ ~At("detail") => plc = None
  /\ clean => orphans = {} /\ OneOperation /\ HubKept
  /\ clean /\ At("list") => ListPart
  /\ clean /\ At("detail") => DetailPart

Kept == Wires(CallsMade, Data) /\ PageKept

LEMMA Opened ==
  ASSUME Wires(CallsMade, Data)
  PROVE  /\ \A m \in Asking \cup running : /\ m.id \in Ids /\ m.id \in Open /\ m.call \in CallsMade
                                           /\ promise[m.id] = m.call /\ m.call # None
         /\ \A a \in Told : /\ a.id \in Ids /\ a.id \in Open /\ promise[a.id] \in CallsMade
                            /\ promise[a.id] # None /\ a.ok \in BOOLEAN
         /\ \A i \in Open : i \in Ids /\ promise[i] \in CallsMade
         /\ Open = {} => Asking = {} /\ running = {} /\ Told = {}
  <1>1. promise \in [Ids -> CallsMade \cup {None}]
    BY DEF Wires
  <1>2. \A i \in Open : i \in Ids /\ promise[i] \in CallsMade
    BY <1>1 DEF Open
  <1> QED BY <1>2, OpenFacts, NoneIsNoCall DEF Scripts

-----------------------------------------------------------------------------
(* A step of the host: m is answered with e, or m awaits. *)

Telling(m, e) ==
  /\ Wires(CallsMade, Data)'
  /\ m \in Asking \cup running /\ m.id \in Ids /\ m.call \in CallsMade /\ promise[m.id] = m.call
  /\ Asking' = Asking \ {m} /\ running' = running \ {m} /\ promise' = promise
  /\ Told' = Told \cup {e} /\ e.id = m.id
  /\ \A a \in Told : Later(a, e)'
  /\ \A a, b \in Told : Later(a, b) => Later(a, b)'
  /\ \A x \in Asking' \cup running' \cup Told : x.id # m.id

Waiting(m) ==
  /\ Wires(CallsMade, Data)'
  /\ m \in Asking \cup running /\ m.id \in Ids /\ m.call \in CallsMade /\ promise[m.id] = m.call
  /\ Asking' = Asking \ {m} /\ running' = running \cup {m} /\ promise' = promise
  /\ Told' = Told
  /\ \A a, b \in Told : Later(a, b) => Later(a, b)'
  /\ \A x \in Asking' \cup (running \ {m}) \cup Told : x.id # m.id

LEMMA AnswerTells ==
  ASSUME Wires(CallsMade, Data), NEW m, NEW result, Answer(m, result),
         result.ok \in BOOLEAN, result.data \in Data
  PROVE  Telling(m, [id |-> m.id, ok |-> result.ok, data |-> result.data])
  <1> DEFINE e == [id |-> m.id, ok |-> result.ok, data |-> result.data]
  <1>1. /\ Wires(CallsMade, Data)' /\ promise' = promise
        /\ m \in Asking \cup running /\ m.id \in Ids /\ m.call \in CallsMade /\ promise[m.id] = m.call
        /\ Asking' = Asking \ {m} /\ running' = running \ {m}
        /\ Told' = Told \cup {e} /\ \A a \in Told : Later(a, e)'
        /\ \A a, b \in Told : Later(a, b) => Later(a, b)'
    <2>1. CASE m \in running
      <3>1. FinishInvoke(m, result) /\ m \notin Asking
        BY <2>1, ApartFacts DEF Answer
      <3> QED BY <2>1, <3>1, Finishes, NoneIsNoCall
    <2>2. CASE m \notin running
      <3>1. HandleInvoke(m, result)
        BY <2>2 DEF Answer
      <3> QED BY <2>2, <3>1, Handles, NoneIsNoCall
    <2> QED BY <2>1, <2>2
  <1>2. \A x \in Asking' \cup running' \cup Told : x.id # m.id
    BY <1>1, ApartFacts
  <1> QED BY <1>1, <1>2 DEF Telling

LEMMA AwaitWaits ==
  ASSUME Wires(CallsMade, Data), NEW m, Await(m)
  PROVE  Waiting(m)
  <1>1. /\ Wires(CallsMade, Data)' /\ promise' = promise
        /\ m \in Asking \cup running /\ m.id \in Ids /\ m.call \in CallsMade /\ promise[m.id] = m.call
        /\ Asking' = Asking \ {m} /\ running' = running \cup {m}
        /\ Told' = Told
        /\ \A a, b \in Told : Later(a, b) => Later(a, b)'
    <2>1. CASE m \in running
      <3>1. UNCHANGED bridgeVars /\ m \notin Asking
        BY <2>1, ApartFacts DEF Await
      <3>2. running' = running /\ promise' = promise
        BY <3>1 DEF bridgeVars, nativeVars
      <3> QED BY <2>1, <3>1, <3>2, Still, Opened
    <2>2. CASE m \notin running
      <3>1. BeginInvoke(m)
        BY <2>2 DEF Await
      <3> QED BY <2>2, <3>1, Begins, NoneIsNoCall
    <2> QED BY <2>1, <2>2
  <1>2. \A x \in Asking' \cup (running \ {m}) \cup Told : x.id # m.id
    BY <1>1, ApartFacts
  <1> QED BY <1>1, <1>2 DEF Waiting

(* A step of the host is one or the other. *)
LEMMA HostStep ==
  ASSUME Wires(CallsMade, Data), PlcTypeOK, Runs, NEW m,
         \/ m \in Asking /\ \E used : PlcHandle(m, used)
         \/ m \in running /\ PlcFinish(m)
  PROVE  PlcTypeOK' /\ ((Waiting(m) /\ Awaited(m)) \/ \E e : Telling(m, e) /\ Answered(m, e))
  <1>1. m.id \in Ids /\ m.call \in CallsMade
    BY Opened
  <1>2. PlcTypeOK' /\ (Awaited(m) \/ \E result : Answered(m, result))
    <2>1. CASE m \in Asking /\ \E used : PlcHandle(m, used)
      <3>1. m \notin running
        BY <2>1, ApartFacts
      <3> QED BY <1>1, <2>1, <3>1, HostHandles
    <2>2. CASE m \in running /\ PlcFinish(m)
      BY <1>1, <2>2, HostFinishes DEF Runs
    <2> QED BY <2>1, <2>2
  <1>3. ASSUME Awaited(m) PROVE Waiting(m)
    BY <1>3, AwaitWaits DEF Awaited
  <1>4. ASSUME NEW result, Answered(m, result)
        PROVE  \E e : Telling(m, e) /\ Answered(m, e)
    <2> DEFINE e == [id |-> m.id, ok |-> result.ok, data |-> result.data]
    <2>1. Telling(m, e)
      BY <1>4, AnswerTells DEF Answered
    <2>2. e.ok = result.ok /\ e.data = result.data
      OBVIOUS
    <2> HIDE DEF e
    <2>3. Answer(m, e)
      BY <1>4, <2>2 DEF Answered, Answer, HandleInvoke, FinishInvoke, Respond
    <2>4. Answered(m, e)
      BY <1>4, <2>2, <2>3 DEF Answered
    <2> QED BY <2>1, <2>4
  <1> QED BY <1>2, <1>3, <1>4

(* What the hub knows of a PLC that another call is about. *)
LEMMA Elsewhere ==
  ASSUME Wires(CallsMade, Data), OneOperation, NEW m \in Asking \cup running, Frame(m),
         m.call.method \notin Ops => hub' = hub,
         NEW n \in PlcNames \ excused, NEW i \in Ids, About(i, n), i # m.id
  PROVE  hub'.session[n] = hub.session[n] /\ hub'.engine[n] = hub.engine[n]
  <1>1. m.id \in Ids /\ promise[m.id] = m.call /\ m.call # None
    BY Opened
  <1>2. CASE m.call.method \in Ops /\ n \in PlcsOf(m.call)
    <2>1. About(m.id, n)
      BY <1>1, <1>2 DEF About
    <2> QED BY <1>1, <2>1 DEF OneOperation
  <1>3. CASE m.call.method \notin Ops
    BY <1>3
  <1>4. CASE n \notin PlcsOf(m.call)
    BY <1>4 DEF Frame
  <1> QED BY <1>2, <1>3, <1>4

LEMMA RunsAbout ==
  ASSUME Wires(CallsMade, Data), Runs, NEW m \in running
  PROVE  /\ m.id \in Ids /\ About(m.id, Target(m)) /\ Target(m) \in PlcNames
         /\ \A n \in PlcNames : m.call = AddOf(n) => About(m.id, n)
  <1>1. /\ m.id \in Ids /\ promise[m.id] = m.call /\ m.call # None /\ m.call \in CallsMade
        /\ m.call.method \in Ops
    BY Opened DEF Runs
  <1>2. About(m.id, Target(m)) /\ Target(m) \in PlcNames
    BY <1>1, OpsOf DEF About
  <1>3. \A n \in PlcNames : m.call = AddOf(n) => n = m.call.of
    BY <1>1, CallIs
  <1> QED BY <1>1, <1>2, <1>3, OpsOf DEF About

LEMMA TogglesAbout ==
  ASSUME Wires(CallsMade, Data), NEW i \in Ids, NEW n \in PlcNames,
         promise[i] \in Toggles(n) \cup {AddOf(n)}
  PROVE  About(i, n) /\ promise[i].method \in {"AddPlc", "ConnectPlc", "DisconnectPlc"}
  <1>1. promise[i] \in CallsMade
    BY CallsOfPages DEF Toggles, ConnectOf, DisconnectOf, AddOf, Ops
  <1>2. promise[i].method \in {"AddPlc", "ConnectPlc", "DisconnectPlc"} /\ promise[i].of = n
    BY <1>1, CallIs
  <1> QED BY <1>1, <1>2, CallForms, CallIs DEF About, Ops

LEMMA HubTold ==
  ASSUME Wires(CallsMade, Data), Runs, OneOperation, HubKept, excused' = excused,
         NEW m, NEW e, Telling(m, e), Answered(m, e)
  PROVE  HubKept'
  <1>1. /\ m \in Asking \cup running /\ Frame(m) /\ (m.call.method \notin Ops => hub' = hub)
        /\ running' = running \ {m} /\ promise' = promise /\ Told' = Told \cup {e} /\ e.id = m.id
        /\ m.id \in Ids /\ promise[m.id] = m.call
        /\ \A x \in running' \cup Told : x.id # m.id
    BY DEF Telling, Answered
  <1> SUFFICES ASSUME NEW n \in PlcNames \ excused
               PROVE  /\ \A x \in running' :
                           /\ step'[x.id] = "starting" /\ Target(x) = n => hub'.session[n] # None
                           /\ x.call = AddOf(n) => hub'.session[n] = "fresh" /\ hub'.engine[n] = "starting"
                      /\ \A b \in Told' : b.ok /\ promise'[b.id] = ConnectOf(n) => hub'.session[n] # None
    BY DEF HubKept
  <1>2. ASSUME NEW x \in running'
        PROVE  /\ step'[x.id] = "starting" /\ Target(x) = n => hub'.session[n] # None
               /\ x.call = AddOf(n) => hub'.session[n] = "fresh" /\ hub'.engine[n] = "starting"
    <2>1. /\ x \in running /\ x.id \in Ids /\ x.id # m.id
          /\ Target(x) = n \/ x.call = AddOf(n) => About(x.id, n)
      BY <1>1, RunsAbout
    <2>2. step'[x.id] = step[x.id]
      BY <1>1, <2>1 DEF Frame
    <2>3. Target(x) = n \/ x.call = AddOf(n) =>
            hub'.session[n] = hub.session[n] /\ hub'.engine[n] = hub.engine[n]
      BY <1>1, <2>1, Elsewhere
    <2> QED BY <2>1, <2>2, <2>3 DEF HubKept
  <1>3. ASSUME NEW b \in Told, b.ok, promise[b.id] = ConnectOf(n)
        PROVE  hub'.session[n] # None
    <2>1. b.id \in Ids /\ b.id # m.id
      BY <1>1, Opened
    <2>2. About(b.id, n)
      BY <1>3, <2>1, TogglesAbout DEF Toggles
    <2>3. hub'.session[n] = hub.session[n]
      BY <1>1, <2>1, <2>2, Elsewhere
    <2> QED BY <1>3, <2>3 DEF HubKept
  <1>4. ASSUME e.ok, promise[e.id] = ConnectOf(n)
        PROVE  hub'.session[n] # None
    <2>1. m.call.method = "ConnectPlc" /\ m.call.of = n
      BY <1>1, <1>4 DEF ConnectOf, CallTo
    <2>2. m \in running /\ step[m.id] = "starting" /\ hub'.session[n] = hub.session[n]
      BY <1>4, <2>1 DEF Answered
    <2>3. Target(m) = n
      BY <2>1 DEF Target
    <2> QED BY <2>2, <2>3 DEF HubKept
  <1> QED BY <1>1, <1>2, <1>3, <1>4

LEMMA HubAwaited ==
  ASSUME Wires(CallsMade, Data), Runs, OneOperation, HubKept, excused' = excused,
         NEW m, Waiting(m), Awaited(m)
  PROVE  HubKept'
  <1>1. /\ m \in Asking \cup running /\ Frame(m) /\ m.call.method \in Ops
        /\ running' = running \cup {m} /\ promise' = promise /\ Told' = Told
        /\ m.id \in Ids /\ promise[m.id] = m.call
        /\ \A x \in (running \ {m}) \cup Told : x.id # m.id
    BY DEF Waiting, Awaited
  <1> SUFFICES ASSUME NEW n \in PlcNames \ excused
               PROVE  /\ \A x \in running' :
                           /\ step'[x.id] = "starting" /\ Target(x) = n => hub'.session[n] # None
                           /\ x.call = AddOf(n) => hub'.session[n] = "fresh" /\ hub'.engine[n] = "starting"
                      /\ \A b \in Told' : b.ok /\ promise'[b.id] = ConnectOf(n) => hub'.session[n] # None
    BY DEF HubKept
  <1>2. ASSUME NEW x \in running \ {m}
        PROVE  /\ step'[x.id] = "starting" /\ Target(x) = n => hub'.session[n] # None
               /\ x.call = AddOf(n) => hub'.session[n] = "fresh" /\ hub'.engine[n] = "starting"
    <2>1. /\ x \in running /\ x.id \in Ids /\ x.id # m.id
          /\ Target(x) = n \/ x.call = AddOf(n) => About(x.id, n)
      BY <1>1, RunsAbout
    <2>2. step'[x.id] = step[x.id]
      BY <1>1, <2>1 DEF Frame
    <2>3. Target(x) = n \/ x.call = AddOf(n) =>
            hub'.session[n] = hub.session[n] /\ hub'.engine[n] = hub.engine[n]
      BY <1>1, <2>1, Elsewhere
    <2> QED BY <2>1, <2>2, <2>3 DEF HubKept
  <1>3. /\ step'[m.id] = "starting" /\ Target(m) = n => hub'.session[n] # None
        /\ m.call = AddOf(n) => hub'.session[n] = "fresh" /\ hub'.engine[n] = "starting"
    <2>1. m.call = AddOf(n) => m.call.method = "AddPlc" /\ m.call.of = n
      BY DEF AddOf, CallTo
    <2> QED BY <2>1 DEF Awaited
  <1>4. ASSUME NEW b \in Told, b.ok, promise[b.id] = ConnectOf(n)
        PROVE  hub'.session[n] # None
    <2>1. b.id \in Ids /\ b.id # m.id
      BY <1>1, Opened
    <2>2. About(b.id, n)
      BY <1>4, <2>1, TogglesAbout DEF Toggles
    <2>3. hub'.session[n] = hub.session[n]
      BY <1>1, <2>1, <2>2, Elsewhere
    <2> QED BY <1>4, <2>3 DEF HubKept
  <1> QED BY <1>1, <1>2, <1>3, <1>4

(* What is told fits its call, and what runs is an operation. *)
LEMMA HostFits ==
  ASSUME Wires(CallsMade, Data), Fits, Runs, PlcTypeOK, NEW m,
         (Waiting(m) /\ Awaited(m)) \/ \E e : Telling(m, e) /\ Answered(m, e)
  PROVE  Fits' /\ Runs'
  <1>1. CASE Waiting(m) /\ Awaited(m)
    <2>1. Fits'
      BY <1>1 DEF Waiting, Fits
    <2>2. ASSUME NEW x \in running \ {m}
          PROVE  step'[x.id] = step[x.id]
      <3>1. x.id \in Ids /\ x.id # m.id
        BY <1>1, Opened DEF Waiting
      <3> QED BY <1>1, <3>1 DEF Awaited, Frame
    <2>3. Runs'
      BY <1>1, <2>2 DEF Waiting, Awaited, Runs
    <2> QED BY <2>1, <2>3
  <1>2. ASSUME NEW e, Telling(m, e), Answered(m, e)
        PROVE  Fits' /\ Runs'
    <2>1. /\ Told' = Told \cup {e} /\ promise' = promise /\ promise[e.id] = m.call
          /\ running' = running \ {m}
      BY <1>2 DEF Telling
    <2>2. /\ m.call.method = "ListPlcs" => e.data \in Flags
          /\ m.call.method = "ListDbGroups" => e.data \subseteq Groups
      <3>1. Listed \in Flags
        BY DEF Listed, Connected, Flags
      <3> QED BY <1>2, <3>1 DEF Answered, GroupsOf
    <2>3. Fits'
      BY <2>1, <2>2 DEF Fits
    <2>4. ASSUME NEW x \in running'
          PROVE  step'[x.id] = step[x.id]
      <3>1. x.id \in Ids /\ x.id # m.id
        BY <1>2, <2>1, Opened DEF Telling
      <3> QED BY <1>2, <3>1 DEF Answered, Frame
    <2>5. Runs'
      BY <2>1, <2>4 DEF Runs
    <2> QED BY <2>3, <2>5
  <1> QED BY <1>1, <1>2

-----------------------------------------------------------------------------
(* A step of the host, while the list is shown. *)

LEMMA ListedFacts ==
  ASSUME NEW n \in PlcNames
  PROVE  /\ Listed[n] = None <=> n \notin Stored
         /\ Listed[n] = "on" => n \in Stored /\ hub.session[n] = "scanned"
  BY PlcsAssumption DEF Listed, Connected, Stored

LEMMA CallsInList ==
  ASSUME Wires(CallsMade, Data), CallsOfList
  PROVE  /\ \A m \in Asking \cup running : m.call = LoadPlcs \/ m.call.method \in Ops
         /\ \A a \in Told : promise[a.id] = LoadPlcs \/ promise[a.id].method \in Ops
         /\ LoadPlcs.method \notin Ops
         /\ \A n : AddOf(n) # LoadPlcs /\ LoadPlcs \notin Toggles(n)
  BY Opened DEF CallsOfList, LoadPlcs, CallTo, Ops, AddOf, Toggles, ConnectOf, DisconnectOf

(* A load that is to come is still to come, unless it is the one that is answered. *)
LEMMA StillToCome ==
  ASSUME Wires(CallsMade, Data), CallsOfList, NEW m, m.call # LoadPlcs,
         (Waiting(m) /\ Awaited(m)) \/ \E e : Telling(m, e) /\ Answered(m, e)
  PROVE  /\ ListToCome => ListToCome'
         /\ Waiting(m) /\ m.call.method = "UpdatePlc" => ListToCome'
         /\ \A e : Telling(m, e) /\ e.ok /\ m.call.method \in ChangingPlcs => ListToCome'
  <1>1. ASSUME Waiting(m), Awaited(m), ListToCome
        PROVE  ListToCome'
    BY <1>1 DEF Waiting, ListToCome
  <1>2. ASSUME NEW e, Telling(m, e), Answered(m, e), ListToCome
        PROVE  ListToCome'
    <2>1. /\ Asking' = Asking \ {m} /\ running' = running \ {m} /\ promise' = promise
          /\ Told' = Told \cup {e} /\ promise[e.id] = m.call
      BY <1>2 DEF Telling
    <2>2. CASE \E x \in Asking : x.call = LoadPlcs
      BY <2>1, <2>2 DEF ListToCome
    <2>3. CASE \E x \in running : x.call.method = "UpdatePlc"
      <3>1. PICK x \in running : x.call.method = "UpdatePlc"
        BY <2>3
      <3>2. CASE x = m
        <4>1. e.ok
          BY <1>2, <3>1, <3>2 DEF Answered
        <4> QED BY <2>1, <3>1, <3>2, <4>1 DEF ListToCome, ChangingPlcs
      <3>3. CASE x # m
        BY <2>1, <3>1, <3>3 DEF ListToCome
      <3> QED BY <3>2, <3>3
    <2>4. CASE \E b \in Told : b.ok /\ promise[b.id].method \in ChangingPlcs
      BY <2>1, <2>4 DEF ListToCome
    <2> QED BY <1>2, <2>2, <2>3, <2>4 DEF ListToCome
  <1>3. Waiting(m) /\ m.call.method = "UpdatePlc" => ListToCome'
    BY DEF Waiting, ListToCome
  <1>4. \A e : Telling(m, e) /\ e.ok /\ m.call.method \in ChangingPlcs => ListToCome'
    BY DEF Telling, ListToCome
  <1> QED BY <1>1, <1>2, <1>3, <1>4

(* What keeps a list right as PLCs are added and no other is stored or forgotten. *)
LEMMA ListSame ==
  ASSUME ListKept, ~ListToCome, Lists' = Lists, UNCHANGED <<rows, unseen>>,
         Told \subseteq Told', \A a, b \in Told : Later(a, b) => Later(a, b)',
         \A b \in Told : promise'[b.id] = promise[b.id],
         Stored \subseteq Stored',
         \A n \in PlcNames :
           n \in Stored' \ Stored \/ Added(n) =>
             Added(n)' \/ \E b \in Told' : FailedAdd(b, n)' /\ \A a \in Told : Later(a, b)'
  PROVE  ListKept'
  <1>1. /\ \A a \in Lists : (\E b \in Lists : Later(a, b)) \/ ListAnswer(a)
        /\ Lists = {} => ListShown
        /\ Lists \subseteq Told
    BY DEF ListKept, Lists
  <1>2. \A b \in Told : \A n : FailedAdd(b, n) => FailedAdd(b, n)'
    BY DEF FailedAdd
  <1>3. ASSUME NEW a \in Lists, ListAnswer(a)
        PROVE  ListAnswer(a)'
    <2> SUFFICES ASSUME NEW n \in PlcNames
                 PROVE  /\ a.data[n] # None => n \in Stored'
                        /\ n \in Stored' =>
                             \/ a.data[n] # None \/ Added(n)'
                             \/ \E b \in Told' : Later(a, b)' /\ FailedAdd(b, n)'
      BY DEF ListAnswer
    <2>1. a.data[n] # None => n \in Stored'
      BY <1>3 DEF ListAnswer
    <2>2. CASE n \in Stored' \ Stored \/ Added(n)
      BY <1>1, <2>1, <2>2
    <2>3. CASE n \in Stored /\ ~Added(n)
      BY <1>1, <1>2, <1>3, <2>1, <2>3 DEF ListAnswer
    <2> QED BY <2>1, <2>2, <2>3
  <1>4. ASSUME ListShown
        PROVE  ListShown'
    <2> SUFFICES ASSUME NEW n \in PlcNames
                 PROVE  /\ rows[n] # None => n \in Stored'
                        /\ n \in Stored' =>
                             \/ rows[n] # None \/ n \in unseen \/ Added(n)'
                             \/ \E b \in Told' : FailedAdd(b, n)'
      BY DEF ListShown
    <2>1. rows[n] # None => n \in Stored'
      BY <1>4 DEF ListShown
    <2>2. CASE n \in Stored' \ Stored \/ Added(n)
      BY <2>1, <2>2
    <2>3. CASE n \in Stored /\ ~Added(n)
      BY <1>2, <1>4, <2>1, <2>3 DEF ListShown
    <2> QED BY <2>1, <2>2, <2>3
  <1>5. \A a \in Lists' : (\E b \in Lists' : Later(a, b)') \/ ListAnswer(a)'
    BY <1>1, <1>3
  <1> QED BY <1>1, <1>4, <1>5 DEF ListKept

LEMMA ListTold ==
  ASSUME Wires(CallsMade, Data), CallsOfList, ListKept, UNCHANGED <<rows, unseen>>,
         NEW m, NEW e, Telling(m, e), Answered(m, e)
  PROVE  ListKept'
  <1>1. /\ m \in Asking \cup running /\ m.call \in CallsMade /\ promise[m.id] = m.call
        /\ running' = running \ {m} /\ promise' = promise /\ Told' = Told \cup {e} /\ e.id = m.id
        /\ \A a \in Told : Later(a, e)'
        /\ \A a, b \in Told : Later(a, b) => Later(a, b)'
    BY DEF Telling
  <1>2. Lists' = IF m.call = LoadPlcs THEN Lists \cup {e} ELSE Lists
    BY <1>1 DEF Lists
  <1>3. CASE m.call = LoadPlcs
    <2>1. LoadPlcs.method = "ListPlcs" /\ "ListPlcs" \notin ChangingPlcs
      BY DEF LoadPlcs, CallTo, ChangingPlcs
    <2>2. e.data = Listed /\ Stored' = Stored
      BY <1>3, <2>1 DEF Answered
    <2>3. ListAnswer(e)'
      BY <2>2, ListedFacts DEF ListAnswer
    <2>4. \A a \in Lists' : a = e \/ Later(a, e)'
      BY <1>1, <1>2, <1>3 DEF Lists
    <2>5. e \in Lists'
      BY <1>2, <1>3
    <2> QED BY <2>3, <2>4, <2>5 DEF ListKept
  <1>4. CASE m.call # LoadPlcs /\ (ListToCome \/ (m.call.method \in ChangingPlcs /\ e.ok))
    <2>1. ListToCome'
      BY <1>4, StillToCome
    <2> QED BY <2>1 DEF ListKept
  <1>5. CASE m.call # LoadPlcs /\ ~ListToCome /\ ~(m.call.method \in ChangingPlcs /\ e.ok)
    <2>1. m.call.method \in Ops
      BY <1>1, <1>5, CallsInList
    <2>2. CASE m.call.method = "AddPlc"
      <3>1. /\ Stored \subseteq Stored' /\ Stored' \subseteq Stored \cup {m.call.of} /\ ~e.ok
        BY <1>5, <2>2 DEF Answered, ChangingPlcs
      <3>2. m.call = AddOf(m.call.of)
        BY <1>1, <2>2, CallForms, CallIs DEF Ops
      <3>3. ASSUME NEW n \in PlcNames, n \in Stored' \ Stored \/ Added(n)
            PROVE  Added(n)' \/ (FailedAdd(e, n)' /\ e \in Told')
        <4>1. CASE n = m.call.of
          BY <1>1, <3>1, <3>2, <4>1 DEF FailedAdd
        <4>2. CASE n # m.call.of
          <5>1. PICK x \in running : x.call = AddOf(n)
            BY <3>1, <3>3, <4>2 DEF Added
          <5>2. AddOf(n).of = n
            BY DEF AddOf, CallTo
          <5> QED BY <1>1, <4>2, <5>1, <5>2 DEF Added
        <4> QED BY <4>1, <4>2
      <3> QED BY <1>1, <1>2, <1>5, <3>1, <3>3, ListSame
    <2>3. CASE m.call.method # "AddPlc"
      <3>1. Stored' = Stored
        BY <1>5, <2>1, <2>3 DEF Answered, ChangingPlcs
      <3>2. ASSUME NEW n \in PlcNames, Added(n)
            PROVE  Added(n)'
        <4>1. AddOf(n).method = "AddPlc"
          BY DEF AddOf, CallTo
        <4> QED BY <1>1, <2>3, <3>2, <4>1 DEF Added
      <3> QED BY <1>1, <1>2, <1>5, <3>1, <3>2, ListSame
    <2> QED BY <2>2, <2>3
  <1> QED BY <1>3, <1>4, <1>5

LEMMA ListAwaited ==
  ASSUME Wires(CallsMade, Data), CallsOfList, ListKept, UNCHANGED <<rows, unseen>>,
         NEW m, Waiting(m), Awaited(m)
  PROVE  ListKept'
  <1>1. /\ m \in Asking \cup running /\ m.call \in CallsMade /\ m.call.method \in Ops
        /\ running' = running \cup {m} /\ promise' = promise /\ Told' = Told
        /\ \A a, b \in Told : Later(a, b) => Later(a, b)'
    BY DEF Waiting, Awaited
  <1>2. Lists' = Lists /\ m.call # LoadPlcs
    BY <1>1, CallsInList DEF Lists
  <1>3. CASE ListToCome \/ m.call.method = "UpdatePlc"
    <2>1. ListToCome'
      BY <1>2, <1>3, StillToCome
    <2> QED BY <2>1 DEF ListKept
  <1>4. CASE ~ListToCome /\ m.call.method # "UpdatePlc"
    <2>1. \A n \in PlcNames : Added(n) => Added(n)'
      BY <1>1 DEF Added
    <2>2. CASE m.call.method = "AddPlc"
      <3>1. Stored' = Stored \cup {m.call.of}
        BY <2>2 DEF Awaited
      <3>2. m.call = AddOf(m.call.of)
        BY <1>1, <2>2, CallForms, CallIs
      <3>3. \A n \in Stored' \ Stored : Added(n)'
        BY <1>1, <3>1, <3>2 DEF Added
      <3> QED BY <1>1, <1>2, <1>4, <2>1, <3>1, <3>3, ListSame
    <2>3. CASE m.call.method # "AddPlc"
      <3>1. Stored' = Stored
        BY <1>4, <2>3 DEF Awaited
      <3> QED BY <1>1, <1>2, <1>4, <2>1, <3>1, ListSame
    <2> QED BY <2>2, <2>3
  <1> QED BY <1>3, <1>4

(* An operation that does not toggle n leaves n connected, as far as the hub is concerned. *)
LEMMA ConnectsTold ==
  ASSUME Wires(CallsMade, Data), OneOperation, Runs, NEW m, NEW e, Telling(m, e), Answered(m, e),
         m.call.method \notin ChangingPlcs \/ ~e.ok,
         NEW n \in PlcNames, Connects(n),
         m.call \notin Toggles(n) \/ (m.call = DisconnectOf(n) /\ ~e.ok)
  PROVE  Connects(n)'
  <1>1. /\ m \in Asking \cup running /\ m.call \in CallsMade /\ promise[m.id] = m.call
        /\ running' = running \ {m}
    BY DEF Telling
  <1>2. ~Added(n)'
    BY <1>1 DEF Connects, Added
  <1>3. hub' = hub \/ hub'.session[n] = hub.session[n]
    <2>1. CASE m.call.method \notin Ops
      BY <2>1 DEF Answered
    <2>2. CASE n \notin PlcsOf(m.call)
      BY <2>2 DEF Answered, Frame
    <2>3. CASE m.call.method \in {"RemovePlc", "UpdatePlc"}
      BY <2>3 DEF Answered, ChangingPlcs
    <2>4. CASE m.call.method = "AddPlc" /\ n \in PlcsOf(m.call)
      <3>1. m.call = AddOf(n)
        BY <1>1, <2>4, CallIs DEF Ops
      <3>2. m \notin running /\ ~e.ok
        BY <2>4, <3>1 DEF Connects, Added, ChangingPlcs
      <3> QED BY <2>4, <3>2 DEF Answered
    <2>5. CASE m.call.method \in {"ConnectPlc", "DisconnectPlc"} /\ n \in PlcsOf(m.call)
      <3>1. m.call \in Toggles(n)
        BY <1>1, <2>5, CallIs DEF Ops
      <3>2. m.call.method = "DisconnectPlc" /\ ~e.ok
        <4>1. DisconnectOf(n).method = "DisconnectPlc"
          BY DEF DisconnectOf, CallTo
        <4> QED BY <3>1, <4>1
      <3> QED BY <3>2 DEF Answered
    <2> QED BY <2>1, <2>2, <2>3, <2>4, <2>5 DEF Ops
  <1> QED BY <1>2, <1>3 DEF Connects

LEMMA ConnectsAwaited ==
  ASSUME NEW m, Waiting(m), Awaited(m), m.call.method # "UpdatePlc",
         NEW n \in Stored, Connects(n), m.call # ConnectOf(n)
  PROVE  Connects(n)'
  <1>1. /\ m.call \in CallsMade /\ m.call.method \in Ops /\ running' = running \cup {m}
        /\ n \in PlcNames
    BY DEF Waiting, Awaited, Stored
  <1>2. m.call # AddOf(n)
    <2>1. AddOf(n).method = "AddPlc" /\ AddOf(n).of = n
      BY DEF AddOf, CallTo
    <2> QED BY <2>1 DEF Awaited
  <1>3. hub'.session[n] = hub.session[n]
    <2>1. CASE n \notin PlcsOf(m.call)
      BY <1>1, <2>1 DEF Awaited, Frame
    <2>2. CASE n \in PlcsOf(m.call)
      <3>1. n = m.call.of
        BY <1>1, <2>2, CallIs
      <3>2. m.call.method \in {"RemovePlc", "DisconnectPlc"}
        BY <1>1, <1>2, <3>1, CallIs DEF Ops
      <3> QED BY <3>2 DEF Awaited
    <2> QED BY <2>1, <2>2
  <1> QED BY <1>1, <1>2, <1>3 DEF Connects, Added

LEMMA FlagsTold ==
  ASSUME Wires(CallsMade, Data), CallsOfList, OneOperation, Runs, HubKept, HeldKept, FlagsKept,
         UNCHANGED <<rows, held, excused>>,
         NEW m, NEW e, Telling(m, e), Answered(m, e)
  PROVE  FlagsKept'
  <1>1. /\ m \in Asking \cup running /\ m.call \in CallsMade /\ promise[m.id] = m.call /\ m.id \in Ids
        /\ Asking' = Asking \ {m} /\ running' = running \ {m} /\ promise' = promise
        /\ Told' = Told \cup {e} /\ e.id = m.id
        /\ \A a \in Told : Later(a, e)'
        /\ \A a, b \in Told : Later(a, b) => Later(a, b)'
    BY DEF Telling
  <1>2. Lists' = IF m.call = LoadPlcs THEN Lists \cup {e} ELSE Lists
    BY <1>1 DEF Lists
  <1>3. CASE m.call = LoadPlcs
    <2>1. /\ LoadPlcs.method = "ListPlcs" /\ "ListPlcs" \notin Ops
          /\ \A n : AddOf(n) # LoadPlcs
      BY DEF LoadPlcs, AddOf, CallTo, Ops
    <2>2. e.data = Listed /\ hub' = hub
      BY <1>3, <2>1 DEF Answered
    <2>3. ASSUME NEW n \in PlcNames \ excused
          PROVE  OnAnswer(e, n)'
      <3>1. SUFFICES ASSUME Listed[n] = "on" PROVE Connects(n)'
        BY <2>2 DEF OnAnswer
      <3>2. hub.session[n] = "scanned"
        BY <3>1, ListedFacts
      <3>3. ~Added(n)
        BY <3>2 DEF Added, HubKept
      <3>4. hub'.session[n] # None
        BY <2>2, <3>2, PlcsAssumption
      <3> QED BY <1>1, <3>3, <3>4 DEF Connects, Added
    <2>4. \A a \in Lists' : a = e \/ Later(a, e)'
      BY <1>1, <1>2, <1>3 DEF Lists
    <2>5. e \in Lists'
      BY <1>2, <1>3
    <2> QED BY <2>3, <2>4, <2>5 DEF FlagsKept
  <1>4. CASE m.call # LoadPlcs /\ (ListToCome \/ (m.call.method \in ChangingPlcs /\ e.ok))
    <2>1. ListToCome'
      BY <1>4, StillToCome
    <2> QED BY <2>1 DEF FlagsKept
  <1>5. CASE m.call # LoadPlcs /\ ~ListToCome /\ ~(m.call.method \in ChangingPlcs /\ e.ok)
    <2>1. /\ Lists' = Lists /\ Lists \subseteq Told
          /\ \A n \in PlcNames \ excused :
               /\ \A a \in Lists : (\E b \in Lists : Later(a, b)) \/ OnAnswer(a, n)
               /\ Lists = {} => OnShown(n)
      BY <1>2, <1>5 DEF FlagsKept, Lists
    <2>2. ASSUME NEW n \in PlcNames \ excused, Connects(n), m.call \notin Toggles(n)
          PROVE  Connects(n)'
      BY <1>5, <2>2, ConnectsTold
    <2>3. ASSUME NEW n \in PlcNames \ excused, NEW a \in Lists, OnAnswer(a, n)
          PROVE  OnAnswer(a, n)'
      <3>1. SUFFICES ASSUME a.data[n] = "on"
                     PROVE  \/ Connects(n)'
                            \/ \E x \in Asking' \cup running' : x.call \in Toggles(n)
                            \/ \E b \in Told' : Later(a, b)' /\ promise'[b.id] \in Toggles(n)
        BY DEF OnAnswer
      <3>2. CASE m.call \in Toggles(n)
        BY <1>1, <2>1, <3>2
      <3>3. CASE m.call \notin Toggles(n) /\ Connects(n)
        BY <2>2, <3>3
      <3>4. CASE \E x \in Asking \cup running : x.call \in Toggles(n) /\ x # m
        BY <1>1, <3>4
      <3>5. CASE \E b \in Told : Later(a, b) /\ promise[b.id] \in Toggles(n)
        BY <1>1, <2>1, <3>5
      <3> QED BY <2>3, <3>1, <3>2, <3>3, <3>4, <3>5 DEF OnAnswer
    <2>4. ASSUME NEW n \in PlcNames \ excused, OnShown(n)
          PROVE  OnShown(n)'
      <3>1. SUFFICES ASSUME rows[n] = "on"
                     PROVE  \/ Connects(n)'
                            \/ \E i \in Open' \ held : promise'[i] \in Toggles(n)
                            \/ \E b \in Told' : b.ok /\ promise'[b.id] = DisconnectOf(n)
        BY DEF OnShown
      <3>2. Open' = Open /\ m.id \in Open
        BY <1>1, Opened DEF Open
      <3>3. CASE \E i \in Open \ held : promise[i] \in Toggles(n)
        BY <1>1, <3>2, <3>3
      <3>4. CASE \E b \in Told : b.ok /\ promise[b.id] = DisconnectOf(n)
        BY <1>1, <3>4
      <3>5. CASE Connects(n) /\ m.call \notin Toggles(n)
        BY <2>2, <3>5
      <3>6. CASE m.call = ConnectOf(n)
        <4>1. m.id \notin held
          BY <1>1, <3>1, <3>6 DEF HeldKept
        <4> QED BY <1>1, <3>2, <3>6, <4>1 DEF Toggles
      <3>7. CASE m.call = DisconnectOf(n) /\ e.ok
        BY <1>1, <3>7
      <3>8. CASE Connects(n) /\ m.call = DisconnectOf(n) /\ ~e.ok
        BY <3>8, ConnectsTold
      <3> QED BY <2>4, <3>1, <3>3, <3>4, <3>5, <3>6, <3>7, <3>8 DEF OnShown, Toggles
    <2>5. \A n \in PlcNames \ excused :
            /\ \A a \in Lists' : (\E b \in Lists' : Later(a, b)') \/ OnAnswer(a, n)'
            /\ Lists' = {} => OnShown(n)'
      BY <1>1, <2>1, <2>3, <2>4
    <2> QED BY <2>5 DEF FlagsKept
  <1> QED BY <1>3, <1>4, <1>5

LEMMA FlagsAwaited ==
  ASSUME Wires(CallsMade, Data), CallsOfList, HeldKept, ListKept, FlagsKept,
         UNCHANGED <<rows, held, excused>>,
         NEW m, Waiting(m), Awaited(m)
  PROVE  FlagsKept'
  <1>1. /\ m \in Asking \cup running /\ m.call \in CallsMade /\ promise[m.id] = m.call /\ m.id \in Ids
        /\ Asking' = Asking \ {m} /\ running' = running \cup {m} /\ promise' = promise
        /\ Told' = Told /\ m.call.method \in Ops
        /\ \A a, b \in Told : Later(a, b) => Later(a, b)'
    BY DEF Waiting, Awaited
  <1>2. Lists' = Lists /\ m.call # LoadPlcs /\ Lists \subseteq Told
    BY <1>1, CallsInList DEF Lists
  <1>3. CASE ListToCome \/ m.call.method = "UpdatePlc"
    <2>1. ListToCome'
      BY <1>2, <1>3, StillToCome
    <2> QED BY <2>1 DEF FlagsKept
  <1>4. CASE ~ListToCome /\ m.call.method # "UpdatePlc"
    <2>1. /\ \A n \in PlcNames \ excused :
               /\ \A a \in Lists : (\E b \in Lists : Later(a, b)) \/ OnAnswer(a, n)
               /\ Lists = {} => OnShown(n)
          /\ \A a \in Lists : (\E b \in Lists : Later(a, b)) \/ ListAnswer(a)
          /\ Lists = {} => ListShown
      BY <1>4 DEF FlagsKept, ListKept
    <2>2. ASSUME NEW n \in PlcNames \ excused, NEW a \in Lists, OnAnswer(a, n), ListAnswer(a)
          PROVE  OnAnswer(a, n)'
      <3>1. SUFFICES ASSUME a.data[n] = "on"
                     PROVE  \/ Connects(n)'
                            \/ \E x \in Asking' \cup running' : x.call \in Toggles(n)
                            \/ \E b \in Told' : Later(a, b)' /\ promise'[b.id] \in Toggles(n)
        BY DEF OnAnswer
      <3>2. CASE \E x \in Asking \cup running : x.call \in Toggles(n)
        BY <1>1, <3>2
      <3>3. CASE \E b \in Told : Later(a, b) /\ promise[b.id] \in Toggles(n)
        BY <1>1, <1>2, <3>3
      <3>4. CASE m.call = ConnectOf(n)
        BY <1>1, <3>4 DEF Toggles
      <3>5. CASE Connects(n) /\ m.call # ConnectOf(n)
        <4>1. n \in Stored
          BY <2>2, <3>1, PlcsAssumption DEF ListAnswer
        <4> QED BY <1>4, <3>5, <4>1, ConnectsAwaited
      <3> QED BY <2>2, <3>1, <3>2, <3>3, <3>4, <3>5 DEF OnAnswer
    <2>3. ASSUME NEW n \in PlcNames \ excused, OnShown(n), ListShown
          PROVE  OnShown(n)'
      <3>1. SUFFICES ASSUME rows[n] = "on"
                     PROVE  \/ Connects(n)'
                            \/ \E i \in Open' \ held : promise'[i] \in Toggles(n)
                            \/ \E b \in Told' : b.ok /\ promise'[b.id] = DisconnectOf(n)
        BY DEF OnShown
      <3>2. Open' = Open /\ m.id \in Open
        BY <1>1, Opened DEF Open
      <3>3. CASE \E i \in Open \ held : promise[i] \in Toggles(n)
        BY <1>1, <3>2, <3>3
      <3>4. CASE \E b \in Told : b.ok /\ promise[b.id] = DisconnectOf(n)
        BY <1>1, <3>4
      <3>5. CASE m.call = ConnectOf(n)
        <4>1. m.id \notin held
          BY <1>1, <3>1, <3>5 DEF HeldKept
        <4> QED BY <1>1, <3>2, <3>5, <4>1 DEF Toggles
      <3>6. CASE Connects(n) /\ m.call # ConnectOf(n)
        <4>1. n \in Stored
          BY <2>3, <3>1, PlcsAssumption DEF ListShown
        <4> QED BY <1>4, <3>6, <4>1, ConnectsAwaited
      <3> QED BY <2>3, <3>1, <3>3, <3>4, <3>5, <3>6 DEF OnShown
    <2>4. \A n \in PlcNames \ excused :
            /\ \A a \in Lists' : (\E b \in Lists' : Later(a, b)') \/ OnAnswer(a, n)'
            /\ Lists' = {} => OnShown(n)'
      BY <1>1, <1>2, <2>1, <2>2, <2>3
    <2> QED BY <2>4 DEF FlagsKept
  <1> QED BY <1>3, <1>4

-----------------------------------------------------------------------------
(* A step of the host, while the page of one PLC is shown. *)

LEMMA CallsInDetail ==
  ASSUME Wires(CallsMade, Data), CallsOfDetail, Here \in PlcNames
  PROVE  /\ \A i \in Open :
              LET c == promise[i]
              IN /\ c.method \notin ChangingPlcs
                 /\ c.method \in Ops => c \in Toggles(Here)
                 /\ c.method \in {"ConnectPlc", "DisconnectPlc"} => c \in Toggles(Here)
                 /\ c.method = "ListPlcs" => c = LoadPlc(Here)
                 /\ c.method = "ListDbGroups" => c = LoadGroups(Here)
                 /\ c.method \in ChangingGroups => PlcOf(c) = Here
         /\ LoadPlc(Here).method = "ListPlcs" /\ LoadGroups(Here).method = "ListDbGroups"
         /\ \A c \in Toggles(Here) : c.method \in {"ConnectPlc", "DisconnectPlc"}
         /\ ConnectOf(Here).method = "ConnectPlc" /\ DisconnectOf(Here).method = "DisconnectPlc"
  BY DEF CallsOfDetail, LoadPlc, LoadGroups, CallTo, Ops, ChangingPlcs, ChangingGroups, Toggles,
         ConnectOf, DisconnectOf

LEMMA DetailTold ==
  ASSUME Wires(CallsMade, Data), Fits, DetailPart, DetailTypeOK, PlcTypeOK, Here \in PlcNames,
         UNCHANGED <<page, loading, detailVars, excused>>,
         NEW m, NEW e, Telling(m, e), Answered(m, e)
  PROVE  DetailPart'
  <1>1. /\ m \in Asking \cup running /\ m.call \in CallsMade /\ promise[m.id] = m.call
        /\ Asking' = Asking \ {m} /\ running' = running \ {m} /\ promise' = promise
        /\ Told' = Told \cup {e} /\ e.id = m.id
        /\ \A a \in Told : Later(a, e)'
        /\ \A a, b \in Told : Later(a, b) => Later(a, b)'
    BY DEF Telling
  <1>2. /\ UNCHANGED <<page, loading, plc, groups, activeGroup, excused>>
        /\ Here' = Here /\ Open' = Open /\ m.id \in Open
    BY <1>1, Opened DEF detailVars, Here, Open
  <1>3. /\ m.call.method \notin ChangingPlcs /\ (m.call.method \in Ops => m.call \in Toggles(Here))
        /\ m.call.method = "ListPlcs" => m.call = LoadPlc(Here)
        /\ m.call.method = "ListDbGroups" => m.call = LoadGroups(Here)
        /\ LoadPlc(Here).method = "ListPlcs" /\ LoadGroups(Here).method = "ListDbGroups"
        /\ m.call \in Toggles(Here) => m.call.method \in {"ConnectPlc", "DisconnectPlc"}
        /\ ConnectOf(Here).method = "ConnectPlc" /\ DisconnectOf(Here).method = "DisconnectPlc"
    BY <1>1, <1>2, CallsInDetail DEF DetailPart
  <1>4. /\ Stored' = Stored
        /\ m.call.method = "ListPlcs" => e.data = Listed
        /\ m.call.method = "ListDbGroups" => e.data = GroupsOf(Here)
        /\ m.call.method \notin Ops => hub' = hub
        /\ m.call.method = "DisconnectPlc" /\ ~e.ok => hub' = hub
        /\ m.call.method \notin ChangingGroups \/ ~e.ok => owner' = owner
        /\ \A g \in Groups : \/ owner'[g] = owner[g] \/ owner[g] = None
                             \/ m.call.method = "DeleteDbGroup" /\ g = m.call.of /\ e.ok
    <2>1. m.call.method = "ListDbGroups" => m.call.of = Here
      BY <1>3 DEF LoadGroups, CallTo
    <2>2. m.call.method \notin {"RemovePlc", "UpdatePlc"}
      BY <1>3 DEF ChangingPlcs
    <2>3. m.call.method \notin ChangingGroups \/ ~e.ok => owner' = owner
      BY <2>2 DEF Answered
    <2> QED BY <1>3, <2>1, <2>3 DEF Answered
  <1>5. CallsOfDetail'
    BY <1>1, <1>2 DEF DetailPart, CallsOfDetail
  <1>6. PlcKept'
    <2>1. promise[e.id] = LoadPlc(Here) /\ e.data[Here] # None => Here \in Stored
      BY <1>1, <1>3, <1>4, ListedFacts
    <2> QED BY <1>1, <1>2, <1>4, <2>1 DEF DetailPart, PlcKept, LoadOpen, Toggling
  <1>7. FlagKept'
    <2> SUFFICES ASSUME Here \notin excused
                 PROVE  /\ \A a \in Told' :
                             promise[a.id] = LoadPlc(Here) /\ a.data[Here] = "on" => hub'.session[Here] # None
                        /\ \A i \in Open : promise[i] = ConnectOf(Here) => plc = "off"
                        /\ plc = "on" => \/ hub'.session[Here] # None
                                         \/ \E b \in Told' : b.ok /\ promise[b.id] = DisconnectOf(Here)
      BY <1>1, <1>2 DEF FlagKept
    <2>1. /\ \A a \in Told :
               promise[a.id] = LoadPlc(Here) /\ a.data[Here] = "on" => hub.session[Here] # None
          /\ \A i \in Open : promise[i] = ConnectOf(Here) => plc = "off"
          /\ plc = "on" => \/ hub.session[Here] # None
                           \/ \E b \in Told : b.ok /\ promise[b.id] = DisconnectOf(Here)
      BY DEF DetailPart, FlagKept
    <2>2. ASSUME NEW a \in Told, promise[a.id] = LoadPlc(Here)
          PROVE  hub' = hub
      <3>1. LoadOpen
        BY <2>2, Opened DEF LoadOpen
      <3>2. ~Toggling
        BY <3>1 DEF DetailPart, PlcKept
      <3>3. m.call.method \notin Ops
        BY <1>1, <1>2, <1>3, <3>2 DEF Toggling
      <3> QED BY <1>4, <3>3
    <2>3. promise[e.id] = LoadPlc(Here) /\ e.data[Here] = "on" => hub'.session[Here] # None
      <3>1. promise[e.id] = LoadPlc(Here) => e.data = Listed /\ hub' = hub
        BY <1>1, <1>3, <1>4 DEF Ops
      <3> QED BY <3>1, ListedFacts, PlcsAssumption
    <2>4. plc = "on" => \/ hub'.session[Here] # None
                        \/ \E b \in Told' : b.ok /\ promise[b.id] = DisconnectOf(Here)
      <3>1. CASE m.call.method \notin Ops
        BY <1>1, <1>4, <2>1, <3>1
      <3>2. CASE m.call = ConnectOf(Here)
        BY <1>1, <1>2, <2>1, <3>2
      <3>3. CASE m.call = DisconnectOf(Here) /\ e.ok
        BY <1>1, <3>3
      <3>4. CASE m.call = DisconnectOf(Here) /\ ~e.ok
        BY <1>1, <1>3, <1>4, <2>1, <3>4
      <3> QED BY <1>3, <3>1, <3>2, <3>3, <3>4 DEF Toggles
    <2> QED BY <1>1, <2>1, <2>2, <2>3, <2>4
  <1>8. GroupsKept'
    <2>1. GroupLists' = IF m.call.method = "ListDbGroups" THEN GroupLists \cup {e} ELSE GroupLists
      BY <1>1 DEF GroupLists
    <2>2. CASE m.call.method = "ListDbGroups"
      <3>1. owner' = owner
        BY <1>4, <2>2 DEF ChangingGroups
      <3>2. e.data = GroupsOf(Here)'
        BY <1>2, <1>4, <2>2, <3>1 DEF GroupsOf
      <3>3. \A a \in GroupLists' : a = e \/ Later(a, e)'
        BY <1>1, <2>1, <2>2 DEF GroupLists
      <3>4. e \in GroupLists'
        BY <2>1, <2>2
      <3> QED BY <3>2, <3>3, <3>4 DEF GroupsKept
    <2>3. CASE /\ m.call.method # "ListDbGroups"
               /\ GroupsToCome \/ (m.call.method \in ChangingGroups /\ e.ok)
      <3>1. GroupsToCome'
        BY <1>1, <2>3 DEF GroupsToCome
      <3> QED BY <3>1 DEF GroupsKept
    <2>4. CASE /\ m.call.method # "ListDbGroups" /\ ~GroupsToCome
               /\ ~(m.call.method \in ChangingGroups /\ e.ok)
      <3>1. owner' = owner
        BY <1>4, <2>4
      <3>2. GroupLists' = GroupLists /\ GroupLists \subseteq Told /\ GroupsOf(Here)' = GroupsOf(Here)
        BY <1>2, <2>1, <2>4, <3>1 DEF GroupLists, GroupsOf
      <3>3. /\ \A a \in GroupLists : (\E b \in GroupLists : Later(a, b)) \/ a.data = GroupsOf(Here)
            /\ GroupLists = {} => groups = GroupsOf(Here)
        BY <2>4 DEF DetailPart, GroupsKept
      <3>4. /\ \A a \in GroupLists' : (\E b \in GroupLists' : Later(a, b)') \/ a.data = GroupsOf(Here)'
            /\ GroupLists' = {} => groups' = GroupsOf(Here)'
        BY <1>1, <1>2, <3>2, <3>3
      <3> QED BY <3>4 DEF GroupsKept
    <2> QED BY <2>2, <2>3, <2>4
  <1>9. ActiveKept'
    <2>1. ASSUME NEW g \in Groups, owner[g] = Here
          PROVE  owner'[g] = Here' \/ Deleted(e, g)'
      <3>1. owner[g] # None
        BY <2>1, PlcsAssumption
      <3> QED BY <1>1, <1>2, <1>4, <2>1, <3>1 DEF Deleted
    <2>2. \A b \in Told : \A g : Deleted(b, g) => Deleted(b, g)'
      BY <1>1 DEF Deleted
    <2>3. ActiveKept
      BY DEF DetailPart
    <2>4. activeGroup' = None => groups' = {} \/ \E i \in Open' : promise'[i] = LoadGroups(Here')
      BY <1>1, <1>2, <2>3 DEF ActiveKept
    <2>5. activeGroup' # None =>
            owner'[activeGroup'] = Here' \/ \E b \in Told' : Deleted(b, activeGroup)'
      BY <1>1, <1>2, <2>1, <2>2, <2>3 DEF ActiveKept, DetailTypeOK
    <2>6. ~loading' => \A g \in groups' : owner'[g] = Here' \/ \E b \in Told' : Deleted(b, g)'
      BY <1>1, <1>2, <2>1, <2>2, <2>3 DEF ActiveKept, DetailTypeOK
    <2>7. ASSUME NEW a \in GroupLists', NEW g \in a.data
          PROVE  owner'[g] = Here' \/ \E b \in Told' : Later(a, b)' /\ Deleted(b, g)'
      <3>1. CASE a = e
        <4>1. a.data = GroupsOf(Here) /\ owner' = owner
          BY <1>1, <1>4, <2>7, <3>1 DEF GroupLists, ChangingGroups
        <4> QED BY <1>2, <2>7, <4>1 DEF GroupsOf
      <3>2. CASE a # e
        <4>1. a \in GroupLists /\ a \in Told
          BY <1>1, <2>7, <3>2 DEF GroupLists
        <4>2. g \in Groups
          BY <2>7, <4>1 DEF Fits, GroupLists
        <4>3. owner[g] = Here \/ \E b \in Told : Later(a, b) /\ Deleted(b, g)
          BY <2>3, <2>7, <4>1 DEF ActiveKept
        <4>4. CASE owner[g] = Here
          BY <1>1, <2>1, <4>1, <4>2, <4>4
        <4>5. CASE \E b \in Told : Later(a, b) /\ Deleted(b, g)
          BY <1>1, <2>2, <4>1, <4>5
        <4> QED BY <4>3, <4>4, <4>5
      <3> QED BY <3>1, <3>2
    <2> QED BY <2>4, <2>5, <2>6, <2>7 DEF ActiveKept
  <1> QED BY <1>5, <1>6, <1>7, <1>8, <1>9 DEF DetailPart

LEMMA DetailAwaited ==
  ASSUME Wires(CallsMade, Data), DetailPart, Here \in PlcNames,
         UNCHANGED <<page, loading, detailVars, excused>>,
         NEW m, Waiting(m), Awaited(m)
  PROVE  DetailPart'
  <1>1. /\ m \in Asking \cup running /\ m.call \in CallsMade /\ promise[m.id] = m.call
        /\ Asking' = Asking \ {m} /\ running' = running \cup {m} /\ promise' = promise
        /\ Told' = Told /\ m.call.method \in Ops
        /\ \A a, b \in Told : Later(a, b) => Later(a, b)'
    BY DEF Waiting, Awaited
  <1>2. /\ UNCHANGED <<page, loading, plc, groups, activeGroup, excused>>
        /\ Here' = Here /\ Open' = Open /\ m.id \in Open
    BY <1>1, Opened DEF detailVars, Here, Open
  <1>3. /\ m.call \in Toggles(Here) /\ m.call.method \in {"ConnectPlc", "DisconnectPlc"}
        /\ DisconnectOf(Here).method = "DisconnectPlc"
    BY <1>1, <1>2, CallsInDetail DEF DetailPart
  <1>4. /\ Stored' = Stored /\ owner' = owner
        /\ m.call = DisconnectOf(Here) => hub'.session = hub.session
        /\ GroupsOf(Here)' = GroupsOf(Here)
    BY <1>2, <1>3 DEF Awaited, GroupsOf
  <1>5. CallsOfDetail'
    BY <1>1, <1>2 DEF DetailPart, CallsOfDetail
  <1>6. PlcKept'
    BY <1>1, <1>2, <1>4 DEF DetailPart, PlcKept, LoadOpen, Toggling
  <1>7. FlagKept'
    <2>1. Toggling
      BY <1>1, <1>2, <1>3 DEF Toggling
    <2>2. ~LoadOpen
      BY <2>1 DEF DetailPart, PlcKept
    <2>3. \A a \in Told : promise[a.id] # LoadPlc(Here)
      BY <2>2, Opened DEF LoadOpen
    <2>4. Here \notin excused /\ plc = "on" => m.call = DisconnectOf(Here)
      BY <1>1, <1>2, <1>3 DEF DetailPart, FlagKept, Toggles
    <2> QED BY <1>1, <1>2, <1>4, <2>3, <2>4 DEF DetailPart, FlagKept
  <1>8. GroupsKept'
    <2>1. GroupLists' = GroupLists /\ GroupLists \subseteq Told
      BY <1>1 DEF GroupLists
    <2>2. GroupsToCome => GroupsToCome'
      BY <1>1, <1>3 DEF GroupsToCome
    <2> QED BY <1>1, <1>2, <1>4, <2>1, <2>2 DEF DetailPart, GroupsKept
  <1>9. ActiveKept'
    <2>1. GroupLists' = GroupLists /\ GroupLists \subseteq Told
      BY <1>1 DEF GroupLists
    <2> QED BY <1>1, <1>2, <1>4, <2>1 DEF DetailPart, ActiveKept, Deleted
  <1> QED BY <1>5, <1>6, <1>7, <1>8, <1>9 DEF DetailPart

LEMMA HostKeeps ==
  ASSUME Kept, PlcTypeOK, DetailTypeOK, At("detail") => Here \in PlcNames, UNCHANGED Pages, NEW m,
         (Waiting(m) /\ Awaited(m)) \/ \E e : Telling(m, e) /\ Answered(m, e)
  PROVE  Kept'
  <1>1. UNCHANGED <<page, clean, orphans, loading, dialog, rows, held, unseen, listVars, detailVars,
                    plc, excused>>
    BY DEF Pages, shellVars, listVars, detailVars
  <1>2. Wires(CallsMade, Data) /\ PageKept
    BY DEF Kept
  <1>3. Wires(CallsMade, Data)' /\ promise' = promise
    BY DEF Waiting, Telling
  <1>4. Fits' /\ Runs'
    BY <1>2, HostFits DEF PageKept
  <1>5. DialogOfPage' /\ (~At("list")' => rows' = NoRows) /\ (~At("detail")' => plc' = None)
    BY <1>1, <1>2 DEF PageKept, DialogOfPage, At
  <1>6. clean' => orphans' = {} /\ OneOperation' /\ HubKept'
    <2>1. OneOperation => OneOperation'
      BY <1>1, <1>3 DEF OneOperation, About
    <2> QED BY <1>1, <1>2, <2>1, HubTold, HubAwaited DEF PageKept
  <1>7. clean' /\ At("list")' => ListPart'
    <2> SUFFICES ASSUME clean, At("list") PROVE ListPart'
      BY <1>1 DEF At
    <2>1. ListPart /\ OneOperation /\ HubKept /\ Runs
      BY <1>2 DEF PageKept
    <2>2. CallsOfList' /\ HeldKept'
      BY <1>1, <1>3, <2>1 DEF ListPart, CallsOfList, HeldKept, Open
    <2>3. ListKept'
      BY <1>1, <1>2, <2>1, ListTold, ListAwaited DEF ListPart
    <2>4. FlagsKept'
      BY <1>1, <1>2, <2>1, FlagsTold, FlagsAwaited DEF ListPart
    <2> QED BY <2>2, <2>3, <2>4 DEF ListPart
  <1>8. clean' /\ At("detail")' => DetailPart'
    <2> SUFFICES ASSUME clean, At("detail") PROVE DetailPart'
      BY <1>1 DEF At
    <2>1. DetailPart /\ Fits
      BY <1>2 DEF PageKept
    <2> QED BY <1>1, <1>2, <2>1, DetailTold, DetailAwaited
  <1> QED BY <1>3, <1>4, <1>5, <1>6, <1>7, <1>8 DEF Kept, PageKept

-----------------------------------------------------------------------------
(* Steps that make no call and give no answer: a dialog, a tab, the first scan of a PLC. *)
LEMMA StillKeeps ==
  ASSUME Kept, DetailTypeOK, At("detail") => Here \in PlcNames,
         UNCHANGED <<bridgeVars, plcs, owner, step, page, clean, orphans, loading, rows, held, unseen,
                     plc, groups>>,
         excused \subseteq excused', DialogOfPage',
         \A n \in PlcNames : /\ hub.session[n] # None => hub'.session[n] # None
                             /\ hub.engine[n] = "starting" =>
                                  hub'.session[n] = hub.session[n] /\ hub'.engine[n] = "starting",
         activeGroup' = activeGroup \/ (~loading /\ activeGroup' \in groups)
  PROVE  Kept'
  <1>1. /\ Wires(CallsMade, Data)' /\ Asking' = Asking /\ Told' = Told
        /\ \A a, b : Later(a, b) => Later(a, b)'
    BY Still DEF Kept
  <1>2. UNCHANGED <<running, promise>> /\ Open' = Open /\ Here' = Here /\ Stored' = Stored
    BY DEF bridgeVars, nativeVars, Open, Here, Stored
  <1>3. PageKept
    BY DEF Kept
  <1>4. Fits' /\ Runs'
    BY <1>1, <1>2, <1>3 DEF PageKept, Fits, Runs
  <1>5. (~At("list")' => rows' = NoRows) /\ (~At("detail")' => plc' = None)
    BY <1>3 DEF PageKept, At
  <1>6. clean' => orphans' = {} /\ OneOperation' /\ HubKept'
    <2>1. OneOperation => OneOperation'
      BY <1>2 DEF OneOperation, About
    <2>2. HubKept => HubKept'
      BY <1>1, <1>2 DEF HubKept
    <2> QED BY <1>3, <2>1, <2>2 DEF PageKept
  <1>7. ASSUME clean', At("list")' PROVE ListPart'
    <2>1. ListPart
      BY <1>3, <1>7 DEF PageKept, At
    <2>2. CallsOfList'
      BY <1>2, <2>1 DEF ListPart, CallsOfList
    <2>3. HeldKept'
      BY <1>2, <2>1 DEF ListPart, HeldKept
    <2>4. /\ ListToCome' <=> ListToCome
          /\ Lists' = Lists /\ Lists \subseteq Told
          /\ \A n : Added(n)' <=> Added(n)
      BY <1>1, <1>2 DEF ListToCome, Lists, Added
    <2>5. ListKept'
      <3>1. CASE ListToCome
        BY <2>4, <3>1 DEF ListKept
      <3>2. CASE ~ListToCome
        BY <1>1, <1>2, <2>1, <2>4, <3>2, ListSame DEF ListPart
      <3> QED BY <3>1, <3>2
    <2>6. \A n \in PlcNames : Connects(n) => Connects(n)'
      BY <2>4 DEF Connects
    <2>7. FlagsKept'
      <3>1. CASE ListToCome
        BY <2>4, <3>1 DEF FlagsKept
      <3>2. CASE ~ListToCome
        <4>1. \A n \in PlcNames \ excused :
                /\ \A a \in Lists : (\E b \in Lists : Later(a, b)) \/ OnAnswer(a, n)
                /\ Lists = {} => OnShown(n)
          BY <2>1, <3>2 DEF ListPart, FlagsKept
        <4>2. \A n \in PlcNames : \A a \in Lists : OnAnswer(a, n) => OnAnswer(a, n)'
          BY <1>1, <1>2, <2>6 DEF OnAnswer
        <4>3. \A n \in PlcNames : OnShown(n) => OnShown(n)'
          BY <1>1, <1>2, <2>6 DEF OnShown
        <4>4. \A n \in PlcNames \ excused' :
                /\ \A a \in Lists' : (\E b \in Lists' : Later(a, b)') \/ OnAnswer(a, n)'
                /\ Lists' = {} => OnShown(n)'
          BY <1>1, <2>4, <4>1, <4>2, <4>3
        <4> QED BY <4>4 DEF FlagsKept
      <3> QED BY <3>1, <3>2
    <2> QED BY <2>2, <2>3, <2>5, <2>7 DEF ListPart
  <1>8. ASSUME clean', At("detail")' PROVE DetailPart'
    <2>1. DetailPart
      BY <1>3, <1>8 DEF PageKept, At
    <2>2. CallsOfDetail'
      BY <1>2, <2>1 DEF DetailPart, CallsOfDetail
    <2>3. PlcKept'
      BY <1>1, <1>2, <2>1 DEF DetailPart, PlcKept, LoadOpen, Toggling
    <2>4. FlagKept'
      <3>1. ASSUME hub.session[Here] # None, Here \in PlcNames
            PROVE  hub'.session[Here] # None
        BY <3>1
      <3>2. Here \in PlcNames
        BY <1>8 DEF At
      <3> QED BY <1>1, <1>2, <2>1, <3>1, <3>2 DEF DetailPart, FlagKept
    <2>5. GroupsKept'
      <3>1. /\ GroupsToCome => GroupsToCome'
            /\ GroupLists' = GroupLists /\ GroupLists \subseteq Told /\ GroupsOf(Here)' = GroupsOf(Here)
        BY <1>1, <1>2 DEF GroupsToCome, GroupLists, GroupsOf
      <3> QED BY <1>1, <2>1, <3>1 DEF DetailPart, GroupsKept
    <2>6. ActiveKept'
      <3>1. ActiveKept /\ GroupLists' = GroupLists /\ GroupLists \subseteq Told
        BY <1>1, <1>2, <2>1 DEF GroupLists, DetailPart
      <3>2. activeGroup' = None => activeGroup = None
        BY PlcsAssumption DEF DetailTypeOK
      <3>3. \A b \in Told : \A g : Deleted(b, g) <=> Deleted(b, g)'
        BY <1>2 DEF Deleted
      <3>4. activeGroup' # None => owner'[activeGroup'] = Here' \/ \E b \in Told' : Deleted(b, activeGroup)'
        BY <1>1, <1>2, <3>1, <3>2 DEF ActiveKept, Deleted
      <3> QED BY <1>1, <1>2, <3>1, <3>2, <3>3, <3>4 DEF ActiveKept
    <2> QED BY <2>2, <2>3, <2>4, <2>5, <2>6 DEF DetailPart
  <1> QED BY <1>1, <1>3, <1>4, <1>5, <1>6, <1>7, <1>8 DEF Kept, PageKept

-----------------------------------------------------------------------------
(* A click that makes a call. *)

Asks(i, c) ==
  /\ Wires(CallsMade, Data)'
  /\ i \in Ids /\ promise[i] = None /\ promise'[i] = c
  /\ \A j \in Ids \ {i} : promise'[j] = promise[j]
  /\ Asking' = Asking \cup {[id |-> i, call |-> c, web |-> TRUE]}
  /\ running' = running /\ Told' = Told
  /\ \A a, b : Later(a, b) => Later(a, b)'

LEMMA MakeAsks ==
  ASSUME Wires(CallsMade, Data), NEW c \in CallsMade, Make(<<c>>)
  PROVE  Asks(IdAt(1), c) /\ UNCHANGED <<page, orphans, clean>>
  <1> DEFINE rs == RequestsFor(<<c>>)
  <1>1. /\ CanCall(<<c>>) /\ Turn({}, rs) /\ UNCHANGED answerVars
        /\ UNCHANGED <<page, orphans, clean>>
    BY DEF Make
  <1>2. <<c>> \in Seq(CallsMade) /\ Len(<<c>>) <= 2 /\ DOMAIN <<c>> = {1} /\ <<c>>[1] = c
    OBVIOUS
  <1>3. platform = "webview"
    BY DEF Wires
  <1>4. /\ rs \in Seq(Posts(CallsMade)) /\ DOMAIN rs = {1}
        /\ rs[1].call = c /\ rs[1].id = IdAt(1) /\ IdAt(1) \in FreeIds
    <2>1. /\ rs \in Seq(Posts(CallsMade)) /\ DOMAIN rs = DOMAIN <<c>>
          /\ \A k \in DOMAIN <<c>> : /\ rs[k].call = <<c>>[k]
                                     /\ rs[k].id = IdAt(k) /\ IdAt(k) \in FreeIds
      BY <1>1, <1>2, <1>3, RequestsFacts
    <2> QED BY <1>2, <2>1
  <1>5. /\ Wires(CallsMade, Data)' /\ Posted({}, rs) /\ Told' = Told
        /\ \A a, b : Later(a, b) => Later(a, b)'
    BY <1>1, <1>2, Clicked, NoneIsNoCall
  <1> HIDE DEF rs
  <1>6. rs[1] = [id |-> IdAt(1), call |-> c, web |-> TRUE]
    <2>1. rs[1] \in Posts(CallsMade)
      BY <1>4, Elements
    <2> QED BY <1>4, <2>1 DEF Posts
  <1>7. Messages(rs) = {rs[1]} /\ IdsOf(rs) = {IdAt(1)}
    BY <1>4 DEF Messages, IdsOf
  <1>8. IdAt(1) \in Ids /\ promise[IdAt(1)] = None
    BY <1>4, FreeFacts
  <1>9. /\ promise'[IdAt(1)] = c /\ running' = running
        /\ Asking' = Asking \cup {[id |-> IdAt(1), call |-> c, web |-> TRUE]}
        /\ \A j \in Ids \ {IdAt(1)} : promise'[j] = promise[j]
    BY <1>4, <1>5, <1>6, <1>7 DEF Posted
  <1> QED BY <1>1, <1>5, <1>8, <1>9 DEF Asks

(* No two operations about one PLC, except where that has been noted. *)
LEMMA NotAskedTwice ==
  ASSUME promise' \in [Ids -> CallsMade \cup {None}],
         {n \in PlcNames : AskedTwice(n)} \subseteq excused'
  PROVE  OneOperation'
  <1> SUFFICES ASSUME NEW n \in PlcNames \ excused', NEW i \in Ids, NEW j \in Ids,
                      About(i, n)', About(j, n)', i # j
               PROVE  FALSE
    BY DEF OneOperation
  <1>1. ~AskedTwice(n)
    OBVIOUS
  <1>2. Ops \subseteq Operations
    BY DEF Ops, Operations, ChangingPlcs
  <1>3. /\ {promise'[i], promise'[j]} \cap {None} = {}
        /\ {promise'[i].method, promise'[j].method} \subseteq Operations
        /\ n \in PlcsOf(promise'[i]) \cap PlcsOf(promise'[j])
    BY <1>2 DEF About
  <1> QED BY <1>1, <1>3 DEF AskedTwice

LEMMA CallKeeps ==
  ASSUME Kept, At("detail") => Here \in PlcNames, NEW i, NEW c \in CallsMade, Asks(i, c),
         UNCHANGED <<page, orphans, clean, plcVars, rows, unseen, detailVars>>,
         excused' = excused \cup {n \in PlcNames : AskedTwice(n)},
         DialogOfPage', loading => loading',
         held' = held \/ /\ held' = held \cup {i}
                         /\ \E n \in PlcNames : /\ c \in Toggles(n) /\ rows[n] # None
                                                /\ c = ConnectOf(n) => rows[n] = "off",
         At("list") => c.method \in Ops,
         At("detail") =>
           /\ c \in {LoadGroups(Here)} \cup Toggles(Here)
                \/ (c.method \in ChangingGroups /\ PlcOf(c) = Here)
           /\ c \in Toggles(Here) => plc # None
           /\ c = ConnectOf(Here) => plc = "off"
  PROVE  Kept'
  <1> DEFINE r == [id |-> i, call |-> c, web |-> TRUE]
  <1>1. /\ Wires(CallsMade, Data)'
        /\ i \in Ids /\ promise[i] = None /\ promise'[i] = c
        /\ \A j \in Ids \ {i} : promise'[j] = promise[j]
        /\ Asking' = Asking \cup {r} /\ r.call = c
        /\ running' = running /\ Told' = Told
        /\ \A a, b : Later(a, b) => Later(a, b)'
    BY DEF Asks
  <1> HIDE DEF r
  <1>2. /\ Here' = Here /\ Stored' = Stored /\ UNCHANGED <<hub, step, owner, plc, groups, activeGroup>>
    BY DEF Here, Stored, plcVars, detailVars
  <1>3. Wires(CallsMade, Data) /\ PageKept
    BY DEF Kept
  <1>4. c # None /\ Open' = Open \cup {i} /\ i \notin Open
    BY <1>1, NoneIsNoCall DEF Open
  <1>5. /\ \A j \in Open : promise'[j] = promise[j] /\ j # i
        /\ \A a \in Told : promise'[a.id] = promise[a.id] /\ a.id # i /\ a.id \in Open
        /\ \A x \in running : promise'[x.id] = promise[x.id] /\ x.id # i
    BY <1>1, <1>3, <1>4, Opened
  <1>6. Fits' /\ Runs'
    BY <1>1, <1>2, <1>3, <1>5 DEF PageKept, Fits, Runs
  <1>7. (~At("list")' => rows' = NoRows) /\ (~At("detail")' => plc' = None)
    BY <1>2, <1>3 DEF PageKept, At
  <1>8. clean' => orphans' = {} /\ OneOperation' /\ HubKept'
    <2>1. OneOperation'
      <3>1. promise' \in [Ids -> CallsMade \cup {None}]
        BY <1>1 DEF Wires
      <3> QED BY <3>1, NotAskedTwice
    <2>2. HubKept => HubKept'
      BY <1>1, <1>2, <1>5 DEF HubKept
    <2> QED BY <1>3, <2>1, <2>2 DEF PageKept
  <1>9. ASSUME clean', At("list")' PROVE ListPart'
    <2>1. ListPart /\ c.method \in Ops
      BY <1>3, <1>9 DEF PageKept, At
    <2>2. CallsOfList'
      BY <1>1, <1>4, <1>5, <2>1 DEF ListPart, CallsOfList
    <2>3. HeldKept'
      <3>1. \A j \in held : /\ j \in Open /\ \E n \in PlcNames : promise[j] \in Toggles(n) /\ rows[n] # None
                            /\ \A n \in PlcNames \ excused : promise[j] = ConnectOf(n) => rows[n] = "off"
        BY <2>1 DEF ListPart, HeldKept
      <3>2. ASSUME NEW n \in PlcNames, c \in Toggles(n), rows[n] # None, c = ConnectOf(n) => rows[n] = "off"
            PROVE  \A k \in PlcNames : c = ConnectOf(k) => rows[k] = "off"
        BY <3>2 DEF Toggles, ConnectOf, DisconnectOf, CallTo
      <3> QED BY <1>1, <1>4, <1>5, <3>1, <3>2 DEF HeldKept
    <2>4. /\ ListToCome => ListToCome'
          /\ Lists' = Lists /\ Lists \subseteq Told
          /\ \A n : Added(n)' <=> Added(n)
      BY <1>1, <1>5 DEF ListToCome, Lists, Added
    <2>5. ListKept'
      <3>1. CASE ListToCome
        BY <2>4, <3>1 DEF ListKept
      <3>2. CASE ~ListToCome
        BY <1>1, <1>2, <1>5, <2>1, <2>4, <3>2, ListSame DEF ListPart
      <3> QED BY <3>1, <3>2
    <2>6. \A n : Connects(n) => Connects(n)'
      BY <1>2, <2>4 DEF Connects
    <2>7. FlagsKept'
      <3>1. CASE ListToCome
        BY <2>4, <3>1 DEF FlagsKept
      <3>2. CASE ~ListToCome
        <4>1. \A n \in PlcNames \ excused :
                /\ \A a \in Lists : (\E b \in Lists : Later(a, b)) \/ OnAnswer(a, n)
                /\ Lists = {} => OnShown(n)
          BY <2>1, <3>2 DEF ListPart, FlagsKept
        <4>2. \A n \in PlcNames : \A a \in Lists : OnAnswer(a, n) => OnAnswer(a, n)'
          BY <1>1, <1>5, <2>6 DEF OnAnswer
        <4>3. \A n \in PlcNames : OnShown(n) => OnShown(n)'
          BY <1>1, <1>4, <1>5, <2>6 DEF OnShown
        <4>4. \A n \in PlcNames \ excused' :
                /\ \A a \in Lists' : (\E b \in Lists' : Later(a, b)') \/ OnAnswer(a, n)'
                /\ Lists' = {} => OnShown(n)'
          BY <1>1, <2>4, <4>1, <4>2, <4>3
        <4> QED BY <4>4 DEF FlagsKept
      <3> QED BY <3>1, <3>2
    <2> QED BY <2>2, <2>3, <2>5, <2>7 DEF ListPart
  <1>10. ASSUME clean', At("detail")' PROVE DetailPart'
    <2>1. /\ DetailPart /\ Here \in PlcNames
          /\ c \in {LoadGroups(Here)} \cup Toggles(Here)
               \/ (c.method \in ChangingGroups /\ PlcOf(c) = Here)
          /\ c \in Toggles(Here) => plc # None
          /\ c = ConnectOf(Here) => plc = "off"
      BY <1>3, <1>10 DEF PageKept, At
    <2>2. CallsOfDetail'
      BY <1>1, <1>2, <1>4, <1>5, <2>1 DEF DetailPart, CallsOfDetail
    <2>3. c # LoadPlc(Here)
      BY <2>1 DEF LoadPlc, LoadGroups, Toggles, ConnectOf, DisconnectOf, CallTo, ChangingGroups
    <2>4. PlcKept'
      <3>1. (LoadOpen' <=> LoadOpen) /\ (Toggling' <=> Toggling \/ c \in Toggles(Here))
        BY <1>1, <1>2, <1>4, <1>5, <2>3 DEF LoadOpen, Toggling
      <3> QED BY <1>1, <1>2, <1>4, <1>5, <2>1, <2>3, <3>1 DEF DetailPart, PlcKept
    <2>5. FlagKept'
      BY <1>1, <1>2, <1>4, <1>5, <2>1 DEF DetailPart, FlagKept
    <2>6. GroupsKept'
      <3>1. /\ GroupsToCome => GroupsToCome'
            /\ GroupLists' = GroupLists /\ GroupLists \subseteq Told /\ GroupsOf(Here)' = GroupsOf(Here)
        BY <1>1, <1>2, <1>5 DEF GroupsToCome, GroupLists, GroupsOf
      <3> QED BY <1>1, <1>2, <2>1, <3>1 DEF DetailPart, GroupsKept
    <2>7. ActiveKept'
      <3>1. ActiveKept /\ GroupLists' = GroupLists /\ GroupLists \subseteq Told
        BY <1>1, <1>5, <2>1 DEF GroupLists, DetailPart
      <3>2. \A b \in Told : \A g : Deleted(b, g) <=> Deleted(b, g)'
        BY <1>5 DEF Deleted
      <3> QED BY <1>1, <1>2, <1>4, <1>5, <3>1, <3>2 DEF ActiveKept
    <2> QED BY <2>2, <2>4, <2>5, <2>6, <2>7 DEF DetailPart
  <1> QED BY <1>1, <1>3, <1>6, <1>7, <1>8, <1>9, <1>10 DEF Kept, PageKept

-----------------------------------------------------------------------------
(* Another page is mounted: only its own calls are open, or it is not clean. *)

LEMMA FreshKeeps ==
  ASSUME Fits, Runs, FreshPage, running' = running, step' = step, dialog' = Closed,
         \A a \in Told' : a \in Told /\ promise'[a.id] = promise[a.id],
         clean' => orphans' = {} /\ running = {} /\ Told' = {},
         clean' => \A i \in Open' : promise'[i].method \in {"ListPlcs", "ListDbGroups"},
         Wires(CallsMade, Data)',
         clean' /\ At("list")' => /\ \E x \in Asking' : x.call = LoadPlcs
                                  /\ \A i \in Open' : promise'[i] = LoadPlcs,
         clean' /\ At("detail")' =>
           /\ \E x \in Asking' : x.call = LoadGroups(Here)'
           /\ \E i \in Open' : promise'[i] = LoadPlc(Here)' /\ Open' \ {i} # {}
                                 /\ \A j \in Open' \ {i} : promise'[j] = LoadGroups(Here)'
  PROVE  PageKept'
  <1>1. /\ rows' = NoRows /\ held' = {} /\ unseen' = {} /\ plc' = None /\ groups' = {}
        /\ activeGroup' = None /\ excused' = {}
    BY DEF FreshPage
  <1>2. Fits' /\ Runs'
    BY DEF Fits, Runs
  <1>3. DialogOfPage'
    BY DEF DialogOfPage, Closed
  <1>4. clean' => orphans' = {} /\ OneOperation' /\ HubKept'
    <2>1. ASSUME clean', NEW i \in Ids, NEW n, About(i, n)'
          PROVE  FALSE
      <3>1. i \in Open' /\ promise'[i].method \in Ops
        BY <2>1 DEF About, Open
      <3> QED BY <2>1, <3>1 DEF Ops
    <2> QED BY <2>1 DEF OneOperation, HubKept
  <1>5. clean' /\ At("list")' => ListPart'
    BY <1>1 DEF ListPart, CallsOfList, HeldKept, ListKept, FlagsKept, ListToCome
  <1>6. ASSUME clean', At("detail")' PROVE DetailPart'
    <2>1. PICK i \in Open' : /\ promise'[i] = LoadPlc(Here)' /\ Open' \ {i} # {}
                             /\ \A j \in Open' \ {i} : promise'[j] = LoadGroups(Here)'
      BY <1>6
    <2>2. LoadPlc(Here)' # LoadGroups(Here)'
      BY DEF LoadPlc, LoadGroups, CallTo
    <2>3. CallsOfDetail'
      BY <2>1 DEF CallsOfDetail
    <2>4. \A c \in Toggles(Here)' : c # LoadPlc(Here)' /\ c # LoadGroups(Here)'
      BY DEF Toggles, ConnectOf, DisconnectOf, LoadPlc, LoadGroups, CallTo
    <2>5. PlcKept'
      BY <1>1, <1>6, <2>1, <2>2, <2>4 DEF PlcKept, LoadOpen, Toggling
    <2>6. FlagKept'
      BY <1>1, <1>6, <2>1, <2>4, PlcsAssumption DEF FlagKept, Toggles
    <2>7. GroupsKept'
      <3>1. LoadGroups(Here)'.method = "ListDbGroups"
        BY DEF LoadGroups, CallTo
      <3>2. GroupsToCome'
        BY <1>6, <3>1 DEF GroupsToCome
      <3> QED BY <3>2 DEF GroupsKept
    <2>8. ActiveKept'
      BY <1>1, <1>6 DEF ActiveKept, GroupLists
    <2> QED BY <2>3, <2>5, <2>6, <2>7, <2>8 DEF DetailPart
  <1> QED BY <1>1, <1>2, <1>3, <1>4, <1>5, <1>6 DEF PageKept

ShownTypeOK ==
  /\ page \in {Main, Page("list", None)} \cup {Page("detail", n) : n \in PlcNames}
  /\ loading \in BOOLEAN /\ clean \in BOOLEAN /\ orphans \subseteq Ids
  /\ dialog \in ({"add", "create"} \X {None}) \cup ({"remove", "edit"} \X PlcNames)
                \cup ({"rename", "delete"} \X Groups) \cup {Closed}
  /\ ListTypeOK /\ DetailTypeOK /\ excused \subseteq PlcNames

LEMMA PageFacts ==
  ASSUME ShownTypeOK
  PROVE  /\ At("detail") => Here \in PlcNames /\ page = Page("detail", Here)
         /\ At("list") => page = Page("list", None)
         /\ dialog[1] \in {"remove", "edit"} => dialog[2] \in PlcNames
         /\ dialog[1] \in {"rename", "delete"} => dialog[2] \in Groups
  BY DEF ShownTypeOK, At, Here, Main, Page, Closed

LEMMA GoingKeeps ==
  ASSUME Kept, ShownTypeOK,
         NEW to \in {Main, Page("list", None)} \cup {Page("detail", n) : n \in PlcNames}, GoTo(to)
  PROVE  Kept' /\ ShownTypeOK'
  <1> DEFINE calls == MountCalls(to)
             rs == RequestsFor(calls)
  <1>1. /\ CanCall(calls) /\ Navigate({}, to, rs) /\ FreshPage
        /\ UNCHANGED answerVars /\ UNCHANGED plcVars
    BY DEF GoTo
  <1>2. /\ Turn({}, rs) /\ page' = to /\ loading' = (rs # <<>>) /\ dialog' = Closed
        /\ orphans' = Open \ {} /\ clean' = (Open \subseteq {})
    BY <1>1 DEF Navigate
  <1>3. /\ to.view = "list" => calls = <<LoadPlcs>>
        /\ to.view = "detail" => to.plc \in PlcNames /\ calls = <<LoadPlc(to.plc), LoadGroups(to.plc)>>
        /\ to.view \notin {"list", "detail"} => calls = <<>>
    BY DEF MountCalls, DetailMount, Main, Page
  <1> HIDE DEF calls
  <1>4. calls \in Seq(CallsMade) /\ Len(calls) <= 2
    <2>1. ASSUME NEW c \in CallsMade, NEW d \in CallsMade
          PROVE  /\ <<c>> \in Seq(CallsMade) /\ Len(<<c>>) <= 2
                 /\ <<c, d>> \in Seq(CallsMade) /\ Len(<<c, d>>) <= 2
                 /\ <<>> \in Seq(CallsMade) /\ Len(<<>>) <= 2
      OBVIOUS
    <2>2. LoadPlcs \in CallsMade
      BY CallsOfPages
    <2>3. to.view = "detail" => LoadPlc(to.plc) \in CallsMade /\ LoadGroups(to.plc) \in CallsMade
      BY <1>3, CallsOfPages
    <2>4. calls = <<>> \/ \E c, d \in CallsMade : calls = <<c>> \/ calls = <<c, d>>
      BY <1>3, <2>2, <2>3
    <2> QED BY <2>1, <2>2, <2>4, Zenon
  <1>5. Wires(CallsMade, Data) /\ PageKept
    BY DEF Kept
  <1>6. /\ Wires(CallsMade, Data)' /\ Posted({}, rs) /\ Told' = Told
        /\ \A i \in Ids : promise[i] # None => promise'[i] = promise[i]
        /\ \A k \in DOMAIN calls : \E m \in Messages(rs) : m.call = calls[k]
    BY <1>1, <1>2, <1>4, <1>5, Clicked, NoneIsNoCall
  <1>7. /\ DOMAIN rs = DOMAIN calls
        /\ \A k \in DOMAIN calls : rs[k].call = calls[k] /\ rs[k].id = IdAt(k) /\ IdAt(k) \in FreeIds
    <2>1. platform = "webview"
      BY <1>5 DEF Wires
    <2> QED BY <1>1, <1>4, <2>1, RequestsFacts
  <1> HIDE DEF rs
  <1>8. /\ Asking' = Asking \cup Messages(rs) /\ running' = running
        /\ \A i \in Ids \ IdsOf(rs) : promise'[i] = promise[i]
        /\ \A k \in DOMAIN rs : promise'[rs[k].id] = rs[k].call
    BY <1>6 DEF Posted
  <1>9. \A a \in Told' : a \in Told /\ promise'[a.id] = promise[a.id]
    BY <1>5, <1>6, Opened
  <1>10. clean' => orphans' = {} /\ running = {} /\ Told' = {} /\ Open = {}
    BY <1>2, <1>5, <1>6, Opened
  <1>11. clean' => \A i \in Open' : \E k \in DOMAIN calls : i = IdAt(k) /\ promise'[i] = calls[k]
    <2> SUFFICES ASSUME clean', NEW i \in Open' PROVE \E k \in DOMAIN calls : i = IdAt(k) /\ promise'[i] = calls[k]
      OBVIOUS
    <2>1. i \in Ids /\ promise'[i] # None /\ promise[i] = None
      BY <1>10 DEF Open
    <2>2. i \in IdsOf(rs)
      BY <1>8, <2>1
    <2> QED BY <1>7, <1>8, <2>2 DEF IdsOf
  <1>12. \A k \in DOMAIN calls : IdAt(k) \in Open' /\ promise'[IdAt(k)] = calls[k]
    <2> SUFFICES ASSUME NEW k \in DOMAIN calls
                 PROVE  IdAt(k) \in Open' /\ promise'[IdAt(k)] = calls[k]
      OBVIOUS
    <2>1. promise'[IdAt(k)] = calls[k]
      BY <1>7, <1>8
    <2>2. calls[k] \in CallsMade /\ IdAt(k) \in Ids
      BY <1>4, <1>7, FreeFacts
    <2> QED BY <2>1, <2>2, NoneIsNoCall DEF Open
  <1>13. /\ LoadPlcs.method = "ListPlcs"
         /\ \A n : LoadPlc(n).method = "ListPlcs" /\ LoadGroups(n).method = "ListDbGroups"
         /\ \A n : LoadPlc(n) # LoadGroups(n)
    BY DEF LoadPlcs, LoadPlc, LoadGroups, CallTo
  <1>14. clean' => \A i \in Open' : promise'[i].method \in {"ListPlcs", "ListDbGroups"}
    <2>1. CASE to.view = "list"
      BY <1>3, <1>11, <1>13, <2>1
    <2>2. CASE to.view = "detail"
      BY <1>3, <1>11, <1>13, <2>2
    <2>3. CASE to.view \notin {"list", "detail"}
      BY <1>3, <1>11, <2>3
    <2> QED BY <2>1, <2>2, <2>3
  <1>15. clean' /\ At("list")' => /\ \E x \in Asking' : x.call = LoadPlcs
                                  /\ \A i \in Open' : promise'[i] = LoadPlcs
    <2> SUFFICES ASSUME clean', to.view = "list"
                 PROVE  /\ \E x \in Asking' : x.call = LoadPlcs
                        /\ \A i \in Open' : promise'[i] = LoadPlcs
      BY <1>2 DEF At
    <2>1. DOMAIN calls = {1} /\ calls[1] = LoadPlcs
      BY <1>3
    <2> QED BY <1>6, <1>8, <1>11, <2>1
  <1>16. clean' /\ At("detail")' =>
           /\ \E x \in Asking' : x.call = LoadGroups(Here)'
           /\ \E i \in Open' : promise'[i] = LoadPlc(Here)' /\ Open' \ {i} # {}
                                 /\ \A j \in Open' \ {i} : promise'[j] = LoadGroups(Here)'
    <2> SUFFICES ASSUME clean', to.view = "detail"
                 PROVE  /\ \E x \in Asking' : x.call = LoadGroups(to.plc)
                        /\ \E i \in Open' : promise'[i] = LoadPlc(to.plc) /\ Open' \ {i} # {}
                                 /\ \A j \in Open' \ {i} : promise'[j] = LoadGroups(to.plc)
      BY <1>2 DEF At, Here, LoadPlc, LoadGroups
    <2>1. DOMAIN calls = {1, 2} /\ calls[1] = LoadPlc(to.plc) /\ calls[2] = LoadGroups(to.plc)
      BY <1>3
    <2>2. \E x \in Asking' : x.call = LoadGroups(to.plc)
      BY <1>6, <1>8, <2>1
    <2>3. IdAt(1) \in Open' /\ promise'[IdAt(1)] = LoadPlc(to.plc)
      BY <1>12, <2>1
    <2>4. IdAt(2) \in Open' /\ promise'[IdAt(2)] = LoadGroups(to.plc)
      BY <1>12, <2>1
    <2>5. IdAt(2) # IdAt(1)
      BY <1>13, <2>3, <2>4
    <2>6. \A j \in Open' \ {IdAt(1)} : promise'[j] = LoadGroups(to.plc)
      BY <1>11, <2>1
    <2> QED BY <2>2, <2>3, <2>4, <2>5, <2>6
  <1>17. PageKept'
    <2>1. step' = step
      BY <1>1 DEF plcVars
    <2>2. Fits /\ Runs
      BY <1>5 DEF PageKept
    <2> QED BY <1>1, <1>2, <1>6, <1>8, <1>9, <1>10, <1>14, <1>15, <1>16, <2>1, <2>2, FreshKeeps
  <1>18. ShownTypeOK'
    <2>1. (rs # <<>>) \in BOOLEAN /\ (Open \subseteq {}) \in BOOLEAN /\ Open \subseteq Ids
      BY DEF Open
    <2>2. ListTypeOK' /\ DetailTypeOK' /\ excused' \subseteq PlcNames
      BY <1>1 DEF FreshPage, ListTypeOK, DetailTypeOK, NoRows
    <2> QED BY <1>2, <2>1, <2>2 DEF ShownTypeOK
  <1> QED BY <1>6, <1>17, <1>18 DEF Kept

-----------------------------------------------------------------------------
(* What the user does. *)

LEMMA ClickStill ==
  ASSUME Kept, ShownTypeOK, Click, UNCHANGED <<loading, plcVars, listVars, plc, groups>>,
         excused' = excused \cup {n \in PlcNames : AskedTwice(n)},
         \/ dialog' \in {dialog, Closed}
         \/ At("list") /\ dialog' \in ({"add"} \X {None}) \cup ({"remove", "edit"} \X PlcNames)
         \/ At("detail") /\ dialog' \in ({"create"} \X {None}) \cup ({"rename", "delete"} \X Groups),
         activeGroup' = activeGroup \/ (~loading /\ activeGroup' \in groups)
  PROVE  Kept' /\ ShownTypeOK'
  <1>1. UNCHANGED <<bridgeVars, page, orphans, clean, plcs, owner, step, hub, rows, held, unseen>>
    BY DEF Click, plcVars, listVars
  <1>2. DialogOfPage'
    <2>1. DialogOfPage
      BY DEF Kept, PageKept
    <2> QED BY <1>1, <2>1 DEF DialogOfPage, At, Closed
  <1>3. ShownTypeOK'
    BY <1>1 DEF ShownTypeOK, ListTypeOK, DetailTypeOK
  <1>4. Kept'
    <2>1. DetailTypeOK /\ (At("detail") => Here \in PlcNames)
      BY PageFacts DEF ShownTypeOK
    <2>2. \A n \in PlcNames : /\ hub.session[n] # None => hub'.session[n] # None
                              /\ hub.engine[n] = "starting" =>
                                   hub'.session[n] = hub.session[n] /\ hub'.engine[n] = "starting"
      BY <1>1
    <2> QED BY <1>1, <1>2, <2>1, <2>2, StillKeeps
  <1> QED BY <1>3, <1>4

LEMMA ClickAsks ==
  ASSUME Kept, ShownTypeOK, NEW c \in CallsMade, Make(<<c>>),
         UNCHANGED <<plcVars, rows, unseen, detailVars>>,
         excused' = excused \cup {n \in PlcNames : AskedTwice(n)},
         dialog' \in {dialog, Closed}, loading' \in {loading, TRUE},
         held' = held \/ /\ held' = held \cup {IdAt(1)}
                         /\ \E n \in PlcNames : /\ c \in Toggles(n) /\ rows[n] # None
                                                /\ c = ConnectOf(n) => rows[n] = "off",
         \/ At("list") /\ c.method \in Ops
         \/ /\ At("detail")
            /\ c \in {LoadGroups(Here)} \cup Toggles(Here)
                 \/ (c.method \in ChangingGroups /\ PlcOf(c) = Here)
            /\ c \in Toggles(Here) => plc # None
            /\ c = ConnectOf(Here) => plc = "off"
  PROVE  Kept' /\ ShownTypeOK'
  <1>1. Asks(IdAt(1), c) /\ UNCHANGED <<page, orphans, clean>>
    BY MakeAsks DEF Kept
  <1>2. DialogOfPage'
    <2>1. DialogOfPage
      BY DEF Kept, PageKept
    <2> QED BY <1>1, <2>1 DEF DialogOfPage, At, Closed
  <1>3. ShownTypeOK'
    <2>1. IdAt(1) \in Ids
      BY <1>1 DEF Asks
    <2> QED BY <1>1, <2>1 DEF ShownTypeOK, ListTypeOK, DetailTypeOK, detailVars
  <1>4. Kept'
    <2>1. At("detail") => Here \in PlcNames
      BY PageFacts
    <2>2. loading => loading'
      BY DEF ShownTypeOK
    <2>3. ~(At("list") /\ At("detail"))
      BY DEF At
    <2> QED BY <1>1, <1>2, <2>1, <2>2, <2>3, CallKeeps
  <1> QED BY <1>3, <1>4

LEMMA ListClicks ==
  ASSUME Kept, ShownTypeOK, ListClick, UNCHANGED <<plcVars, detailVars>>,
         excused' = excused \cup {n \in PlcNames : AskedTwice(n)}
  PROVE  Kept' /\ ShownTypeOK'
  <1>1. /\ UNCHANGED <<plc, groups, activeGroup>>
        /\ dialog[1] \in {"add", "remove", "edit"} => At("list")
    BY DEF detailVars, Kept, PageKept, DialogOfPage
  <1>2. \A n \in PlcNames :
          /\ \A method \in Ops \ {"UpdatePlc"} :
               CallTo(method, n, None) \in CallsMade /\ CallTo(method, n, None).method \in Ops
          /\ \A new \in PlcNames : /\ CallTo("UpdatePlc", n, new) \in CallsMade
                                   /\ CallTo("UpdatePlc", n, new).method \in Ops
    BY CallsOfPages DEF CallTo, Ops
  <1>3. {"AddPlc", "RemovePlc", "ConnectPlc", "DisconnectPlc"} \subseteq Ops \ {"UpdatePlc"}
    BY DEF Ops
  <1>4. CASE OpenAddDialog \/ ClosePlcDialog \/ \E n \in PlcNames : OpenCardDialog(n)
    <2>1. Click /\ UNCHANGED <<loading, listVars>>
      BY <1>4 DEF OpenAddDialog, ClosePlcDialog, OpenCardDialog, OpenDialog, CloseDialog
    <2>2. \/ dialog' \in {dialog, Closed}
          \/ At("list") /\ dialog' \in ({"add"} \X {None}) \cup ({"remove", "edit"} \X PlcNames)
      BY <1>4 DEF OpenAddDialog, ClosePlcDialog, OpenCardDialog, OpenDialog, CloseDialog, Card
    <2> QED BY <1>1, <2>1, <2>2, ClickStill
  <1>5. ASSUME NEW n \in PlcNames, HandleAddPlc(n)
        PROVE  Kept' /\ ShownTypeOK'
    <2>1. /\ Make(<<CallTo("AddPlc", n, None)>>) /\ UNCHANGED <<loading, dialog, rows, held, unseen>>
          /\ At("list")
      BY <1>1, <1>5 DEF HandleAddPlc, listVars
    <2> QED BY <1>2, <1>3, <2>1, ClickAsks
  <1>6. ASSUME NEW new \in PlcNames, HandleUpdatePlc(new)
        PROVE  Kept' /\ ShownTypeOK'
    <2>1. /\ Make(<<CallTo("UpdatePlc", dialog[2], new)>>) /\ UNCHANGED <<loading, dialog, rows, held, unseen>>
          /\ At("list") /\ dialog[2] \in PlcNames
      BY <1>1, <1>6, PageFacts DEF HandleUpdatePlc, listVars
    <2> QED BY <1>2, <2>1, ClickAsks
  <1>7. CASE HandleRemove
    <2>1. /\ Make(<<CallTo("RemovePlc", dialog[2], None)>>) /\ UNCHANGED <<loading, rows, held, unseen>>
          /\ At("list") /\ dialog[2] \in PlcNames /\ dialog' = Closed
      BY <1>1, <1>7, PageFacts DEF HandleRemove, listVars
    <2> QED BY <1>2, <1>3, <2>1, ClickAsks
  <1>8. ASSUME NEW n \in PlcNames, HandleConnect(n)
        PROVE  Kept' /\ ShownTypeOK'
    <2>1. /\ Make(<<ConnectOf(n)>>) /\ UNCHANGED <<loading, dialog, rows, unseen>>
          /\ At("list") /\ rows[n] = "off" /\ held' = held \cup {IdAt(1)}
      BY <1>8 DEF HandleConnect, Card, ConnectOf
    <2>2. ConnectOf(n) \in CallsMade /\ ConnectOf(n).method \in Ops /\ ConnectOf(n) \in Toggles(n)
      BY <1>2, <1>3 DEF ConnectOf, Toggles
    <2>3. rows[n] # None
      BY <2>1, PlcsAssumption
    <2> QED BY <2>1, <2>2, <2>3, ClickAsks
  <1>9. ASSUME NEW n \in PlcNames, HandleDisconnect(n)
        PROVE  Kept' /\ ShownTypeOK'
    <2>1. /\ Make(<<DisconnectOf(n)>>) /\ UNCHANGED <<loading, dialog, rows, unseen>>
          /\ At("list") /\ rows[n] = "on" /\ held' = held \cup {IdAt(1)}
      BY <1>9 DEF HandleDisconnect, Card, DisconnectOf
    <2>2. /\ DisconnectOf(n) \in CallsMade /\ DisconnectOf(n).method \in Ops /\ DisconnectOf(n) \in Toggles(n)
          /\ DisconnectOf(n) # ConnectOf(n)
      BY <1>2, <1>3 DEF ConnectOf, DisconnectOf, Toggles, CallTo
    <2>3. rows[n] # None
      BY <2>1, PlcsAssumption
    <2> QED BY <2>1, <2>2, <2>3, ClickAsks
  <1> QED BY <1>4, <1>5, <1>6, <1>7, <1>8, <1>9 DEF ListClick

LEMMA DetailClicks ==
  ASSUME Kept, ShownTypeOK, DetailClick, UNCHANGED <<plcVars, listVars>>,
         excused' = excused \cup {n \in PlcNames : AskedTwice(n)}
  PROVE  Kept' /\ ShownTypeOK'
  <1>1. /\ UNCHANGED <<rows, held, unseen>>
        /\ dialog[1] \in {"create", "rename", "delete"} => At("detail") /\ Here \in PlcNames
        /\ At("detail") => Here \in PlcNames
        /\ ~At("detail") => plc = None
    BY PageFacts DEF listVars, Kept, PageKept, DialogOfPage
  <1>2. CASE \E g \in Groups : HandleGroupTabClick(g)
    BY <1>1, <1>2, ClickStill DEF HandleGroupTabClick, Unmasked
  <1>3. CASE OpenGroupDialog \/ CloseGroupDialog
    <2>1. Click /\ UNCHANGED <<loading, plc, groups, activeGroup>>
      BY <1>3 DEF OpenGroupDialog, CloseGroupDialog, OpenDialog, CloseDialog, detailVars
    <2>2. \/ dialog' \in {dialog, Closed}
          \/ At("detail") /\ dialog' \in ({"create"} \X {None}) \cup ({"rename", "delete"} \X Groups)
      BY <1>3 DEF OpenGroupDialog, CloseGroupDialog, OpenDialog, CloseDialog, Unmasked, ShownTypeOK,
                  DetailTypeOK
    <2> QED BY <1>1, <2>1, <2>2, ClickStill
  <1>4. CASE HandleCreateGroup
    <2>1. /\ Make(<<CallTo("CreateDbGroup", Here, None)>>) /\ UNCHANGED <<loading, dialog, detailVars>>
          /\ At("detail") /\ Here \in PlcNames
      BY <1>1, <1>4 DEF HandleCreateGroup, Here
    <2>2. LET c == CallTo("CreateDbGroup", Here, None)
          IN /\ c \in CallsMade /\ c.method \in ChangingGroups /\ PlcOf(c) = Here
             /\ c \notin Toggles(Here) /\ c # ConnectOf(Here)
      BY <2>1, CallsOfPages DEF CallTo, ChangingGroups, PlcOf, Toggles, ConnectOf, DisconnectOf
    <2> QED BY <1>1, <2>1, <2>2, ClickAsks
  <1>5. CASE HandleRename
    <2>1. /\ Make(<<CallTo("RenameDbGroup", dialog[2], Here)>>) /\ UNCHANGED <<loading, dialog, detailVars>>
          /\ At("detail") /\ Here \in PlcNames /\ dialog[2] \in Groups
      BY <1>1, <1>5, PageFacts DEF HandleRename, Here
    <2>2. LET c == CallTo("RenameDbGroup", dialog[2], Here)
          IN /\ c \in CallsMade /\ c.method \in ChangingGroups /\ PlcOf(c) = Here
             /\ c \notin Toggles(Here) /\ c # ConnectOf(Here)
      BY <2>1, CallsOfPages DEF CallTo, ChangingGroups, PlcOf, Toggles, ConnectOf, DisconnectOf
    <2> QED BY <1>1, <2>1, <2>2, ClickAsks
  <1>6. CASE HandleDeleteGroup
    <2>1. /\ Make(<<CallTo("DeleteDbGroup", dialog[2], Here)>>) /\ UNCHANGED <<loading, detailVars>>
          /\ At("detail") /\ Here \in PlcNames /\ dialog[2] \in Groups /\ dialog' = Closed
      BY <1>1, <1>6, PageFacts DEF HandleDeleteGroup, Here
    <2>2. LET c == CallTo("DeleteDbGroup", dialog[2], Here)
          IN /\ c \in CallsMade /\ c.method \in ChangingGroups /\ PlcOf(c) = Here
             /\ c \notin Toggles(Here) /\ c # ConnectOf(Here)
      BY <2>1, CallsOfPages DEF CallTo, ChangingGroups, PlcOf, Toggles, ConnectOf, DisconnectOf
    <2> QED BY <1>1, <2>1, <2>2, ClickAsks
  <1>7. CASE OnRefresh
    <2>1. /\ Make(<<LoadGroups(Here)>>) /\ UNCHANGED <<dialog, detailVars>>
          /\ At("detail") /\ Here \in PlcNames /\ loading' = TRUE
      BY <1>1, <1>7 DEF OnRefresh, Here
    <2>2. /\ LoadGroups(Here) \in CallsMade
          /\ LoadGroups(Here) \notin Toggles(Here) /\ LoadGroups(Here) # ConnectOf(Here)
      BY <2>1, CallsOfPages DEF CallTo, LoadGroups, Toggles, ConnectOf, DisconnectOf
    <2> QED BY <1>1, <2>1, <2>2, ClickAsks
  <1>8. CASE ToggleConnection
    <2>1. /\ UNCHANGED <<loading, dialog, detailVars>> /\ At("detail") /\ Here \in PlcNames
          /\ \/ plc = "off" /\ Make(<<ConnectOf(Here)>>)
             \/ plc = "on" /\ Make(<<DisconnectOf(Here)>>)
      BY <1>1, <1>8 DEF ToggleConnection, Here, ConnectOf, DisconnectOf
    <2>2. /\ ConnectOf(Here) \in CallsMade /\ DisconnectOf(Here) \in CallsMade
          /\ ConnectOf(Here) # DisconnectOf(Here)
      <3>1. {"ConnectPlc", "DisconnectPlc"} \subseteq Ops \ {"UpdatePlc"}
        BY DEF Ops
      <3> QED BY <2>1, <3>1, CallsOfPages DEF CallTo, ConnectOf, DisconnectOf
    <2>3. plc \in {"on", "off"} => plc # None
      BY PlcsAssumption
    <2> QED BY <1>1, <2>1, <2>2, <2>3, ClickAsks DEF Toggles
  <1> QED BY <1>2, <1>3, <1>4, <1>5, <1>6, <1>7, <1>8 DEF DetailClick

LEMMA UserKeeps ==
  ASSUME Kept, ShownTypeOK, UserStep
  PROVE  Kept' /\ ShownTypeOK' /\ UNCHANGED plcVars
  <1>1. CASE NavigateTo
    <2>1. PICK to \in {Main, Page("list", None)} \cup {Page("detail", n) : n \in PlcNames} : GoTo(to)
      BY <1>1 DEF NavigateTo
    <2> QED BY <2>1, GoingKeeps DEF GoTo
  <1>2. CASE /\ \/ ListClick /\ UNCHANGED detailVars
                \/ DetailClick /\ UNCHANGED listVars
             /\ excused' = excused \cup {n \in PlcNames : AskedTwice(n)}
             /\ UNCHANGED plcVars
    BY <1>2, ListClicks, DetailClicks
  <1> QED BY <1>1, <1>2 DEF UserStep

-----------------------------------------------------------------------------
(* An answer arrives: its promise settles, and its id is free or asks for `next`. *)

Settling(a, next) ==
  /\ Wires(CallsMade, Data)'
  /\ a \in Told /\ a.id \in Ids /\ a.ok \in BOOLEAN /\ promise[a.id] \in CallsMade
  /\ Told' = Told \ {a} /\ running' = running /\ promise'[a.id] = next
  /\ \A i \in Ids \ {a.id} : promise'[i] = promise[i]
  /\ \A b \in Told : ~Later(b, a)
  /\ \A b, c \in Told' : Later(b, c) => Later(b, c)'
  /\ \A x \in Asking \cup running \cup Told' :
       x.id \in Ids /\ x.id # a.id /\ promise'[x.id] = promise[x.id]
  /\ Asking' = IF next = None THEN Asking
               ELSE Asking \cup {[id |-> a.id, call |-> next, web |-> TRUE]}
  /\ Open' = IF next = None THEN Open \ {a.id} ELSE Open

LEMMA AnswerSettles ==
  ASSUME Wires(CallsMade, Data), NEW a, Arrives(a), NEW next \in CallsMade \cup {None},
         Turn({a.id}, IF next = None THEN <<>> ELSE Follow(a, next))
  PROVE  Settling(a, next)
  <1> DEFINE following == IF next = None THEN <<>> ELSE Follow(a, next)
  <1>1. following = IF next = None THEN <<>> ELSE <<Request(a.id, next)>>
    BY DEF Follow
  <1> HIDE DEF following
  <1>2. following = <<>> \/ \E c \in CallsMade : following = <<Request(a.id, c)>>
    BY <1>1
  <1>3. /\ Wires(CallsMade, Data)'
        /\ a \in Told /\ Told' = Told \ {a} /\ running' = running
        /\ promise[a.id] \in CallsMade /\ a \in Scripts(Data)
        /\ \A m \in Asking \cup running : m.id # a.id
        /\ \A b \in Told' : b.id # a.id
        /\ \A b \in Told : ~Later(b, a)
        /\ \A b, c \in Told' : Later(b, c) => Later(b, c)'
        /\ \A i \in Ids \ {a.id} : promise'[i] = promise[i]
        /\ following = <<>> => Asking' = Asking /\ promise'[a.id] = None
        /\ \A c \in CallsMade : following = <<Request(a.id, c)>> =>
             /\ Asking' = Asking \cup {[id |-> a.id, call |-> c, web |-> TRUE]}
             /\ promise'[a.id] = c
    <2>1. Turn({a.id}, following)
      BY DEF following
    <2>2. Settlement(CallsMade, Data, a, following)
      BY <1>2, <2>1, Settles, NoneIsNoCall
    <2> QED BY <2>2 DEF Settlement
  <1>4. /\ promise'[a.id] = next
        /\ Asking' = IF next = None THEN Asking
                     ELSE Asking \cup {[id |-> a.id, call |-> next, web |-> TRUE]}
    BY <1>1, <1>3
  <1>5. a.id \in Ids /\ a.ok \in BOOLEAN
    BY <1>3 DEF Scripts
  <1>6. Open' = IF next = None THEN Open \ {a.id} ELSE Open
    BY <1>3, <1>4, <1>5, NoneIsNoCall DEF Open
  <1>7. \A x \in Asking \cup running \cup Told' :
          x.id \in Ids /\ x.id # a.id /\ promise'[x.id] = promise[x.id]
    BY <1>3, Opened
  <1> QED BY <1>3, <1>4, <1>5, <1>6, <1>7 DEF Settling

(* After a change the page asks for the whole again. *)
NextCall(a) ==
  IF ~a.ok THEN None
  ELSE IF promise[a.id].method \in ChangingPlcs THEN LoadPlcs
  ELSE IF promise[a.id].method \in ChangingGroups THEN LoadGroups(PlcOf(promise[a.id])) ELSE None

LEMMA FollowingIs ==
  ASSUME NEW a, a.ok \in BOOLEAN, promise[a.id] \in CallsMade
  PROVE  /\ NextCall(a) \in CallsMade \cup {None}
         /\ Following(a, promise[a.id]) =
              IF NextCall(a) = None THEN <<>> ELSE Follow(a, NextCall(a))
         /\ NextCall(a) # None => /\ NextCall(a).method \notin Ops \cup ChangingGroups
                                  /\ a.ok /\ promise[a.id].method \in ChangingPlcs \cup ChangingGroups
  <1> DEFINE call == promise[a.id]
  <1>1. call.method \in ChangingGroups => PlcOf(call) \in PlcNames
    BY CallForms DEF PlcOf, ChangingGroups
  <1>2. /\ LoadPlcs \in CallsMade
        /\ call.method \in ChangingGroups => LoadGroups(PlcOf(call)) \in CallsMade
    BY <1>1, CallsOfPages
  <1>3. /\ LoadPlcs.method = "ListPlcs" /\ \A n : LoadGroups(n).method = "ListDbGroups"
        /\ {"ListPlcs", "ListDbGroups"} \cap (Ops \cup ChangingGroups) = {}
        /\ ChangingPlcs \cap ChangingGroups = {}
    BY DEF LoadPlcs, LoadGroups, CallTo, Ops, ChangingGroups, ChangingPlcs
  <1>4. NextCall(a) \in CallsMade \cup {None}
    BY <1>2 DEF NextCall
  <1>5. Following(a, call) = IF NextCall(a) = None THEN <<>> ELSE Follow(a, NextCall(a))
    <2>1. CASE ~a.ok
      BY <2>1 DEF NextCall, Following, DetailFollowing, ListFollowing
    <2>2. CASE a.ok /\ call.method \in ChangingPlcs
      BY <1>2, <1>3, <2>2, NoneIsNoCall DEF NextCall, Following, ListFollowing
    <2>3. CASE a.ok /\ call.method \in ChangingGroups
      BY <1>2, <1>3, <2>3, NoneIsNoCall DEF NextCall, Following, DetailFollowing
    <2>4. CASE call.method \notin ChangingPlcs \cup ChangingGroups
      BY <2>4 DEF NextCall, Following, ListFollowing
    <2> QED BY <2>1, <2>2, <2>3, <2>4
  <1>6. NextCall(a) # None => /\ NextCall(a).method \notin Ops \cup ChangingGroups
                              /\ a.ok /\ call.method \in ChangingPlcs \cup ChangingGroups
    BY <1>3 DEF NextCall
  <1> QED BY <1>4, <1>5, <1>6

(* What the answers that come later say is not disturbed. *)
LEMMA HubSettled ==
  ASSUME Wires(CallsMade, Data), OneOperation, HubKept, UNCHANGED <<hub, step>>, excused \subseteq excused',
         NEW a, NEW next \in CallsMade \cup {None}, Settling(a, next),
         next # None => next.method \notin Ops
  PROVE  OneOperation' /\ HubKept'
  <1>1. \A i \in Ids : \A n : About(i, n)' => About(i, n)
    BY DEF Settling, About
  <1>2. OneOperation'
    BY <1>1 DEF OneOperation
  <1>3. HubKept'
    BY DEF Settling, HubKept
  <1> QED BY <1>2, <1>3

-----------------------------------------------------------------------------
(* The list takes an answer. *)

LEMMA SettledToCome ==
  ASSUME Wires(CallsMade, Data), CallsOfList, NEW a, Settling(a, NextCall(a))
  PROVE  /\ ListToCome => ListToCome'
         /\ a.ok /\ promise[a.id].method \in ChangingPlcs => ListToCome'
  <1>1. ASSUME a.ok, promise[a.id].method \in ChangingPlcs
        PROVE  ListToCome'
    <2>1. NextCall(a) = LoadPlcs /\ LoadPlcs # None
      BY <1>1, CallsOfPages, NoneIsNoCall DEF NextCall
    <2>2. [id |-> a.id, call |-> LoadPlcs, web |-> TRUE] \in Asking'
      BY <2>1 DEF Settling
    <2> QED BY <2>2 DEF ListToCome
  <1>2. ASSUME ListToCome, ~(a.ok /\ promise[a.id].method \in ChangingPlcs)
        PROVE  ListToCome'
    BY <1>2 DEF ListToCome, Settling
  <1> QED BY <1>1, <1>2

(* The rows as an answer leaves them, whatever it answers. *)
TakenByList(a) ==
  LET call == promise[a.id]
  IN IF call = LoadPlcs
     THEN rows' = a.data /\ held' = {} /\ unseen' = {n \in unseen : a.data[n] = None}
     ELSE /\ unseen \subseteq unseen' /\ held' = held \ {a.id}
          /\ \A n \in PlcNames :
               rows'[n] = IF a.ok /\ a.id \in held /\ call \in Toggles(n)
                          THEN IF call = ConnectOf(n) THEN "on" ELSE "off"
                          ELSE rows[n]
          /\ \A n \in PlcNames : FailedAdd(a, n) => rows'[n] # None \/ n \in unseen'

LEMMA ListTakes ==
  ASSUME Wires(CallsMade, Data), CallsOfList, HeldKept, ListTypeOK, NEW a, a \in Told,
         ListContinue(a, promise[a.id])
  PROVE  TakenByList(a)
  <1> DEFINE call == promise[a.id]
  <1>1. call \in CallsMade /\ a.id \in Ids
    BY Opened
  <1>2. CASE call = LoadPlcs
    <2>1. PlcsLoaded(a)
      BY <1>2 DEF ListContinue, LoadPlcs, CallTo, ChangingPlcs
    <2> QED BY <1>2, <2>1 DEF PlcsLoaded, TakenByList
  <1>3. ASSUME call.method \in {"ConnectPlc", "DisconnectPlc"}
        PROVE  TakenByList(a)
    <2>1. /\ call # LoadPlcs /\ call.of \in PlcNames
          /\ \A n \in PlcNames : /\ ~FailedAdd(a, n)
                                 /\ call \in Toggles(n) <=> n = call.of
                                 /\ call = ConnectOf(n) <=> n = call.of /\ call.method = "ConnectPlc"
      BY <1>1, <1>3, CallIs, CallForms DEF FailedAdd, Ops
    <2>2. RowFlagged(a, call, IF call.method = "ConnectPlc" THEN "on" ELSE "off")
      BY <1>3, <2>1 DEF ListContinue, ChangingPlcs
    <2>3. rows \in [PlcNames -> {None, "on", "off"}]
      BY DEF ListTypeOK
    <2> QED BY <2>1, <2>2, <2>3 DEF RowFlagged, TakenByList
  <1>4. CASE call.method \in ChangingPlcs
    <2>1. PlcsChanged(a, call)
      BY <1>4 DEF ListContinue, LoadPlcs, CallTo, ChangingPlcs
    <2>2. /\ call # LoadPlcs /\ \A n \in PlcNames : call \notin Toggles(n)
          /\ \A n \in PlcNames : FailedAdd(a, n) => ~a.ok /\ call.method = "AddPlc" /\ n = call.of
      BY <1>1, <1>4, CallIs DEF FailedAdd, ChangingPlcs
    <2>3. a.id \notin held
      BY <2>2 DEF HeldKept
    <2>4. rows' = rows /\ held' = held
      BY <2>1 DEF PlcsChanged, listVars
    <2>5. unseen \subseteq unseen'
      BY <2>1 DEF PlcsChanged, listVars
    <2>6. ASSUME ~a.ok, call.method = "AddPlc", rows[call.of] = None
          PROVE  call.of \in unseen'
      BY <2>1, <2>6 DEF PlcsChanged
    <2> QED BY <2>2, <2>3, <2>4, <2>5, <2>6 DEF TakenByList
  <1> QED BY <1>2, <1>3, <1>4 DEF ListContinue

LEMMA ListSettled ==
  ASSUME Wires(CallsMade, Data), CallsOfList, HeldKept, ListKept, UNCHANGED <<plcs, hub>>,
         NEW a, Settling(a, NextCall(a)), TakenByList(a)
  PROVE  ListKept'
  <1> DEFINE call == promise[a.id]
  <1>1. /\ a \in Told /\ Told' = Told \ {a} /\ running' = running /\ Stored' = Stored
        /\ \A b \in Told : ~Later(b, a)
        /\ \A b, c \in Told' : Later(b, c) => Later(b, c)'
        /\ \A b \in Told' : promise'[b.id] = promise[b.id]
    BY DEF Settling, Stored
  <1>2. CASE ListToCome \/ (a.ok /\ call.method \in ChangingPlcs)
    BY <1>2, SettledToCome DEF ListKept
  <1>3. CASE ~ListToCome
    <2>1. /\ \A b \in Lists : (\E c \in Lists : Later(b, c)) \/ ListAnswer(b)
          /\ Lists = {} => ListShown
      BY <1>3 DEF ListKept
    <2>2. Lists' = Lists \ {a} /\ \A n : Added(n)' <=> Added(n)
      BY <1>1 DEF Lists, Added
    <2>3. \A b \in Told' : \A n : FailedAdd(b, n) => FailedAdd(b, n)'
      BY <1>1 DEF FailedAdd
    <2>4. ASSUME NEW b \in Lists', ListAnswer(b)
          PROVE  ListAnswer(b)'
      <3>1. b \in Told'
        BY DEF Lists
      <3>2. \A n : (\E c \in Told : Later(b, c) /\ FailedAdd(c, n)) =>
                      \E c \in Told' : Later(b, c)' /\ FailedAdd(c, n)'
        BY <1>1, <2>3, <3>1
      <3> QED BY <1>1, <2>2, <2>4, <3>2 DEF ListAnswer
    <2>5. ASSUME NEW b \in Lists'
          PROVE  (\E c \in Lists' : Later(b, c)') \/ ListAnswer(b)'
      <3>1. b \in Lists /\ b \in Told'
        BY <2>2 DEF Lists
      <3>2. CASE \E c \in Lists : Later(b, c)
        <4>1. PICK c \in Lists : Later(b, c)
          BY <3>2
        <4>2. c \in Lists' /\ c \in Told'
          BY <1>1, <2>2, <3>1, <4>1 DEF Lists
        <4> QED BY <1>1, <3>1, <4>1, <4>2
      <3> QED BY <2>1, <2>4, <3>1, <3>2
    <2>6. ASSUME Lists' = {}, call = LoadPlcs
          PROVE  ListShown'
      <3>1. ListAnswer(a)
        <4>1. a \in Lists /\ \A c \in Lists : c = a
          BY <1>1, <2>2, <2>6 DEF Lists
        <4> QED BY <1>1, <2>1, <4>1
      <3>2. rows' = a.data /\ unseen' = {n \in unseen : a.data[n] = None}
        BY <2>6 DEF TakenByList
      <3>3. \A n : (\E c \in Told : Later(a, c) /\ FailedAdd(c, n)) => \E c \in Told' : FailedAdd(c, n)'
        BY <1>1, <2>3
      <3> QED BY <1>1, <2>2, <3>1, <3>2, <3>3 DEF ListAnswer, ListShown
    <2>7. ASSUME Lists' = {}, call # LoadPlcs
          PROVE  ListShown'
      <3>1. ListShown
        BY <2>1, <2>2, <2>7 DEF Lists
      <3>2. ASSUME NEW n \in PlcNames
            PROVE  rows'[n] = None <=> rows[n] = None
        <4>1. ASSUME a.id \in held, call \in Toggles(n)
              PROVE  rows[n] # None
          <5>1. PICK k \in PlcNames : call \in Toggles(k) /\ rows[k] # None
            BY <4>1 DEF HeldKept
          <5>2. call \in CallsMade
            BY DEF Settling
          <5>3. k = n
            BY <4>1, <5>1, <5>2, CallIs
          <5> QED BY <5>1, <5>3
        <4> QED BY <2>7, <4>1, PlcsAssumption DEF TakenByList
      <3>3. unseen \subseteq unseen' /\ \A n \in PlcNames : FailedAdd(a, n) => rows'[n] # None \/ n \in unseen'
        BY <2>7 DEF TakenByList
      <3>4. ASSUME NEW n \in PlcNames, NEW b \in Told, FailedAdd(b, n)
            PROVE  rows'[n] # None \/ n \in unseen' \/ \E c \in Told' : FailedAdd(c, n)'
        BY <1>1, <2>3, <3>3, <3>4
      <3> QED BY <1>1, <2>2, <3>1, <3>2, <3>3, <3>4 DEF ListShown
    <2> QED BY <2>5, <2>6, <2>7 DEF ListKept
  <1> QED BY <1>2, <1>3

LEMMA HeldSettled ==
  ASSUME Wires(CallsMade, Data), OneOperation, HeldKept,
         NEW a, Settling(a, NextCall(a)), TakenByList(a), excused \subseteq excused'
  PROVE  HeldKept'
  <1> SUFFICES ASSUME NEW i \in held'
               PROVE  /\ i \in Open' /\ \E n \in PlcNames : promise'[i] \in Toggles(n) /\ rows'[n] # None
                      /\ \A n \in PlcNames \ excused : promise'[i] = ConnectOf(n) => rows'[n] = "off"
    BY DEF HeldKept
  <1>1. promise[a.id] # LoadPlcs
    BY DEF TakenByList
  <1>2. i \in held /\ i # a.id
    BY <1>1 DEF TakenByList
  <1>3. i \in Open' /\ i \in Ids /\ promise'[i] = promise[i] /\ a.id \in Ids
    BY <1>2 DEF HeldKept, Settling, Open
  <1>4. \A n \in PlcNames : \/ rows'[n] = rows[n]
                            \/ promise[a.id] \in Toggles(n) /\ rows'[n] \in {"on", "off"}
    BY <1>1 DEF TakenByList
  <1>5. \E n \in PlcNames : promise'[i] \in Toggles(n) /\ rows'[n] # None
    BY <1>2, <1>3, <1>4, PlcsAssumption DEF HeldKept
  <1>6. ASSUME NEW n \in PlcNames \ excused, promise'[i] = ConnectOf(n)
        PROVE  rows'[n] = "off"
    <2>1. rows[n] = "off"
      BY <1>2, <1>3, <1>6 DEF HeldKept
    <2>2. promise[a.id] \notin Toggles(n)
      <3>1. promise[i] \in Toggles(n)
        BY <1>3, <1>6 DEF Toggles
      <3>2. SUFFICES ASSUME promise[a.id] \in Toggles(n) PROVE FALSE
        OBVIOUS
      <3>3. About(i, n) /\ About(a.id, n)
        BY <1>3, <3>1, <3>2, TogglesAbout
      <3> QED BY <1>2, <1>3, <3>3 DEF OneOperation
    <2> QED BY <1>4, <2>1, <2>2
  <1> QED BY <1>3, <1>5, <1>6

LEMMA FlagsSettled ==
  ASSUME Wires(CallsMade, Data), CallsOfList, OneOperation, HubKept, FlagsKept, UNCHANGED hub,
         NEW a, Settling(a, NextCall(a)), TakenByList(a), excused \subseteq excused',
         \A n \in PlcNames : a.id \notin held /\ promise[a.id] \in Toggles(n) => n \in excused'
  PROVE  FlagsKept'
  <1> DEFINE call == promise[a.id]
  <1>1. /\ a \in Told /\ Told' = Told \ {a} /\ running' = running /\ a.id \in Ids
        /\ \A b \in Told : ~Later(b, a)
        /\ \A b, c \in Told' : Later(b, c) => Later(b, c)'
        /\ \A x \in Asking \cup running \cup Told' : x.id # a.id /\ promise'[x.id] = promise[x.id]
        /\ \A i \in Ids \ {a.id} : promise'[i] = promise[i]
        /\ Asking \subseteq Asking'
        /\ \A i \in Open \ {a.id} : i \in Open'
    BY DEF Settling
  <1>2. CASE ListToCome \/ (a.ok /\ call.method \in ChangingPlcs)
    BY <1>2, SettledToCome DEF FlagsKept
  <1>3. CASE ~ListToCome
    <2> SUFFICES ASSUME NEW n \in PlcNames \ excused'
                 PROVE  /\ \A b \in Lists' : (\E c \in Lists' : Later(b, c)') \/ OnAnswer(b, n)'
                        /\ Lists' = {} => OnShown(n)'
      BY DEF FlagsKept
    <2>1. /\ \A b \in Lists : (\E c \in Lists : Later(b, c)) \/ OnAnswer(b, n)
          /\ Lists = {} => OnShown(n)
      BY <1>3 DEF FlagsKept
    <2>2. Lists' = Lists \ {a} /\ (Connects(n)' <=> Connects(n))
      BY <1>1 DEF Lists, Connects, Added
    <2>3. ASSUME NEW b \in Lists'
          PROVE  (\E c \in Lists' : Later(b, c)') \/ OnAnswer(b, n)'
      <3>1. b \in Lists /\ b \in Told'
        BY <2>2 DEF Lists
      <3>2. CASE \E c \in Lists : Later(b, c)
        <4>1. PICK c \in Lists : Later(b, c)
          BY <3>2
        <4>2. c \in Lists' /\ c \in Told'
          BY <1>1, <2>2, <3>1, <4>1 DEF Lists
        <4> QED BY <1>1, <3>1, <4>1, <4>2
      <3>3. CASE OnAnswer(b, n)
        <4>1. ASSUME NEW c \in Told, Later(b, c), promise[c.id] \in Toggles(n)
              PROVE  \E d \in Told' : Later(b, d)' /\ promise'[d.id] \in Toggles(n)
          BY <1>1, <3>1, <4>1
        <4> QED BY <1>1, <2>2, <3>3, <4>1 DEF OnAnswer
      <3> QED BY <2>1, <3>1, <3>2, <3>3
    <2>4. ASSUME Lists' = {}, call = LoadPlcs, rows'[n] = "on"
          PROVE  Connects(n) \/ \E i \in Open' \ held' : promise'[i] \in Toggles(n)
      <3>1. OnAnswer(a, n) /\ held' = {} /\ rows' = a.data
        <4>1. a \in Lists /\ \A c \in Lists : c = a
          BY <1>1, <2>2, <2>4 DEF Lists
        <4> QED BY <1>1, <2>1, <2>4, <4>1 DEF TakenByList
      <3>2. ASSUME NEW x \in Asking \cup running, x.call \in Toggles(n)
            PROVE  x.id \in Open' /\ promise'[x.id] \in Toggles(n)
        BY <1>1, <3>2, Opened
      <3>3. ASSUME NEW b \in Told, Later(a, b), promise[b.id] \in Toggles(n)
            PROVE  b.id \in Open' /\ promise'[b.id] \in Toggles(n)
        BY <1>1, <3>3, Opened
      <3> QED BY <2>4, <3>1, <3>2, <3>3 DEF OnAnswer
    <2>5. ASSUME Lists' = {}, call # LoadPlcs, rows'[n] = "on"
          PROVE  \/ Connects(n)
                 \/ \E i \in Open' \ held' : promise'[i] \in Toggles(n)
                 \/ \E b \in Told' : b.ok /\ promise'[b.id] = DisconnectOf(n)
      <3>1. OnShown(n) /\ held' = held \ {a.id} /\ n \notin excused
        BY <2>1, <2>2, <2>5 DEF Lists, TakenByList
      <3>2. rows'[n] = IF a.ok /\ a.id \in held /\ call \in Toggles(n)
                       THEN IF call = ConnectOf(n) THEN "on" ELSE "off" ELSE rows[n]
        BY <2>5 DEF TakenByList
      <3>3. CASE a.ok /\ a.id \in held /\ call \in Toggles(n)
        <4>1. call = ConnectOf(n)
          BY <2>5, <3>2, <3>3
        <4>2. hub.session[n] # None
          BY <1>1, <3>1, <3>3, <4>1 DEF HubKept
        <4>3. ASSUME NEW m \in running, m.call = AddOf(n) PROVE FALSE
          <5>1. m.id \in Ids /\ promise[m.id] = AddOf(n) /\ m.id # a.id
            BY <1>1, <4>3, Opened
          <5>2. About(m.id, n) /\ About(a.id, n)
            BY <1>1, <3>3, <5>1, TogglesAbout
          <5> QED BY <1>1, <3>1, <5>1, <5>2 DEF OneOperation
        <4> QED BY <4>2, <4>3 DEF Connects, Added
      <3>4. CASE ~(a.ok /\ a.id \in held /\ call \in Toggles(n))
        <4>1. rows[n] = "on"
          BY <2>5, <3>2, <3>4
        <4>2. ASSUME NEW i \in Open \ held, promise[i] \in Toggles(n)
              PROVE  \E j \in Open' \ held' : promise'[j] \in Toggles(n)
          <5>1. i # a.id /\ i \in Ids
            BY <4>2 DEF Open
          <5> QED BY <1>1, <3>1, <4>2, <5>1
        <4>3. ASSUME NEW b \in Told, b.ok, promise[b.id] = DisconnectOf(n)
              PROVE  \E c \in Told' : c.ok /\ promise'[c.id] = DisconnectOf(n)
          <5>1. b # a
            BY <3>4, <4>3 DEF Toggles
          <5> QED BY <1>1, <4>3, <5>1
        <4> QED BY <3>1, <4>1, <4>2, <4>3 DEF OnShown
      <3> QED BY <3>3, <3>4
    <2>6. Lists' = {} => OnShown(n)'
      BY <2>2, <2>4, <2>5 DEF OnShown
    <2> QED BY <2>3, <2>6
  <1> QED BY <1>2, <1>3

LEMMA ListContinues ==
  ASSUME Wires(CallsMade, Data), ListPart, OneOperation, HubKept, ListTypeOK, UNCHANGED <<plcs, hub>>,
         NEW a, Settling(a, NextCall(a)), ListContinue(a, promise[a.id]), excused \subseteq excused',
         \A n \in PlcNames : a.id \notin held /\ promise[a.id] \in Toggles(n) => n \in excused'
  PROVE  ListPart'
  <1>1. CallsOfList /\ HeldKept /\ ListKept /\ FlagsKept /\ a \in Told
    BY DEF ListPart, Settling
  <1>2. TakenByList(a)
    BY <1>1, ListTakes
  <1>3. CallsOfList'
    <2>1. NextCall(a) \in {None, LoadPlcs}
      <3>1. promise[a.id].method \notin ChangingGroups
        BY <1>1, CallsInList DEF LoadPlcs, CallTo, Ops, ChangingGroups
      <3> QED BY <3>1 DEF NextCall
    <2>2. \A i \in Open' : i \in Open /\ i \in Ids /\ (promise'[i] = promise[i] \/ (i = a.id /\ NextCall(a) # None))
      BY DEF Settling, Open
    <2> QED BY <1>1, <2>1, <2>2 DEF CallsOfList, Settling
  <1>4. HeldKept'
    BY <1>1, <1>2, HeldSettled
  <1>5. ListKept'
    BY <1>1, <1>2, ListSettled
  <1>6. FlagsKept'
    BY <1>1, <1>2, FlagsSettled
  <1> QED BY <1>3, <1>4, <1>5, <1>6 DEF ListPart

-----------------------------------------------------------------------------
(* The page of one PLC takes an answer. *)

(* The flag as an answer leaves it, and the groups and the active one. *)
TakenByDetail(a) ==
  LET call == promise[a.id]
  IN /\ plc' = IF call = LoadPlc(Here) THEN a.data[Here]
               ELSE IF a.ok /\ call = ConnectOf(Here) THEN "on"
               ELSE IF a.ok /\ call = DisconnectOf(Here) THEN "off" ELSE plc
     /\ \/ /\ call.method = "ListDbGroups" /\ groups' = a.data
           /\ \/ activeGroup' \in groups' /\ activeGroup = None
              \/ activeGroup' = activeGroup /\ (activeGroup # None \/ groups' = {})
        \/ /\ call.method \in ChangingGroups /\ a.ok /\ groups' = groups /\ loading' = TRUE
           /\ activeGroup' = None \/ (activeGroup' = activeGroup /\ ~Deleted(a, activeGroup))
        \/ /\ call.method # "ListDbGroups" /\ ~(call.method \in ChangingGroups /\ a.ok)
           /\ UNCHANGED <<loading, groups, activeGroup>>

LEMMA DetailTakes ==
  ASSUME Wires(CallsMade, Data), CallsOfDetail, Here \in PlcNames, NEW a, a \in Told,
         DetailContinue(a, promise[a.id])
  PROVE  TakenByDetail(a)
  <1> DEFINE call == promise[a.id]
  <1>1. a.id \in Open
    BY Opened
  <1>2. /\ call.method = "ListPlcs" <=> call = LoadPlc(Here)
        /\ call.method = "ConnectPlc" <=> call = ConnectOf(Here)
        /\ call.method = "DisconnectPlc" <=> call = DisconnectOf(Here)
    BY <1>1, CallsInDetail DEF LoadPlc, ConnectOf, DisconnectOf, CallTo, Toggles
  <1>3. {"ListPlcs", "ListDbGroups", "ConnectPlc", "DisconnectPlc"} \cap ChangingGroups = {}
    BY DEF ChangingGroups
  <1>4. CASE call.method = "ListPlcs" /\ PlcLoaded(a)
    BY <1>2, <1>3, <1>4 DEF PlcLoaded, TakenByDetail, Here
  <1>5. CASE call.method = "ListDbGroups" /\ GroupsLoaded(a)
    BY <1>2, <1>3, <1>5 DEF GroupsLoaded, TakenByDetail
  <1>6. CASE call.method = "ConnectPlc" /\ PlcFlagged(a, "on")
    BY <1>2, <1>3, <1>6 DEF PlcFlagged, TakenByDetail
  <1>7. CASE call.method = "DisconnectPlc" /\ PlcFlagged(a, "off")
    BY <1>2, <1>3, <1>7 DEF PlcFlagged, TakenByDetail
  <1>8. CASE call.method \in ChangingGroups /\ GroupsChanged(a, call)
    <2>1. plc' = plc /\ groups' = groups
      BY <1>8 DEF GroupsChanged, detailVars
    <2>2. CASE a.ok
      <3>1. loading' = TRUE /\ (activeGroup' = None \/ (activeGroup' = activeGroup /\ ~Deleted(a, activeGroup)))
        BY <1>8, <2>2 DEF GroupsChanged, Deleted
      <3> QED BY <1>2, <1>3, <1>8, <2>1, <2>2, <3>1 DEF TakenByDetail
    <2>3. CASE ~a.ok
      <3>1. UNCHANGED <<loading, activeGroup>>
        BY <1>8, <2>3 DEF GroupsChanged, detailVars
      <3> QED BY <1>2, <1>3, <1>8, <2>1, <2>3, <3>1 DEF TakenByDetail
    <2> QED BY <2>2, <2>3
  <1> QED BY <1>4, <1>5, <1>6, <1>7, <1>8 DEF DetailContinue

LEMMA DetailContinues ==
  ASSUME Wires(CallsMade, Data), DetailPart, OneOperation, HubKept, Fits, DetailTypeOK,
         Here \in PlcNames, UNCHANGED <<page, plcs, hub, owner, excused>>,
         NEW a, Settling(a, NextCall(a)), DetailContinue(a, promise[a.id]),
         ~NotFound(a, promise[a.id])
  PROVE  DetailPart'
  <1> DEFINE call == promise[a.id]
  <1>1. /\ a \in Told /\ Told' = Told \ {a} /\ running' = running /\ a.id \in Ids
        /\ promise'[a.id] = NextCall(a)
        /\ \A b \in Told : ~Later(b, a)
        /\ \A b, c \in Told' : Later(b, c) => Later(b, c)'
        /\ \A x \in Asking \cup running \cup Told' : x.id # a.id /\ promise'[x.id] = promise[x.id]
        /\ \A i \in Ids \ {a.id} : promise'[i] = promise[i]
        /\ Asking \subseteq Asking' /\ a.ok \in BOOLEAN
        /\ \A i \in Open \ {a.id} : i \in Open' /\ promise'[i] = promise[i]
        /\ \A i \in Open' : (i \in Open \ {a.id} /\ promise'[i] = promise[i]) \/ i = a.id
        /\ NextCall(a) # None => a.id \in Open'
        /\ a.id \in Open' => NextCall(a) # None
    BY DEF Settling, Open
  <1>2. a.id \in Open
    BY <1>1, Opened
  <1>3. Here' = Here /\ Stored' = Stored /\ GroupsOf(Here)' = GroupsOf(Here)
    BY DEF Here, Stored, GroupsOf
  <1>4. CallsOfDetail /\ PlcKept /\ FlagKept /\ GroupsKept /\ ActiveKept
    BY DEF DetailPart
  <1>5. TakenByDetail(a)
    BY <1>1, <1>4, DetailTakes
  <1>6. /\ NextCall(a) \in {None, LoadGroups(Here)}
        /\ a.ok /\ call.method \in ChangingGroups => NextCall(a) = LoadGroups(Here)
        /\ LoadGroups(Here) # None /\ LoadGroups(Here).method = "ListDbGroups"
        /\ LoadPlc(Here).method = "ListPlcs"
        /\ LoadGroups(Here) \notin Toggles(Here) /\ LoadGroups(Here) # LoadPlc(Here)
        /\ ConnectOf(Here) \in Toggles(Here) /\ DisconnectOf(Here) \in Toggles(Here)
        /\ LoadPlc(Here) \notin Toggles(Here)
    <2>1. /\ call.method \notin ChangingPlcs
          /\ call.method \in ChangingGroups => PlcOf(call) = Here
      BY <1>2, <1>4, CallsInDetail
    <2>2. LoadGroups(Here) # None
      BY CallsOfPages, NoneIsNoCall
    <2>3. /\ LoadGroups(Here).method = "ListDbGroups" /\ LoadPlc(Here).method = "ListPlcs"
          /\ \A c \in Toggles(Here) : c.method \in {"ConnectPlc", "DisconnectPlc"}
      BY <1>4, CallsInDetail
    <2> QED BY <2>1, <2>2, <2>3 DEF NextCall, Toggles
  <1>7. CallsOfDetail'
    BY <1>1, <1>3, <1>4, <1>6 DEF CallsOfDetail
  <1>8. /\ LoadOpen' <=> \E i \in Open \ {a.id} : promise[i] = LoadPlc(Here)
        /\ Toggling' => \E i \in Open \ {a.id} : promise[i] \in Toggles(Here)
    BY <1>1, <1>3, <1>6 DEF LoadOpen, Toggling
  <1>9. plc' = None => plc = None /\ call # LoadPlc(Here)
    <2>1. ASSUME call = LoadPlc(Here) PROVE plc' # None
      <3>1. call.method = "ListPlcs" /\ call.of = Here /\ Here # None
        BY <2>1, PlcsAssumption DEF LoadPlc, CallTo
      <3> QED BY <1>5, <2>1, <3>1 DEF NotFound, TakenByDetail
    <2> QED BY <1>5, <2>1, PlcsAssumption DEF TakenByDetail
  <1>10. PlcKept'
    <2>1. \A i, j \in Open' : promise'[i] = LoadPlc(Here) /\ promise'[j] = LoadPlc(Here) => i = j
      BY <1>1, <1>4, <1>6 DEF PlcKept
    <2>2. LoadOpen' => plc' = None
      <3> SUFFICES ASSUME LoadOpen' PROVE plc' = None
        OBVIOUS
      <3>1. LoadOpen /\ call # LoadPlc(Here)
        BY <1>2, <1>4, <1>8 DEF PlcKept, LoadOpen
      <3>2. plc = None /\ ~Toggling
        BY <1>4, <3>1 DEF PlcKept
      <3>3. call \notin Toggles(Here)
        BY <1>2, <3>2 DEF Toggling
      <3> QED BY <1>5, <1>6, <3>1, <3>2, <3>3 DEF TakenByDetail
    <2>3. plc' = None => ~Toggling' /\ LoadOpen'
      <3> SUFFICES ASSUME plc = None, call # LoadPlc(Here) PROVE ~Toggling' /\ LoadOpen'
        BY <1>9
      <3>1. ~Toggling /\ LoadOpen
        BY <1>4 DEF PlcKept
      <3> QED BY <1>8, <3>1 DEF Toggling, LoadOpen
    <2>4. plc' # None => Here \in Stored
      <3> SUFFICES ASSUME plc' # None PROVE Here \in Stored
        OBVIOUS
      <3>1. CASE call = LoadPlc(Here)
        BY <1>1, <1>4, <1>5, <3>1 DEF PlcKept, TakenByDetail
      <3>2. CASE call # LoadPlc(Here) /\ call \in Toggles(Here)
        <4>1. Toggling
          BY <1>2, <3>2 DEF Toggling
        <4> QED BY <1>4, <4>1 DEF PlcKept
      <3>3. CASE call # LoadPlc(Here) /\ call \notin Toggles(Here)
        BY <1>4, <1>5, <1>6, <3>3 DEF PlcKept, TakenByDetail
      <3> QED BY <3>1, <3>2, <3>3
    <2>5. \A b \in Told' : promise'[b.id] = LoadPlc(Here) /\ b.data[Here] # None => Here \in Stored
      BY <1>1, <1>4 DEF PlcKept
    <2> QED BY <1>3, <2>1, <2>2, <2>3, <2>4, <2>5 DEF PlcKept
  <1>11. FlagKept'
    <2> SUFFICES ASSUME Here \notin excused
                 PROVE  /\ \A b \in Told' : promise'[b.id] = LoadPlc(Here) /\ b.data[Here] = "on" =>
                             hub.session[Here] # None
                        /\ \A i \in Open' : promise'[i] = ConnectOf(Here) => plc' = "off"
                        /\ plc' = "on" => \/ hub.session[Here] # None
                                          \/ \E b \in Told' : b.ok /\ promise'[b.id] = DisconnectOf(Here)
      BY <1>3 DEF FlagKept
    <2>1. /\ \A b \in Told :
               promise[b.id] = LoadPlc(Here) /\ b.data[Here] = "on" => hub.session[Here] # None
          /\ \A i \in Open : promise[i] = ConnectOf(Here) => plc = "off"
          /\ plc = "on" => \/ hub.session[Here] # None
                           \/ \E b \in Told : b.ok /\ promise[b.id] = DisconnectOf(Here)
      BY <1>4 DEF FlagKept
    <2>2. ASSUME NEW i \in Open', promise'[i] = ConnectOf(Here)
          PROVE  plc' = "off"
      <3>1. i \in Open /\ i # a.id /\ promise[i] = ConnectOf(Here) /\ i \in Ids
        BY <1>1, <1>6, <2>2 DEF Open
      <3>2. plc = "off" /\ ~LoadOpen
        BY <1>4, <2>1, <3>1, PlcsAssumption DEF PlcKept
      <3>3. call # LoadPlc(Here)
        BY <1>2, <3>2 DEF LoadOpen
      <3>4. call \notin Toggles(Here)
        <4> SUFFICES ASSUME call \in Toggles(Here) PROVE FALSE
          OBVIOUS
        <4>1. About(i, Here) /\ About(a.id, Here)
          BY <1>1, <1>6, <3>1, TogglesAbout
        <4> QED BY <1>1, <3>1, <4>1 DEF OneOperation
      <3> QED BY <1>5, <1>6, <3>2, <3>3, <3>4 DEF TakenByDetail
    <2>3. ASSUME plc' = "on"
          PROVE  \/ hub.session[Here] # None
                 \/ \E b \in Told' : b.ok /\ promise'[b.id] = DisconnectOf(Here)
      <3>1. CASE call = LoadPlc(Here)
        BY <1>1, <1>5, <2>1, <2>3, <3>1 DEF TakenByDetail
      <3>2. CASE a.ok /\ call = ConnectOf(Here)
        BY <1>1, <3>2 DEF HubKept
      <3>3. CASE call # LoadPlc(Here) /\ ~(a.ok /\ call = ConnectOf(Here))
        <4>1. plc = "on" /\ ~(a.ok /\ call = DisconnectOf(Here))
          BY <1>5, <2>3, <3>3 DEF TakenByDetail
        <4> QED BY <1>1, <2>1, <4>1
      <3> QED BY <3>1, <3>2, <3>3
    <2> QED BY <1>1, <2>1, <2>2, <2>3
  <1>12. GroupsKept'
    <2>1. CASE a.ok /\ call.method \in ChangingGroups
      <3>1. [id |-> a.id, call |-> LoadGroups(Here), web |-> TRUE] \in Asking'
        BY <1>6, <2>1 DEF Settling
      <3>2. GroupsToCome'
        BY <1>6, <3>1 DEF GroupsToCome
      <3> QED BY <3>2 DEF GroupsKept
    <2>2. CASE ~(a.ok /\ call.method \in ChangingGroups) /\ GroupsToCome
      <3>1. GroupsToCome'
        BY <1>1, <2>2 DEF GroupsToCome
      <3> QED BY <3>1 DEF GroupsKept
    <2>3. CASE ~(a.ok /\ call.method \in ChangingGroups) /\ ~GroupsToCome
      <3>1. /\ \A b \in GroupLists : (\E c \in GroupLists : Later(b, c)) \/ b.data = GroupsOf(Here)
            /\ GroupLists = {} => groups = GroupsOf(Here)
        BY <1>4, <2>3 DEF GroupsKept
      <3>2. GroupLists' = GroupLists \ {a}
        BY <1>1 DEF GroupLists
      <3>3. ASSUME NEW b \in GroupLists'
            PROVE  (\E c \in GroupLists' : Later(b, c)') \/ b.data = GroupsOf(Here)
        <4>1. b \in GroupLists /\ b \in Told'
          BY <3>2 DEF GroupLists
        <4>2. CASE \E c \in GroupLists : Later(b, c)
          <5>1. PICK c \in GroupLists : Later(b, c)
            BY <4>2
          <5>2. c \in GroupLists' /\ c \in Told'
            BY <1>1, <3>2, <4>1, <5>1 DEF GroupLists
          <5> QED BY <1>1, <4>1, <5>1, <5>2
        <4> QED BY <3>1, <4>1, <4>2
      <3>4. ASSUME GroupLists' = {}
            PROVE  groups' = GroupsOf(Here)
        <4>1. CASE call.method = "ListDbGroups"
          <5>1. a \in GroupLists /\ \A c \in GroupLists : c = a
            BY <1>1, <3>2, <3>4, <4>1 DEF GroupLists
          <5>2. a.data = GroupsOf(Here)
            BY <1>1, <3>1, <5>1
          <5> QED BY <1>5, <4>1, <5>2 DEF TakenByDetail, ChangingGroups
        <4>2. CASE call.method # "ListDbGroups"
          <5>1. GroupLists = {}
            BY <3>2, <3>4, <4>2 DEF GroupLists
          <5> QED BY <1>5, <3>1, <4>2, <5>1 DEF TakenByDetail
        <4> QED BY <4>1, <4>2
      <3> QED BY <1>3, <3>3, <3>4 DEF GroupsKept
    <2> QED BY <2>1, <2>2, <2>3
  <1>13. ActiveKept'
    <2>1. \A b \in Told' : \A g : Deleted(b, g) => Deleted(b, g)'
      BY <1>1 DEF Deleted
    <2>2. GroupLists' \subseteq GroupLists /\ \A b \in GroupLists' : b \in Told' /\ b \in Told
      BY <1>1 DEF GroupLists
    <2>3. /\ activeGroup = None => groups = {} \/ \E i \in Open : promise[i] = LoadGroups(Here)
          /\ activeGroup # None => owner[activeGroup] = Here \/ \E b \in Told : Deleted(b, activeGroup)
          /\ ~loading => \A g \in groups : owner[g] = Here \/ \E b \in Told : Deleted(b, g)
          /\ \A b \in GroupLists : \A g \in b.data :
               owner[g] = Here \/ \E c \in Told : Later(b, c) /\ Deleted(c, g)
      BY <1>4 DEF ActiveKept
    <2>4. ASSUME NEW b \in GroupLists', NEW g \in b.data
          PROVE  owner[g] = Here \/ \E c \in Told' : Later(b, c)' /\ Deleted(c, g)'
      BY <1>1, <2>1, <2>2, <2>3, <2>4
    <2>5. /\ activeGroup' = None => groups' = {} \/ \E i \in Open' : promise'[i] = LoadGroups(Here)
          /\ activeGroup' # None =>
               owner[activeGroup'] = Here \/ \E b \in Told' : Deleted(b, activeGroup)'
          /\ ~loading' => \A g \in groups' : owner[g] = Here \/ \E b \in Told' : Deleted(b, g)'
      <3>1. CASE /\ call.method = "ListDbGroups" /\ groups' = a.data
                 /\ \/ activeGroup' \in groups' /\ activeGroup = None
                    \/ activeGroup' = activeGroup /\ (activeGroup # None \/ groups' = {})
        <4>1. a \in GroupLists /\ groups' \subseteq Groups
          BY <1>1, <3>1 DEF GroupLists, Fits
        <4>2. activeGroup' = None => groups' = {}
          BY <3>1, <4>1, PlcsAssumption
        <4>3. \A g \in groups' : owner[g] = Here \/ \E b \in Told' : Deleted(b, g)'
          BY <1>1, <2>1, <2>3, <3>1, <4>1
        <4>4. \A g : ~Deleted(a, g)
          BY <3>1 DEF Deleted
        <4>5. activeGroup # None =>
                owner[activeGroup] = Here \/ \E b \in Told' : Deleted(b, activeGroup)
          BY <1>1, <2>3, <4>4
        <4>6. activeGroup' # None =>
                owner[activeGroup'] = Here \/ \E b \in Told' : Deleted(b, activeGroup)'
          <5>1. CASE activeGroup' \in groups'
            BY <4>3, <5>1 DEF Deleted
          <5>2. CASE activeGroup' = activeGroup
            BY <1>1, <4>5, <5>2 DEF Deleted
          <5> QED BY <3>1, <5>1, <5>2
        <4> QED BY <4>2, <4>3, <4>6
      <3>2. CASE /\ call.method \in ChangingGroups /\ a.ok /\ groups' = groups /\ loading' = TRUE
                 /\ activeGroup' = None \/ (activeGroup' = activeGroup /\ ~Deleted(a, activeGroup))
        <4>1. a.id \in Open' /\ promise'[a.id] = LoadGroups(Here)
          BY <1>1, <1>6, <3>2
        <4>2. activeGroup' # None =>
                owner[activeGroup'] = Here \/ \E b \in Told' : Deleted(b, activeGroup)'
          BY <1>1, <2>3, <3>2 DEF Deleted
        <4> QED BY <3>2, <4>1, <4>2
      <3>3. CASE /\ call.method # "ListDbGroups" /\ ~(call.method \in ChangingGroups /\ a.ok)
                 /\ UNCHANGED <<loading, groups, activeGroup>>
        <4>1. \A g : ~Deleted(a, g)
          BY <3>3 DEF Deleted, ChangingGroups
        <4>2. \A i \in Open : promise[i] = LoadGroups(Here) => i \in Open' /\ promise'[i] = LoadGroups(Here)
          BY <1>1, <1>6, <3>3
        <4>3. activeGroup' # None =>
                owner[activeGroup'] = Here \/ \E b \in Told' : Deleted(b, activeGroup)'
          BY <1>1, <2>3, <3>3, <4>1 DEF Deleted
        <4>4. ~loading' => \A g \in groups' : owner[g] = Here \/ \E b \in Told' : Deleted(b, g)'
          BY <1>1, <2>1, <2>3, <3>3, <4>1
        <4> QED BY <2>3, <3>3, <4>2, <4>3, <4>4
      <3> QED BY <1>5, <3>1, <3>2, <3>3 DEF TakenByDetail
    <2> QED BY <1>3, <2>4, <2>5 DEF ActiveKept
  <1> QED BY <1>7, <1>10, <1>11, <1>12, <1>13 DEF DetailPart

-----------------------------------------------------------------------------
(* An answer arrives, on whatever page. *)

(* A page that has been left is answered too, and goes to the list if its PLC is not found. *)
LEMMA PushingKeeps ==
  ASSUME Kept, ShownTypeOK, NEW a, Arrives(a), PushList(a), UNCHANGED plcVars
  PROVE  Kept' /\ ShownTypeOK'
  <1>1. Wires(CallsMade, Data) /\ Fits /\ Runs
    BY DEF Kept, PageKept
  <1>2. LoadPlcs \in CallsMade /\ LoadPlcs # None
    BY CallsOfPages, NoneIsNoCall
  <1>3. /\ page' = Page("list", None) /\ loading' = (Follow(a, LoadPlcs) # <<>>) /\ dialog' = Closed
        /\ orphans' = Open \ {a.id} /\ clean' = (Open \subseteq {a.id})
        /\ Turn({a.id}, Follow(a, LoadPlcs)) /\ FreshPage
    BY DEF PushList, Navigate
  <1>4. Settling(a, LoadPlcs)
    <2>1. Turn({a.id}, IF LoadPlcs = None THEN <<>> ELSE Follow(a, LoadPlcs))
      BY <1>2, <1>3
    <2> QED BY <1>1, <1>2, <2>1, AnswerSettles
  <1>5. /\ Wires(CallsMade, Data)' /\ Told' = Told \ {a} /\ running' = running
        /\ promise'[a.id] = LoadPlcs
        /\ \A x \in Asking \cup running \cup Told' : x.id # a.id /\ promise'[x.id] = promise[x.id]
        /\ Open' = Open /\ [id |-> a.id, call |-> LoadPlcs, web |-> TRUE] \in Asking'
    BY <1>2, <1>4 DEF Settling
  <1>6. clean' => orphans' = {} /\ running = {} /\ Told' = {}
    <2>1. \A x \in running \cup Told' : x.id \in Open /\ x.id # a.id
      BY <1>1, <1>5, Opened
    <2> QED BY <1>3, <2>1
  <1>7. clean' => \A i \in Open' : promise'[i] = LoadPlcs
    BY <1>3, <1>5
  <1>8. LoadPlcs.method = "ListPlcs"
    BY DEF LoadPlcs, CallTo
  <1>9. At("list")' /\ ~At("detail")'
    BY <1>3 DEF At, Page
  <1>10. \E x \in Asking' : x.call = LoadPlcs
    BY <1>5
  <1>11. \A b \in Told' : b \in Told /\ promise'[b.id] = promise[b.id]
    BY <1>5
  <1>12. step' = step
    BY DEF plcVars
  <1>13. PageKept'
    BY <1>1, <1>3, <1>5, <1>6, <1>7, <1>8, <1>9, <1>10, <1>11, <1>12, FreshKeeps
  <1>14. ShownTypeOK'
    <2>1. (Follow(a, LoadPlcs) # <<>>) \in BOOLEAN /\ (Open \subseteq {a.id}) \in BOOLEAN /\ Open \subseteq Ids
      BY DEF Open
    <2>2. ListTypeOK' /\ DetailTypeOK' /\ excused' \subseteq PlcNames
      BY <1>3 DEF FreshPage, ListTypeOK, DetailTypeOK, NoRows
    <2> QED BY <1>3, <2>1, <2>2 DEF ShownTypeOK
  <1> QED BY <1>5, <1>13, <1>14 DEF Kept

LEMMA TakenTypes ==
  ASSUME ShownTypeOK, Fits, NEW a \in Told, promise[a.id] \in CallsMade,
         ListContinue(a, promise[a.id]) \/ (At("detail") /\ DetailContinue(a, promise[a.id]))
  PROVE  /\ loading' \in BOOLEAN /\ dialog' \in {dialog, Closed}
         /\ ListContinue(a, promise[a.id]) /\ UNCHANGED detailVars => ListTypeOK' /\ DetailTypeOK'
         /\ At("detail") /\ DetailContinue(a, promise[a.id]) /\ UNCHANGED listVars =>
              ListTypeOK' /\ DetailTypeOK'
  <1> DEFINE call == promise[a.id]
  <1>1. /\ loading \in BOOLEAN
        /\ rows \in [PlcNames -> {None, "on", "off"}] /\ held \subseteq Ids /\ unseen \subseteq PlcNames
        /\ plc \in {None, "on", "off"} /\ groups \subseteq Groups /\ activeGroup \in Groups \cup {None}
        /\ At("detail") => Here \in PlcNames
    BY PageFacts DEF ShownTypeOK, ListTypeOK, DetailTypeOK
  <1>2. /\ call.method = "ListPlcs" => a.data \in Flags
        /\ call.method = "ListDbGroups" => a.data \subseteq Groups
        /\ LoadPlcs.method = "ListPlcs"
    BY DEF Fits, LoadPlcs, CallTo
  <1>3. call.method \in {"AddPlc", "ConnectPlc", "DisconnectPlc"} => call.of \in PlcNames
    BY CallForms DEF Ops
  <1>4. ASSUME ListContinue(a, call)
        PROVE  /\ loading' \in BOOLEAN /\ dialog' \in {dialog, Closed} /\ ListTypeOK'
    <2>1. CASE call = LoadPlcs /\ PlcsLoaded(a)
      BY <1>1, <1>2, <2>1 DEF PlcsLoaded, ListTypeOK, Flags
    <2>2. ASSUME NEW flag \in {"on", "off"}, call.of \in PlcNames, RowFlagged(a, call, flag)
          PROVE  /\ loading' \in BOOLEAN /\ dialog' \in {dialog, Closed} /\ ListTypeOK'
      BY <1>1, <2>2 DEF RowFlagged, ListTypeOK
    <2>3. CASE PlcsChanged(a, call)
      BY <1>1, <1>3, <2>3 DEF PlcsChanged, ListTypeOK, listVars
    <2> QED BY <1>3, <1>4, <2>1, <2>2, <2>3 DEF ListContinue
  <1>5. ASSUME At("detail"), DetailContinue(a, call)
        PROVE  /\ loading' \in BOOLEAN /\ dialog' \in {dialog, Closed} /\ DetailTypeOK'
    <2>1. CASE call.method = "ListPlcs" /\ PlcLoaded(a)
      BY <1>1, <1>2, <1>5, <2>1 DEF PlcLoaded, DetailTypeOK, Flags, Here
    <2>2. CASE call.method = "ListDbGroups" /\ GroupsLoaded(a)
      BY <1>1, <1>2, <2>2 DEF GroupsLoaded, DetailTypeOK
    <2>3. CASE PlcFlagged(a, "on") \/ PlcFlagged(a, "off")
      BY <1>1, <2>3 DEF PlcFlagged, DetailTypeOK
    <2>4. CASE GroupsChanged(a, call)
      BY <1>1, <2>4 DEF GroupsChanged, DetailTypeOK, detailVars
    <2> QED BY <1>5, <2>1, <2>2, <2>3, <2>4 DEF DetailContinue
  <1>6. UNCHANGED detailVars => DetailTypeOK'
    BY <1>1 DEF detailVars, DetailTypeOK
  <1>7. UNCHANGED listVars => ListTypeOK'
    BY <1>1 DEF listVars, ListTypeOK
  <1> QED BY <1>4, <1>5, <1>6, <1>7

LEMMA AnswerKeeps ==
  ASSUME Kept, ShownTypeOK, NEW a, Continue(a)
  PROVE  Kept' /\ ShownTypeOK' /\ UNCHANGED plcVars
  <1> DEFINE call == promise[a.id]
  <1>1. Arrives(a) /\ UNCHANGED plcVars
    BY DEF Continue
  <1>2. Wires(CallsMade, Data) /\ PageKept
    BY DEF Kept
  <1>3. CASE NotFound(a, call) /\ ~At("list")
    BY <1>1, <1>3, PushingKeeps DEF Continue
  <1>4. CASE ~(NotFound(a, call) /\ ~At("list"))
    <2>1. /\ Settled(a, Following(a, call))
          /\ excused' = IF RowIsGone(a, call) THEN excused \cup {call.of} ELSE excused
          /\ IF a.id \in orphans \/ NotFound(a, call)
             THEN UNCHANGED <<loading, dialog, listVars, detailVars>>
             ELSE \/ At("list") /\ ListContinue(a, call) /\ UNCHANGED detailVars
                  \/ At("detail") /\ DetailContinue(a, call) /\ UNCHANGED listVars
      BY <1>4 DEF Continue
    <2>2. a \in Told /\ call \in CallsMade /\ a.ok \in BOOLEAN
      <3>1. a \in Told
        BY <1>1, <1>2, LaterTail DEF Arrives, Wires
      <3> QED BY <1>2, <3>1, Opened
    <2>3. /\ Turn({a.id}, IF NextCall(a) = None THEN <<>> ELSE Follow(a, NextCall(a)))
          /\ UNCHANGED <<page, clean>> /\ orphans' \in {orphans, orphans \ {a.id}}
          /\ NextCall(a) \in CallsMade \cup {None}
          /\ NextCall(a) # None => NextCall(a).method \notin Ops
      BY <2>1, <2>2, FollowingIs DEF Settled
    <2>4. Settling(a, NextCall(a))
      BY <1>1, <1>2, <2>3, AnswerSettles
    <2>5. /\ Here' = Here /\ UNCHANGED <<plcs, hub, owner, step>>
          /\ excused \subseteq excused' /\ excused' \subseteq PlcNames
          /\ ~At("list") => excused' = excused
      <3>1. call.method \in {"ConnectPlc", "DisconnectPlc"} => call.of \in PlcNames
        BY <2>2, CallForms DEF Ops
      <3>2. excused \subseteq PlcNames
        BY DEF ShownTypeOK
      <3> QED BY <1>1, <2>1, <2>3, <3>1, <3>2 DEF RowIsGone, plcVars, Here
    <2>6. /\ loading' \in BOOLEAN /\ dialog' \in {dialog, Closed} /\ ListTypeOK' /\ DetailTypeOK'
          /\ ~At("list") => UNCHANGED listVars
          /\ ~At("detail") => UNCHANGED detailVars
      <3>1. Fits
        BY <1>2 DEF PageKept
      <3>2. CASE UNCHANGED <<loading, dialog, listVars, detailVars>>
        BY <3>2 DEF ShownTypeOK, ListTypeOK, DetailTypeOK, listVars, detailVars
      <3>3. CASE At("list") /\ ListContinue(a, call) /\ UNCHANGED detailVars
        BY <2>2, <3>1, <3>3, TakenTypes
      <3>4. CASE At("detail") /\ DetailContinue(a, call) /\ UNCHANGED listVars
        BY <2>2, <3>1, <3>4, TakenTypes
      <3> QED BY <2>1, <3>2, <3>3, <3>4
    <2>7. ShownTypeOK'
      BY <2>3, <2>5, <2>6 DEF ShownTypeOK
    <2>8. Fits' /\ Runs'
      BY <1>2, <2>4, <2>5 DEF PageKept, Fits, Runs, Settling
    <2>9. DialogOfPage'
      BY <1>2, <2>3, <2>6 DEF PageKept, DialogOfPage, At, Closed
    <2>10. (~At("list")' => rows' = NoRows) /\ (~At("detail")' => plc' = None)
      BY <1>2, <2>3, <2>6 DEF PageKept, At, listVars, detailVars
    <2>11. clean' => orphans' = {} /\ OneOperation' /\ HubKept'
      <3> SUFFICES ASSUME clean PROVE orphans' = {} /\ OneOperation' /\ HubKept'
        BY <2>3
      <3>1. orphans = {} /\ OneOperation /\ HubKept
        BY <1>2 DEF PageKept
      <3> QED BY <1>2, <2>3, <2>4, <2>5, <3>1, HubSettled
    <2>12. clean' /\ At("list")' => ListPart'
      <3> SUFFICES ASSUME clean, At("list") PROVE ListPart'
        BY <2>3 DEF At
      <3>1. orphans = {} /\ OneOperation /\ HubKept /\ ListPart /\ ListTypeOK
        BY <1>2 DEF PageKept, ShownTypeOK
      <3>2. ~NotFound(a, call)
        <4>1. call = LoadPlcs \/ call.method \in Ops
          BY <1>2, <2>2, <3>1, CallsInList DEF ListPart
        <4> QED BY <4>1 DEF NotFound, LoadPlcs, CallTo, Ops
      <3>3. ListContinue(a, call)
        BY <2>1, <3>1, <3>2 DEF At
      <3>4. \A n \in PlcNames : a.id \notin held /\ call \in Toggles(n) => n \in excused'
        <4> SUFFICES ASSUME NEW n \in PlcNames, a.id \notin held, call \in Toggles(n)
                     PROVE  n \in excused'
          OBVIOUS
        <4>1. call.method \in {"ConnectPlc", "DisconnectPlc"} /\ call.of = n
          BY <2>2, CallIs
        <4> QED BY <2>1, <3>1, <4>1 DEF RowIsGone
      <3> QED BY <1>2, <2>4, <2>5, <3>1, <3>3, <3>4, ListContinues
    <2>13. clean' /\ At("detail")' => DetailPart'
      <3> SUFFICES ASSUME clean, At("detail") PROVE DetailPart'
        BY <2>3 DEF At
      <3>1. orphans = {} /\ OneOperation /\ HubKept /\ DetailPart /\ Fits /\ ~At("list")
        BY <1>2 DEF PageKept, At
      <3>2. ~NotFound(a, call) /\ DetailContinue(a, call)
        BY <1>4, <2>1, <3>1
      <3>3. DetailTypeOK /\ Here \in PlcNames
        BY PageFacts DEF ShownTypeOK
      <3> QED BY <1>2, <2>3, <2>4, <2>5, <3>1, <3>2, <3>3, DetailContinues
    <2>14. Wires(CallsMade, Data)'
      BY <2>4 DEF Settling
    <2>15. Kept'
      BY <2>8, <2>9, <2>10, <2>11, <2>12, <2>13, <2>14 DEF Kept, PageKept
    <2> QED BY <1>1, <2>7, <2>15
  <1> QED BY <1>3, <1>4

-----------------------------------------------------------------------------
(* The invariant *)

IInv == Kept /\ ShownTypeOK /\ PlcTypeOK

LEMMA InitIInv == Init => IInv
  <1> SUFFICES ASSUME Init PROVE IInv
    OBVIOUS
  <1>1. Wires(CallsMade, Data) /\ Asking = {} /\ Told = {} /\ running = {}
    BY WiresInit DEF Init
  <1>2. /\ page = Main /\ loading = FALSE /\ dialog = Closed /\ orphans = {} /\ clean = FALSE
        /\ rows = NoRows /\ held = {} /\ unseen = {}
        /\ plc = None /\ groups = {} /\ activeGroup = None /\ excused = {}
    BY DEF Init, ShellInit, ListInit, DetailInit
  <1>3. PageKept
    BY <1>1, <1>2 DEF PageKept, Fits, Runs, DialogOfPage, Closed
  <1>4. ShownTypeOK
    BY <1>2 DEF ShownTypeOK, ListTypeOK, DetailTypeOK, NoRows
  <1>5. PlcTypeOK
    BY PlcsAssumption DEF Init, PlcInit, PlcTypeOK
  <1> QED BY <1>1, <1>3, <1>4, <1>5 DEF IInv, Kept

LEMMA NextIInv == IInv /\ [Next]_vars => IInv'
  <1> SUFFICES ASSUME IInv, [Next]_vars PROVE IInv'
    OBVIOUS
  <1>1. Kept /\ ShownTypeOK /\ PlcTypeOK /\ DetailTypeOK /\ (At("detail") => Here \in PlcNames)
    BY PageFacts DEF IInv, ShownTypeOK
  <1>2. UNCHANGED plcVars => PlcTypeOK'
    BY <1>1 DEF plcVars, PlcTypeOK
  <1>3. UNCHANGED Pages => ShownTypeOK'
    BY <1>1 DEF Pages, shellVars, listVars, detailVars, ShownTypeOK, ListTypeOK, DetailTypeOK
  <1>4. CASE UserStep
    BY <1>1, <1>2, <1>4, UserKeeps DEF IInv
  <1>5. CASE Answering
    BY <1>1, <1>2, <1>5, AnswerKeeps DEF IInv, Answering
  <1>6. ASSUME NEW m, UNCHANGED Pages,
               \/ m \in Asking /\ \E used : PlcHandle(m, used)
               \/ m \in running /\ PlcFinish(m)
        PROVE  IInv'
    <2>1. Wires(CallsMade, Data) /\ Runs
      BY <1>1 DEF Kept, PageKept
    <2>2. PlcTypeOK' /\ ((Waiting(m) /\ Awaited(m)) \/ \E e : Telling(m, e) /\ Answered(m, e))
      BY <1>1, <1>6, <2>1, HostStep
    <2>3. Kept'
      BY <1>1, <1>6, <2>2, HostKeeps
    <2> QED BY <1>3, <1>6, <2>2, <2>3 DEF IInv
  <1>7. CASE Handling
    <2>1. PICK m \in Asking : Handle(m)
      BY <1>7 DEF Handling, Asking, Messages
    <2> QED BY <1>6, <2>1 DEF Handle
  <1>8. CASE Finishing
    BY <1>6, <1>8 DEF Finishing
  <1>9. ASSUME UNCHANGED Pages, UNCHANGED <<bridgeVars, plcs, owner, step, kept>>,
               \/ UNCHANGED hub
               \/ \E n \in PlcNames : /\ hub.engine[n] = "running"
                                      /\ hub' = [hub EXCEPT !.session[n] = "scanned"]
        PROVE  IInv'
    <2>1. UNCHANGED <<page, clean, orphans, loading, dialog, rows, held, unseen, plc, groups,
                      activeGroup, excused>>
      BY <1>9 DEF Pages, shellVars, listVars, detailVars
    <2>2. /\ PlcTypeOK'
          /\ \A n \in PlcNames : /\ hub.session[n] # None => hub'.session[n] # None
                                 /\ hub.engine[n] = "starting" =>
                                      hub'.session[n] = hub.session[n] /\ hub'.engine[n] = "starting"
      BY <1>1, <1>9, PlcsAssumption DEF PlcTypeOK
    <2>3. DialogOfPage'
      BY <1>1, <2>1 DEF Kept, PageKept, DialogOfPage, At
    <2>4. Kept'
      BY <1>1, <1>9, <2>1, <2>2, <2>3, StillKeeps
    <2> QED BY <1>3, <1>9, <2>2, <2>4 DEF IInv
  <1>10. CASE Scanning
    BY <1>9, <1>10 DEF Scanning, FirstScan
  <1>11. CASE UNCHANGED vars
    <2>1. UNCHANGED Pages /\ UNCHANGED <<bridgeVars, plcs, owner, step, kept>> /\ UNCHANGED hub
      BY <1>11 DEF vars, Pages, plcVars
    <2> QED BY <1>9, <2>1
  <1> QED BY <1>4, <1>5, <1>7, <1>8, <1>10, <1>11 DEF Next

THEOREM Invariant == Spec => []IInv
  BY InitIInv, NextIInv, PTL DEF Spec

-----------------------------------------------------------------------------
(* What it implies *)

LEMMA QuietFacts ==
  ASSUME IInv, Quiet
  PROVE  Open = {} /\ Asking = {} /\ Told = {} /\ running = {}
  BY Opened DEF Quiet, IInv, Kept

(* The pages, the bridge and what PlcManager keeps have their types. *)
THEOREM Types == Spec => []TypeOK
  <1>1. IInv => TypeOK
    <2> SUFFICES ASSUME IInv PROVE TypeOK
      OBVIOUS
    <2>1. promise \in [Ids -> CallsMade \cup {None}]
      BY DEF IInv, Kept, Wires
    <2>2. toNative \in Seq(Requests) /\ running \subseteq Requests
      BY DEF IInv, Kept, Wires, Posts, Requests
    <2> QED BY <2>1, <2>2 DEF TypeOK, IInv, ShownTypeOK
  <1> QED BY <1>1, Invariant, PTL

(***************************************************************************)
(* When nothing is on its way, the list has the PLCs that are stored, but   *)
(* for those whose AddPlc was reported as failed, whatever the number of   *)
(* changes and loads that overlapped (PlcListView.vue, PlcManager.cs).     *)
(***************************************************************************)
THEOREM Complete == Spec => []ListIsComplete
  <1>1. IInv => ListIsComplete
    <2> SUFFICES ASSUME IInv, clean, At("list"), Quiet
                 PROVE  Shown \subseteq Stored /\ Stored \ unseen \subseteq Shown
      BY DEF ListIsComplete
    <2>1. ListKept /\ Asking = {} /\ Told = {} /\ running = {}
      BY QuietFacts DEF IInv, Kept, PageKept, ListPart
    <2>2. ListShown
      BY <2>1 DEF ListKept, ListToCome, Lists
    <2> QED BY <2>1, <2>2 DEF ListShown, Added, Shown, Stored
  <1> QED BY <1>1, Invariant, PTL

(***************************************************************************)
(* When nothing is on its way, the page of a PLC is about one that is      *)
(* stored, lists its groups, and has one of them active if there is any,   *)
(* whatever was clicked while groups were changed (PlcDetailView.vue).     *)
(***************************************************************************)
THEOREM DetailCurrent == Spec => []DetailIsCurrent
  <1>1. IInv => DetailIsCurrent
    <2> SUFFICES ASSUME IInv, clean, At("detail"), Quiet
                 PROVE  /\ Here \in Stored /\ plc # None
                        /\ groups = GroupsOf(Here)
                        /\ activeGroup \in groups \/ (activeGroup = None /\ groups = {})
      BY DEF DetailIsCurrent, Here
    <2>1. /\ PlcKept /\ GroupsKept /\ ActiveKept /\ DetailTypeOK
          /\ Open = {} /\ Asking = {} /\ Told = {}
      BY QuietFacts DEF IInv, Kept, PageKept, DetailPart, ShownTypeOK
    <2>2. plc # None /\ Here \in Stored
      BY <2>1 DEF PlcKept, LoadOpen
    <2>3. groups = GroupsOf(Here)
      BY <2>1 DEF GroupsKept, GroupsToCome, GroupLists
    <2>4. activeGroup = None => groups = {}
      BY <2>1 DEF ActiveKept
    <2>5. activeGroup # None => activeGroup \in GroupsOf(Here)
      BY <2>1 DEF ActiveKept, DetailTypeOK, GroupsOf
    <2> QED BY <2>2, <2>3, <2>4, <2>5
  <1> QED BY <1>1, Invariant, PTL

(***************************************************************************)
(* A PLC that is shown as connected when nothing is on its way has a       *)
(* session, unless two operations on it overlapped or its row was replaced *)
(* while one was open (PlcHub.cs; PlcListView.vue, PlcDetailView.vue).     *)
(***************************************************************************)
THEOREM ShownHasSession == Spec => []ShownConnectedHasSession
  <1>1. IInv => ShownConnectedHasSession
    <2> SUFFICES ASSUME IInv, clean, Quiet
                 PROVE  /\ \A n \in PlcNames \ excused : rows[n] = "on" => hub.session[n] # None
                        /\ plc = "on" /\ Here \notin excused => hub.session[Here] # None
      BY DEF ShownConnectedHasSession, Here
    <2>1. PageKept /\ Open = {} /\ Asking = {} /\ Told = {} /\ running = {}
      BY QuietFacts DEF IInv, Kept
    <2>2. ASSUME NEW n \in PlcNames \ excused, rows[n] = "on"
          PROVE  hub.session[n] # None
      <3>1. At("list")
        BY <2>1, <2>2, PlcsAssumption DEF PageKept, NoRows
      <3>2. FlagsKept /\ ~ListToCome /\ Lists = {}
        BY <2>1, <3>1 DEF PageKept, ListPart, ListToCome, Lists
      <3> QED BY <2>1, <2>2, <3>2 DEF FlagsKept, OnShown, Connects
    <2>3. ASSUME plc = "on", Here \notin excused
          PROVE  hub.session[Here] # None
      <3>1. At("detail")
        BY <2>1, <2>3, PlcsAssumption DEF PageKept
      <3> QED BY <2>1, <2>3, <3>1 DEF PageKept, DetailPart, FlagKept
    <2> QED BY <2>2, <2>3
  <1> QED BY <1>1, Invariant, PTL
=============================================================================
