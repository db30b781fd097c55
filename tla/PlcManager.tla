----------------------------- MODULE PlcManager -----------------------------
(***************************************************************************)
(* PlcManager, the groups of PlcDataService, and PlcHub below them: what   *)
(* the pages about PLCs call. A PLC is known by its name in three places   *)
(* that no lock holds together: the stored configurations, the sessions    *)
(* and the engines of the hub.                                             *)
(*                                                                         *)
(* A name of a group, an address or an option is not told apart from       *)
(* another. No client's DisconnectAsync throws, so neither does StopAsync. *)
(***************************************************************************)
EXTENDS AppShell

CONSTANTS
  PlcNames,   \* names of PLCs
  Groups      \* ids of DB groups, used again when nothing refers to the old one

ASSUME PlcsAssumption ==
  None \notin PlcNames \cup Groups
               \cup {"on", "off", "fresh", "scanned", "starting", "running", "stopping"}

VARIABLES
  plcs,      \* _store: the IsConnected of each PLC that is stored, "on" or "off"
  owner,     \* _store: the PLC's name in each group that is stored
  hub,       \* PlcHub, by name: the session, which is "fresh" until a first scan has filled the
             \* mirror, the engine, "starting" while StartAsync connects, and who awaits that
  step,      \* what each running request awaits: StopAsync or StartAsync
  kept       \* running UpdatePlc requests whose newConfig is still the stored object

plcVars == <<plcs, owner, hub, step, kept>>

PlcInit ==
  /\ plcs \in [PlcNames -> {None, "off"}]
  /\ owner \in [Groups -> {None} \cup {n \in PlcNames : plcs[n] # None}]
  /\ hub = [session |-> [n \in PlcNames |-> None], engine |-> [n \in PlcNames |-> None],
            starter |-> [n \in PlcNames |-> None]]
  /\ step = [i \in Ids |-> None] /\ kept = {}

PlcTypeOK ==
  /\ plcs \in [PlcNames -> {None, "on", "off"}] /\ owner \in [Groups -> PlcNames \cup {None}]
  /\ hub \in [session : [PlcNames -> {None, "fresh", "scanned"}],
              engine : [PlcNames -> {None, "starting", "running"}],
              starter : [PlcNames -> Ids \cup {None}]]
  /\ step \in [Ids -> {None, "stopping", "starting"}] /\ kept \subseteq Ids

Done(data) == [ok |-> TRUE, data |-> data]
Refused == [ok |-> FALSE, data |-> None]

(* A method that has awaited nothing yet answers in the turn that received it. *)
Answer(m, result) == IF m \in running THEN FinishInvoke(m, result) ELSE HandleInvoke(m, result)
Await(m) == IF m \in running THEN UNCHANGED bridgeVars ELSE BeginInvoke(m)

-----------------------------------------------------------------------------
(* ListPlcs asks the hub, and writes what it finds into the objects of the store. *)
Connected(n) == IF hub.session[n] = "scanned" THEN "on" ELSE "off"
Listed == [n \in PlcNames |-> IF plcs[n] = None THEN None ELSE Connected(n)]

ListPlcs(m) ==
  /\ m.call.method = "ListPlcs"
  /\ HandleInvoke(m, Done(Listed)) /\ plcs' = Listed
  /\ UNCHANGED <<owner, hub, step, kept>>

GroupsOf(n) == {g \in Groups : owner[g] = n}

ListDbGroups(m) ==
  /\ m.call.method = "ListDbGroups"
  /\ HandleInvoke(m, Done(GroupsOf(m.call.of))) /\ UNCHANGED plcVars

(* The store takes a group of a PLC it does not know. Refused is a name the PLC has already. *)
(* A Guid is new: the ids that something still refers to, `used`, are not given again.       *)
CreateDbGroup(m, used) ==
  LET free == {g \in Groups \ used : owner[g] = None}
  IN /\ m.call.method = "CreateDbGroup"
     /\ \/ /\ GroupsOf(m.call.of) # {} \/ free = {}  \* bound: no id is left
           /\ HandleInvoke(m, Refused) /\ UNCHANGED owner
        \/ \E g \in free :
             owner' = [owner EXCEPT ![g] = m.call.of] /\ HandleInvoke(m, Done(None))
     /\ UNCHANGED <<plcs, hub, step, kept>>

(* Whether there was such a group is answered, too, and the page does not look at it. *)
DeleteDbGroup(m) ==
  /\ m.call.method = "DeleteDbGroup"
  /\ owner' = [owner EXCEPT ![m.call.of] = None]
  /\ HandleInvoke(m, Done(None))
  /\ UNCHANGED <<plcs, hub, step, kept>>

RenameDbGroup(m) ==
  /\ m.call.method = "RenameDbGroup"
  /\ LET p == owner[m.call.of]
     IN \/ /\ p # None
           /\ HandleInvoke(m, Done(None))
        \/ /\ p = None \/ GroupsOf(p) # {m.call.of}
           /\ HandleInvoke(m, Refused)
  /\ UNCHANGED plcVars

-----------------------------------------------------------------------------
(* PlcHub. *)

(***************************************************************************)
(* The methods below are told apart by what they do after an await, so each *)
(* step names the hub `h` and the stored flags `p` that it goes on from.   *)
(***************************************************************************)
Target(m) == IF m.call.method = "UpdatePlc" THEN m.call.arg ELSE m.call.of
Flag(p, n, flag) == [p EXCEPT ![n] = IF @ = None THEN None ELSE flag]

(* UpdatePlcConnection looks the name up again; UpdatePlc writes to the object it has stored. *)
Flagged(m, p, flag) ==
  IF m.call.method = "UpdatePlc" /\ m \in running /\ m.id \notin kept
  THEN p ELSE Flag(p, Target(m), flag)

(* The catch blocks: UpdatePlc reports a failed reconnection as a success. *)
Failed(m) == IF m.call.method = "UpdatePlc" THEN Done(None) ELSE Refused

Ends(m, h, result) ==
  /\ hub' = h /\ step' = [step EXCEPT ![m.id] = None]
  /\ Answer(m, result)

(* AddPlcAsync: TryAdd of the session, then StartAsync, which awaits the device. *)
AddToHub(m, h, p) ==
  LET n == Target(m)
  IN \/ /\ h.session[n] # None
        /\ plcs' = Flagged(m, p, "off") /\ Ends(m, h, Failed(m))
     \/ /\ h.session[n] = None
        /\ hub' = [h EXCEPT !.session[n] = "fresh", !.engine[n] = "starting", !.starter[n] = m.id]
        /\ step' = [step EXCEPT ![m.id] = "starting"]
        /\ plcs' = p /\ Await(m)

(* UpdatePlc and RemovePlc take the stored object of a name away. *)
KeptWithout(n) == {i \in kept : \E m \in running : m.id = i /\ m.call.arg # n}

(* What follows RemovePlcAsync, which `found` an engine to stop or threw KeyNotFoundException. *)
AfterStop(m, h, p, found) ==
  \/ /\ m.call.method = "RemovePlc"
     /\ kept' = KeptWithout(m.call.of)
     /\ plcs' = [p EXCEPT ![m.call.of] = None]
     /\ owner' = [g \in Groups |-> IF owner[g] = m.call.of THEN None ELSE owner[g]]
     /\ Ends(m, h, Done(None))
  \/ /\ m.call.method = "DisconnectPlc"
     /\ plcs' = IF found THEN Flag(p, m.call.of, "off") ELSE p
     /\ Ends(m, h, IF found THEN Done(None) ELSE Refused)
     /\ UNCHANGED <<owner, kept>>
  \/ /\ m.call.method = "ConnectPlc"
     /\ AddToHub(m, h, p) /\ UNCHANGED <<owner, kept>>

UpdateAfterStop(m, h, p, found) ==
  /\ m.call.method = "UpdatePlc"
  /\ IF found THEN AddToHub(m, h, p)
     ELSE plcs' = Flagged(m, p, "off") /\ Ends(m, h, Done(None))

(* RemovePlcAsync of n: an engine that is not running yet stops at once, and is forgotten. *)
Forgotten(n) == [hub EXCEPT !.session[n] = None, !.engine[n] = None, !.starter[n] = None]
AwaitStop(m, n, p) ==
  /\ hub.engine[n] = "running" /\ hub' = [hub EXCEPT !.engine[n] = None]
  /\ step' = [step EXCEPT ![m.id] = "stopping"] /\ plcs' = p
  /\ Await(m)

-----------------------------------------------------------------------------
(* The store refuses a name it has; a PLC that cannot be reached stays stored. *)
AddPlc(m) ==
  /\ m.call.method = "AddPlc"
  /\ \/ /\ plcs[m.call.of] # None
        /\ HandleInvoke(m, Refused) /\ UNCHANGED <<plcs, hub, step>>
     \/ /\ plcs[m.call.of] = None
        /\ AddToHub(m, hub, [plcs EXCEPT ![m.call.of] = "off"])
  /\ UNCHANGED <<owner, kept>>

StopPlc(m) ==
  LET n == m.call.of
  IN /\ m.call.method \in {"RemovePlc", "DisconnectPlc", "ConnectPlc"}
     /\ m.call.method = "ConnectPlc" => plcs[n] # None
     /\ \/ /\ AwaitStop(m, n, plcs)
           /\ UNCHANGED <<owner, kept>>
        \/ /\ hub.engine[n] = "starting"
           /\ AfterStop(m, Forgotten(n), plcs, TRUE)
        \/ /\ hub.engine[n] = None
           /\ AfterStop(m, hub, plcs, FALSE)

ConnectUnknownPlc(m) ==
  /\ m.call.method = "ConnectPlc" /\ plcs[m.call.of] = None
  /\ HandleInvoke(m, Refused) /\ UNCHANGED plcVars

UpdatePlc(m) ==
  LET n == m.call.of  new == m.call.arg
      p == [plcs EXCEPT ![n] = None, ![new] = plcs[n]]
  IN /\ m.call.method = "UpdatePlc"
     /\ \/ /\ plcs[n] = None \/ (new # n /\ plcs[new] # None)
           /\ HandleInvoke(m, Refused) /\ UNCHANGED plcVars
        \/ /\ plcs[n] # None /\ (new = n \/ plcs[new] = None)
           /\ owner' = [g \in Groups |-> IF owner[g] = n THEN new ELSE owner[g]]
           /\ \/ plcs[n] = "off" /\ plcs' = p /\ Ends(m, hub, Done(None))
              \/ /\ plcs[n] = "on"
                 /\ \/ AwaitStop(m, n, p)
                    \/ /\ hub.engine[n] = "starting"
                       /\ UpdateAfterStop(m, Forgotten(n), p, TRUE)
                    \/ /\ hub.engine[n] = None
                       /\ UpdateAfterStop(m, hub, p, FALSE)
           /\ kept' = {i \in KeptWithout(n) \cup {m.id} : step'[i] # None}

(* StopAsync returns: the session of the name goes, whosever it is by now. *)
FinishStop(m) ==
  LET h == [hub EXCEPT !.session[m.call.of] = None]
  IN /\ m \in running /\ step[m.id] = "stopping"
     /\ \/ AfterStop(m, h, plcs, TRUE)
        \/ /\ UpdateAfterStop(m, h, plcs, TRUE)
           /\ kept' = {i \in kept : step'[i] # None} /\ UNCHANGED owner

(***************************************************************************)
(* StartAsync returns: the engine runs, also one that was forgotten, or it  *)
(* throws, and whatever is registered under the name is taken out.         *)
(***************************************************************************)
FinishStart(m) ==
  LET n == Target(m)
      started == [hub EXCEPT !.engine[n] = "running", !.starter[n] = None]
  IN /\ m \in running /\ step[m.id] = "starting"
     /\ \/ /\ Ends(m, IF hub.starter[n] = m.id THEN started ELSE hub, Done(None))
           /\ plcs' = Flagged(m, plcs, "on")
        \/ /\ Ends(m, Forgotten(n), Failed(m))
           /\ plcs' = Flagged(m, plcs, "off")
     /\ kept' = kept \ {m.id} /\ UNCHANGED owner

(* The first scan of a PLC that has tags: nothing tells the pages. *)
FirstScan(n) ==
  /\ hub.session[n] = "fresh" /\ hub.engine[n] = "running"
  /\ hub' = [hub EXCEPT !.session[n] = "scanned"]
  /\ UNCHANGED <<bridgeVars, plcs, owner, step, kept>>

PlcHandle(m, used) ==
  \/ ListPlcs(m) \/ ListDbGroups(m)
  \/ CreateDbGroup(m, used) \/ DeleteDbGroup(m) \/ RenameDbGroup(m)
  \/ AddPlc(m) \/ StopPlc(m) \/ ConnectUnknownPlc(m) \/ UpdatePlc(m)
PlcFinish(m) == FinishStop(m) \/ FinishStart(m)
=============================================================================
