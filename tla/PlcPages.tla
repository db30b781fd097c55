------------------------------ MODULE PlcPages ------------------------------
(***************************************************************************)
(* The pages about PLCs in the frame, over the bridge, on top of            *)
(* PlcManager: what is shown when an operation awaits a device, a second    *)
(* one overtakes it, the user leaves, or the answers come late.             *)
(***************************************************************************)
EXTENDS PlcListView, PlcDetailView

VARIABLE
  excused   \* history: PLCs of which the page has asked two operations at once, or whose row
            \* object had left the list when the answer came that was to set its flag

vars == <<bridgeVars, shellVars, plcVars, listVars, detailVars, excused>>

CallsMade ==
       [method : {"ListPlcs"}, of : PlcNames \cup {None}, arg : {None}]
  \cup [method : {"AddPlc", "RemovePlc", "ConnectPlc", "DisconnectPlc", "ListDbGroups",
                  "CreateDbGroup"}, of : PlcNames, arg : {None}]
  \cup [method : {"UpdatePlc"}, of : PlcNames, arg : PlcNames]
  \cup [method : {"DeleteDbGroup", "RenameDbGroup"}, of : Groups, arg : PlcNames]
ASSUME NoneIsNoCall == None \notin CallsMade

Requests == [id : Ids, call : CallsMade, web : {TRUE}]

TypeOK ==
  /\ promise \in [Ids -> CallsMade \cup {None}]
  /\ toNative \in Seq(Requests) /\ running \subseteq Requests
  /\ page \in {Main, Page("list", None)} \cup {Page("detail", n) : n \in PlcNames}
  /\ loading \in BOOLEAN /\ clean \in BOOLEAN /\ orphans \subseteq Ids
  /\ dialog \in ({"add", "create"} \X {None}) \cup ({"remove", "edit"} \X PlcNames)
                \cup ({"rename", "delete"} \X Groups) \cup {Closed}
  /\ PlcTypeOK /\ ListTypeOK /\ DetailTypeOK /\ excused \subseteq PlcNames

(* The host has injected its bridge before the user leaves the main page (UiBridgeCalls and *)
(* TagTable have what becomes of calls that were made earlier).                             *)
Init ==
  /\ BridgeInjected /\ ShellInit /\ PlcInit /\ ListInit /\ DetailInit
  /\ excused = {}

-----------------------------------------------------------------------------
(* A mounted page starts with nothing but its calls on the way. *)
FreshPage ==
  /\ rows' = NoRows /\ held' = {} /\ unseen' = {}
  /\ plc' = None /\ groups' = {} /\ activeGroup' = None
  /\ excused' = {}

(* The title bar, the menu and the cards of the list, the arrow of the detail page. *)
MountCalls(to) ==
  CASE to.view = "list" -> <<LoadPlcs>> [] to.view = "detail" -> DetailMount(to.plc) [] OTHER -> <<>>
GoTo(to) ==
  /\ to # page /\ dialog = Closed
  /\ CanCall(MountCalls(to)) /\ Navigate({}, to, RequestsFor(MountCalls(to)))
  /\ FreshPage /\ UNCHANGED <<answerVars, handler, plcVars>>
NavigateTo ==
  \/ GoTo(Main)
  \/ (At("main") \/ At("detail")) /\ GoTo(Page("list", None))
  \/ \E n \in PlcNames : Card(n) /\ GoTo(Page("detail", n))

(* loadPlc did not find its PLC: router.push, whatever page is in place by now. *)
NotFound(answer, call) ==
  call.method = "ListPlcs" /\ call.of # None /\ answer.data[call.of] = None
PushList(answer) ==
  /\ ~At("list")
  /\ Navigate({answer.id}, Page("list", None), Follow(answer, LoadPlcs))
  /\ FreshPage /\ UNCHANGED handler

RowIsGone(answer, call) ==
  /\ At("list") /\ answer.id \notin orphans \cup held
  /\ call.method \in {"ConnectPlc", "DisconnectPlc"}

Following(answer, call) ==
  IF call.method \in ChangingGroups THEN DetailFollowing(answer, call) ELSE ListFollowing(answer, call)

Continue(answer) ==
  LET call == promise[answer.id]
  IN /\ Arrives(answer)
     /\ IF NotFound(answer, call) /\ ~At("list") THEN PushList(answer)
        ELSE /\ Settled(answer, Following(answer, call))
             /\ excused' = IF RowIsGone(answer, call) THEN excused \cup {call.of} ELSE excused
             /\ IF answer.id \in orphans \/ NotFound(answer, call)
                THEN UNCHANGED <<loading, dialog, listVars, detailVars>>
                ELSE \/ At("list") /\ ListContinue(answer, call) /\ UNCHANGED detailVars
                     \/ At("detail") /\ DetailContinue(answer, call) /\ UNCHANGED listVars
     /\ UNCHANGED plcVars

(* Nothing keeps the user from asking for a second operation on a PLC before the first answers. *)
Operations == ChangingPlcs \cup {"ConnectPlc", "DisconnectPlc"}
PlcsOf(call) == {call.of, call.arg} \cap PlcNames
AskedTwice(n) ==
  \E i, j \in Ids : /\ i # j /\ {promise'[i], promise'[j]} \cap {None} = {}
                   /\ {promise'[i].method, promise'[j].method} \subseteq Operations
                   /\ n \in PlcsOf(promise'[i]) \cap PlcsOf(promise'[j])

(* The ids of groups that the page, a call or an answer on its way refers to. *)
Answers == {toWeb[k] : k \in DOMAIN toWeb}
UsedGroups ==
  groups \cup {activeGroup, dialog[2]} \cup {promise[i].of : i \in Open}
    \cup UNION {m.data : m \in {a \in Answers : promise[a.id].method = "ListDbGroups"}}

Pages == <<shellVars, listVars, detailVars, excused>>
Handle(m) ==
  /\ PlcHandle(m, UsedGroups)
  /\ UNCHANGED Pages

UserStep ==
  \/ NavigateTo
  \/ /\ \/ ListClick /\ UNCHANGED detailVars
        \/ DetailClick /\ UNCHANGED listVars
     /\ excused' = excused \cup {n \in PlcNames : AskedTwice(n)}
     /\ UNCHANGED plcVars

Answering == \E answer \in Answers : Continue(answer)
Handling  == \E m \in {toNative[k] : k \in DOMAIN toNative} : Handle(m)
Finishing == \E m \in running : PlcFinish(m) /\ UNCHANGED Pages
Scanning  == \E n \in PlcNames : FirstScan(n) /\ UNCHANGED Pages

Next == UserStep \/ Answering \/ Handling \/ Finishing \/ Scanning

Spec == Init /\ [][Next]_vars

-----------------------------------------------------------------------------
Stored == {n \in PlcNames : plcs[n] # None}
Shown  == {n \in PlcNames : rows[n] # None}

(***************************************************************************)
(* When nothing is on its way, the list has the PLCs that are stored: each  *)
(* change is followed by a load that is handled after it. It misses those  *)
(* whose AddPlc failed, since they are stored all the same (PlcManager.cs  *)
(* line 74) and the page only loads after a success.                       *)
(***************************************************************************)
ListIsComplete ==
  (clean /\ At("list") /\ Quiet) => /\ Shown \subseteq Stored
                                    /\ Stored \ unseen \subseteq Shown

(***************************************************************************)
(* A page that shows a PLC as connected when nothing is on its way is right *)
(* in that there is a session. Excused are the PLCs of which two operations *)
(* were asked at once, and those whose row was replaced by a load while a   *)
(* connect or disconnect was open.                                         *)
(***************************************************************************)
ShownConnectedHasSession ==
  (clean /\ Quiet) =>
    /\ \A n \in PlcNames \ excused : rows[n] = "on" => hub.session[n] # None
    /\ plc = "on" /\ page.plc \notin excused => hub.session[page.plc] # None

(***************************************************************************)
(* When nothing is on its way, the detail page is about a PLC that is       *)
(* stored, lists its groups, and has one of them active if there is any: a *)
(* click on a group that is being deleted, a refresh of the table or a     *)
(* second dialog in between do not leave it with a table of nothing.       *)
(***************************************************************************)
DetailIsCurrent ==
  (clean /\ At("detail") /\ Quiet) =>
    /\ page.plc \in Stored /\ plc # None
    /\ groups = GroupsOf(page.plc)
    /\ activeGroup \in groups \/ (activeGroup = None /\ groups = {})
=============================================================================
