---------------------------- MODULE LuaEngineView ----------------------------
(***************************************************************************)
(* The page of the Lua engine (Frontend/src/views/LuaEngineView.vue) in the *)
(* frame and over the bridge, with LuaEngine behind it. Nothing tells the  *)
(* page what the engine does by itself: it shows its last answers.         *)
(*                                                                         *)
(* A card is the name of its group. The dialogs with a group's details and *)
(* with the VMs are opened by code that awaited, so they may come up over  *)
(* another one. `detailLoading` has no effect: `loading` is no property of *)
(* el-dialog.                                                              *)
(***************************************************************************)
EXTENDS LuaEngine

VARIABLES
  groups,          \* groups: the names that are shown
  watcherEnabled,  \* watcherEnabled
  opened,          \* those of detailVisible and vmListVisible that are true
  detail,          \* detailData: the name of its group, or None
  executing,       \* executing
  unseen           \* history: groups that were loaded by a LoadGroup reported as failed

viewVars == <<groups, watcherEnabled, opened, detail, executing, unseen>>
vars == <<bridgeVars, shellVars, luaVars, viewVars>>

ViewInit ==
  /\ groups = {} /\ watcherEnabled = TRUE /\ opened = {} /\ detail = None
  /\ executing = FALSE /\ unseen = {}
FreshView ==
  /\ groups' = {} /\ watcherEnabled' = TRUE /\ opened' = {} /\ detail' = None
  /\ executing' = FALSE /\ unseen' = {}

LoadGroups == CallTo("ListGroups", None, None)
LoadWatcherStatus == CallTo("GetWatcherStatus", None, None)
ShowDetail(g) == CallTo("GetGroupDetail", g, None)

CallsMade ==
       [method : {"ListGroups", "GetWatcherStatus", "ListVms"}, of : {None}, arg : {None}]
  \cup [method : {"SetWatcher"}, of : BOOLEAN, arg : {None}]
  \cup [method : {"LoadGroup", "ReloadGroup", "UnloadGroup", "GetGroupDetail", "ExecuteLua"},
        of : GroupNames, arg : {None}]
  \cup [method : {"ReloadScript", "UnloadScript"}, of : GroupNames, arg : Files]

ASSUME NoneIsNoCall == None \notin CallsMade

TypeOK ==
  /\ \A i \in Ids : promise[i] # None => promise[i] \in CallsMade
  /\ \A m \in {toNative[k] : k \in DOMAIN toNative} :
       m \in [id : Ids, call : CallsMade, web : {TRUE}]
  /\ page \in {Main, Page("lua", None)} /\ {loading, clean, executing, watcherEnabled} \subseteq BOOLEAN
  /\ orphans \subseteq Ids /\ groups \cup unseen \subseteq GroupNames
  /\ dialog \in {Closed, <<"load", None>>} \cup ({"unload", "execute"} \X GroupNames)
  /\ opened \subseteq {"detail", "vms"} /\ detail \in {None} \cup GroupNames
  /\ LuaTypeOK

Init == BridgeInjected /\ ShellInit /\ LuaInit /\ ViewInit

-----------------------------------------------------------------------------
(* What the user does. The title bar is free unless a dialog is over the window. *)
NoDialog == dialog = Closed /\ opened = {}
Card(g) == At("lua") /\ ~loading /\ NoDialog /\ g \in groups
View(calls) ==
  /\ Make(calls) /\ UNCHANGED loading

OpenLoadDialog ==
  /\ At("lua") /\ NoDialog /\ OpenDialog(<<"load", None>>)
  /\ UNCHANGED viewVars
OpenUnloadConfirm(g) ==
  /\ Card(g) /\ OpenDialog(<<"unload", g>>)
  /\ UNCHANGED viewVars
OpenExecuteDialog(g) ==
  /\ Card(g) /\ OpenDialog(<<"execute", g>>)
  /\ UNCHANGED <<groups, watcherEnabled, opened, detail, executing, unseen>>
CloseOne ==
  \/ /\ CloseDialog /\ UNCHANGED viewVars
  \/ /\ opened # {} /\ \E d \in opened : opened' = opened \ {d}
     /\ Click /\ UNCHANGED <<loading, dialog, groups, watcherEnabled, detail, executing, unseen>>

(* The form stays until the answer, and can be submitted again. *)
HandleLoadGroup(g) ==
  /\ dialog[1] = "load" /\ View(<<CallTo("LoadGroup", g, None)>>)
  /\ UNCHANGED <<dialog, viewVars>>
HandleReloadGroup(g) ==
  /\ Card(g) /\ View(<<CallTo("ReloadGroup", g, None)>>)
  /\ UNCHANGED <<dialog, viewVars>>
HandleUnloadGroup ==
  /\ dialog[1] = "unload" /\ dialog' = Closed
  /\ View(<<CallTo("UnloadGroup", dialog[2], None)>>)
  /\ UNCHANGED viewVars

(* The dialog shows the last details until those it asks for come. *)
HandleShowDetail(g) ==
  /\ Card(g) /\ View(<<ShowDetail(g)>>) /\ opened' = opened \cup {"detail"}
  /\ UNCHANGED <<dialog, groups, watcherEnabled, detail, executing, unseen>>

(* A row of the details, which may be of a script that is gone by now. *)
HandleScript(f) ==
  /\ "detail" \in opened /\ detail # None
  /\ \/ View(<<CallTo("ReloadScript", detail, f)>>)
     \/ View(<<CallTo("UnloadScript", detail, f)>>)
  /\ UNCHANGED <<dialog, viewVars>>

HandleToggleWatcher ==
  /\ At("lua") /\ NoDialog /\ View(<<CallTo("SetWatcher", ~watcherEnabled, None)>>)
  /\ UNCHANGED <<dialog, viewVars>>
ShowVmList ==
  /\ At("lua") /\ NoDialog /\ View(<<CallTo("ListVms", None, None)>>)
  /\ UNCHANGED <<dialog, viewVars>>

(* A button that is `loading` takes no click. *)
HandleExecuteLua ==
  /\ dialog[1] = "execute" /\ ~executing /\ executing' = TRUE
  /\ View(<<CallTo("ExecuteLua", dialog[2], None)>>)
  /\ UNCHANGED <<dialog, groups, watcherEnabled, opened, detail, unseen>>

(* The title bar and the menu of the main page; onMounted calls both. *)
GoTo(to, calls) ==
  /\ page # to /\ NoDialog
  /\ CanCall(calls) /\ Navigate({}, to, RequestsFor(calls))
  /\ FreshView /\ UNCHANGED <<answerVars, handler>>

UserStep ==
  /\ \/ OpenLoadDialog \/ CloseOne \/ HandleUnloadGroup
     \/ HandleToggleWatcher \/ ShowVmList \/ HandleExecuteLua
     \/ \E f \in Files : HandleScript(f)
     \/ \E g \in GroupNames :
          \/ OpenUnloadConfirm(g) \/ OpenExecuteDialog(g)
          \/ HandleLoadGroup(g) \/ HandleReloadGroup(g) \/ HandleShowDetail(g)
     \/ GoTo(Main, <<>>) \/ GoTo(Page("lua", None), <<LoadGroups, LoadWatcherStatus>>)
  /\ UNCHANGED luaVars

-----------------------------------------------------------------------------
(* What an await goes on with. *)
GroupsLoaded(answer, call) ==
  /\ call.method = "ListGroups" /\ groups' = answer.data /\ loading' = FALSE
  /\ unseen' = unseen \ groups'
  /\ UNCHANGED <<dialog, watcherEnabled, opened, detail, executing>>

\* a mutant: a toggle turns what is shown, instead of taking the answer
WatcherTurned(answer, call) ==
  /\ call.method \in {"GetWatcherStatus", "SetWatcher"}
  /\ watcherEnabled' = IF call.method = "SetWatcher" THEN ~watcherEnabled ELSE answer.data
  /\ UNCHANGED <<loading, dialog, groups, opened, detail, executing, unseen>>

WatcherKnown(answer, call) ==
  /\ call.method \in {"GetWatcherStatus", "SetWatcher"} /\ watcherEnabled' = answer.data
  /\ UNCHANGED <<loading, dialog, groups, opened, detail, executing, unseen>>

(* After a change the list is loaded again; a failure is reported, and that is all. *)
ChangingGroups == {"LoadGroup", "ReloadGroup", "UnloadGroup"}
GroupsChanged(answer, call) ==
  /\ call.method \in ChangingGroups
  /\ IF answer.ok
     THEN /\ loading' = TRUE /\ UNCHANGED unseen
          /\ dialog' = IF call.method = "LoadGroup" /\ dialog[1] = "load" THEN Closed ELSE dialog
     ELSE /\ unseen' = IF call.method = "LoadGroup" THEN unseen \cup ({call.of} \ groups) ELSE unseen
          /\ UNCHANGED <<loading, dialog>>
  /\ UNCHANGED <<groups, watcherEnabled, opened, detail, executing>>

\* a mutant: the outcome is taken for the details
DetailKnownFlag(answer, call) ==
  /\ call.method = "GetGroupDetail" /\ detail' = answer.ok
  /\ UNCHANGED <<loading, dialog, groups, watcherEnabled, opened, executing, unseen>>

DetailKnown(answer, call) ==
  /\ call.method = "GetGroupDetail" /\ detail' = answer.data
  /\ UNCHANGED <<loading, dialog, groups, watcherEnabled, opened, executing, unseen>>

(* showDetail of whatever group the details are of by now; none of them: nothing to show. *)
ChangingScripts == {"ReloadScript", "UnloadScript"}
ScriptChanged(answer, call) ==
  /\ call.method \in ChangingScripts
  /\ opened' = IF answer.ok /\ detail # None THEN opened \cup {"detail"} ELSE opened
  /\ UNCHANGED <<loading, dialog, groups, watcherEnabled, detail, executing, unseen>>

(* The result is shown in the dialog, whichever group that is about by now. *)
Executed(answer, call) ==
  /\ call.method = "ExecuteLua" /\ executing' = FALSE
  /\ UNCHANGED <<loading, dialog, groups, watcherEnabled, opened, detail, unseen>>
VmsListed(answer, call) ==
  /\ call.method = "ListVms" /\ opened' = opened \cup {"vms"}
  /\ UNCHANGED <<loading, dialog, groups, watcherEnabled, detail, executing, unseen>>

(* The details of a page that is unmounted are those its call was made from. *)
DetailOf(answer, call) == IF answer.id \in orphans THEN call.of ELSE detail
Following(answer, call) ==
  IF call.method \in ChangingGroups /\ answer.ok THEN Follow(answer, LoadGroups)
  ELSE IF call.method \in ChangingScripts /\ answer.ok /\ DetailOf(answer, call) # None
  THEN Follow(answer, ShowDetail(DetailOf(answer, call)))
  ELSE <<>>

Continue(answer) ==
  LET call == promise[answer.id]
  IN /\ Arrives(answer) /\ Settled(answer, Following(answer, call))
     /\ IF answer.id \in orphans THEN UNCHANGED <<loading, dialog, viewVars>>
        ELSE \/ GroupsLoaded(answer, call) \/ WatcherKnown(answer, call)
             \/ GroupsChanged(answer, call) \/ DetailKnown(answer, call)
             \/ ScriptChanged(answer, call) \/ Executed(answer, call) \/ VmsListed(answer, call)
     /\ UNCHANGED luaVars

Answering == \E answer \in {toWeb[k] : k \in DOMAIN toWeb} : Continue(answer)
Handling ==
  /\ \E m \in {toNative[k] : k \in DOMAIN toNative} : LuaHandle(m)
  /\ UNCHANGED <<shellVars, viewVars>>
FileSystem == FileSystemStep /\ UNCHANGED <<shellVars, viewVars>>

Next == UserStep \/ Answering \/ Handling \/ FileSystem
Spec == Init /\ [][Next]_vars

-----------------------------------------------------------------------------
(***************************************************************************)
(* When nothing is on its way, the page shows the groups that are loaded   *)
(* and the state of the watchers, no button spins, and no mask is left.    *)
(* Toggles and changes that overlap, or that overlap the first load, do not *)
(* leave it with an older answer. It misses the groups that were loaded by *)
(* a call that failed: LoadGroup adds the group before it asks a disposed  *)
(* VM for its functions (LuaEngineService.cs lines 52 to 54).              *)
(***************************************************************************)
PageIsCurrent ==
  (clean /\ At("lua") /\ Quiet) =>
    /\ groups \subseteq loaded /\ loaded \ unseen \subseteq groups
    /\ watcherEnabled = enabled /\ ~loading /\ ~executing

(***************************************************************************)
(* Functions that are subscribed to an event belong to a group that is     *)
(* loaded and to a VM that is not disposed (an event would call into freed *)
(* memory otherwise), and a watcher that raises to a group that is loaded, *)
(* while watching is enabled: through failed loads, repeated loads and     *)
(* reloads by the timer in between.                                        *)
(***************************************************************************)
SubscribedIsLoaded ==
  \A g \in GroupNames :
    /\ subscribed[g] > 0 => g \in loaded /\ vm[g] = "live"
    /\ watcher[g] = "raising" => g \in loaded /\ enabled

(***************************************************************************)
(* A change that a watcher and a callback of the timer have seen is        *)
(* reloaded: a group that no callback is about to reload has the scripts   *)
(* of its directory. Not so for one with a script that threw or was        *)
(* unloaded by hand, and for changes nobody has seen.                      *)
(***************************************************************************)
ChangesAreReloaded ==
  \A g \in loaded \ (stale \cup missed \cup changed \cup listed \cup reloading) :
    scripts[g] = disk[g]

(***************************************************************************)
(* The page reports that watching is on (LuaEngineView.vue line 131) and   *)
(* the main page promises to reload by watching (MainView.vue line 21):    *)
(* while it is enabled, a loaded group follows its directory.              *)
(***************************************************************************)
AutoReloads ==
  (enabled /\ changed \cup listed \cup reloading = {}) =>
    \A g \in loaded \ stale : scripts[g] = disk[g]
=============================================================================
