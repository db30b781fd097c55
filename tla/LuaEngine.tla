----------------------------- MODULE LuaEngine ------------------------------
(***************************************************************************)
(* The Lua engine of VitrinRuntime: LuaEngineService over the groups and   *)
(* watchers of LuaScriptManager, the VMs of LuaVmManager and the            *)
(* subscriptions of LuaEventBridgeService. The bridge's calls, a thread of *)
(* the debounce timer and the file system work on it side by side.         *)
(*                                                                         *)
(* Each group has a directory of its own, which exists; what a script does *)
(* is left out, but for whether running it throws. A group has functions   *)
(* that an event is bound to; a call on a disposed VM throws.              *)
(***************************************************************************)
EXTENDS AppShell

CONSTANTS
  GroupNames,   \* names of script groups
  Files,        \* names of .lua files
  MaxSubscribed \* bound: a function is subscribed that often at most, and then not again

ASSUME LuaAssumption ==
  /\ None \notin GroupNames \cup Files \cup {"live", "disposed", "raising", "muted"}
  /\ MaxSubscribed \in Nat \ {0}

VARIABLES
  loaded,     \* _groups of LuaScriptManager
  scripts,    \* Scripts of each group
  vm,         \* _vms of LuaVmManager: None, "live", or "disposed" but still there
  watcher,    \* _watchers: None, "raising", or "muted" (EnableRaisingEvents = false)
  enabled,    \* IsFileWatcherEnabled
  subscribed, \* _subscriptions: how often the functions of a group are subscribed
  disk,       \* the files of each group's directory
  changed,    \* _pendingChanges
  listed,     \* changedGroups of a callback that has not cleared _pendingChanges yet
  reloading,  \* changedGroups of a callback that has, and not reloaded them yet
  stale,      \* history: groups with a reason not to match the disk: a script that threw, one
              \* that was unloaded by hand, a change while IsFileWatcherEnabled was false
  missed      \* history: groups with a change that no watcher or no callback has seen

managerVars == <<loaded, scripts, vm, watcher, enabled, subscribed>>
watchVars   == <<disk, changed, listed, reloading>>
luaVars     == <<managerVars, watchVars, stale, missed>>

(* LuaAutoLoadService has loaded the stored groups. *)
LuaInit ==
  /\ loaded \in SUBSET GroupNames /\ disk \in [GroupNames -> SUBSET Files]
  /\ scripts = [g \in GroupNames |-> IF g \in loaded THEN disk[g] ELSE {}]
  /\ vm = [g \in GroupNames |-> IF g \in loaded THEN "live" ELSE None]
  /\ watcher = [g \in GroupNames |-> IF g \in loaded THEN "raising" ELSE None]
  /\ enabled = TRUE /\ subscribed = [g \in GroupNames |-> IF g \in loaded THEN 1 ELSE 0]
  /\ changed = {} /\ listed = {} /\ reloading = {} /\ stale = {} /\ missed = {}

LuaTypeOK ==
  /\ loaded \subseteq GroupNames /\ scripts \in [GroupNames -> SUBSET Files]
  /\ vm \in [GroupNames -> {None, "live", "disposed"}]
  /\ watcher \in [GroupNames -> {None, "raising", "muted"}]
  /\ enabled \in BOOLEAN /\ subscribed \in [GroupNames -> 0 .. MaxSubscribed]
  /\ disk \in [GroupNames -> SUBSET Files]
  /\ changed \cup listed \cup reloading \cup stale \cup missed \subseteq GroupNames

Done(data) == [ok |-> TRUE, data |-> data]
Refused == [ok |-> FALSE, data |-> None]

-----------------------------------------------------------------------------
(* Queries. ExecuteLua turns a missing or disposed VM, and a script that throws, into a result. *)
Details(g) == IF g \in loaded THEN g ELSE None
Query(m) ==
  /\ \/ m.call.method = "ListGroups" /\ HandleInvoke(m, Done(loaded))
     \/ m.call.method = "GetGroupDetail" /\ HandleInvoke(m, Done(Details(m.call.of)))
     \/ m.call.method = "GetWatcherStatus" /\ HandleInvoke(m, Done(enabled))
     \/ m.call.method \in {"ListVms", "ExecuteLua"} /\ HandleInvoke(m, Done(m.call.of))
  /\ UNCHANGED luaVars

\* a mutant: the scripts that are gone stay
ReloadForgetsNone(g) ==
  /\ vm[g] = "live" \/ disk[g] = {}
  /\ scripts' = [scripts EXCEPT ![g] = @ \cup disk[g]]
  /\ stale' = stale \ {g} /\ missed' = missed \ {g}

(***************************************************************************)
(* ReloadGroup runs each file of the directory and forgets the scripts that *)
(* are gone. When one throws, those before it are loaded, and nothing else *)
(* is done. An empty directory needs no VM.                                *)
(***************************************************************************)
ReloadWorks(g) ==
  /\ vm[g] = "live" \/ disk[g] = {}
  /\ scripts' = [scripts EXCEPT ![g] = disk[g]]
  /\ stale' = stale \ {g} /\ missed' = missed \ {g}
ReloadThrows(g) ==
  /\ disk[g] # {}
  /\ \E before \in SUBSET disk[g] :
       /\ before # disk[g] /\ (vm[g] = "disposed" => before = {})
       /\ scripts' = [scripts EXCEPT ![g] = @ \cup before]
  /\ stale' = stale \cup {g} /\ UNCHANGED missed

(* SubscribeGroup asks the VM for its functions, and adds to what is subscribed. *)
Subscribed(g, before) == IF before[g] < MaxSubscribed THEN [before EXCEPT ![g] = @ + 1] ELSE before
\* a mutant: the functions of a disposed VM are subscribed, too
SubscribeDisposed(m, g, before) == subscribed' = Subscribed(g, before) /\ HandleInvoke(m, Done(None))
Subscribe(m, g, before) ==
  \/ /\ vm'[g] = "live"
     /\ subscribed' = Subscribed(g, before) /\ HandleInvoke(m, Done(None))
  \/ /\ vm'[g] = "disposed"
     /\ subscribed' = before /\ HandleInvoke(m, Refused)

(* The directory may be missing, or a script throw: the VM that was added stays. *)
LoadGroup(m) ==
  LET g == m.call.of
  IN /\ m.call.method = "LoadGroup" /\ g \notin loaded
     /\ vm' = [vm EXCEPT ![g] = IF @ = None THEN "live" ELSE @]
     /\ \/ /\ vm'[g] = "live" \/ disk[g] = {}
           /\ loaded' = loaded \cup {g} /\ scripts' = [scripts EXCEPT ![g] = disk[g]]
           /\ watcher' = [watcher EXCEPT ![g] = IF enabled THEN "raising" ELSE None]
           /\ stale' = stale \ {g} /\ missed' = missed \ {g}
           /\ Subscribe(m, g, subscribed)
        \/ /\ disk[g] # {} /\ HandleInvoke(m, Refused)
           /\ UNCHANGED <<loaded, scripts, watcher, subscribed, stale, missed>>
     /\ UNCHANGED <<enabled, watchVars>>

(* A name that is loaded is loaded again, and what it had subscribed stays subscribed. *)
ReloadGroup(m) ==
  LET g == m.call.of
      before == IF m.call.method = "LoadGroup" THEN subscribed ELSE [subscribed EXCEPT ![g] = 0]
  IN /\ m.call.method \in {"LoadGroup", "ReloadGroup"} /\ g \in loaded /\ UNCHANGED vm
     /\ \/ ReloadWorks(g) /\ Subscribe(m, g, before)
        \/ ReloadThrows(g) /\ HandleInvoke(m, Refused) /\ UNCHANGED subscribed
     /\ UNCHANGED <<loaded, watcher, enabled, watchVars>>

(* The VM is disposed and stays in _vms. *)
UnloadGroup(m) ==
  LET g == m.call.of
  IN /\ m.call.method = "UnloadGroup" /\ g \in loaded
     /\ loaded' = loaded \ {g} /\ scripts' = [scripts EXCEPT ![g] = {}]
     /\ vm' = [vm EXCEPT ![g] = "disposed"] /\ watcher' = [watcher EXCEPT ![g] = None]
     /\ subscribed' = [subscribed EXCEPT ![g] = 0]
     /\ stale' = stale \ {g} /\ missed' = missed \ {g}
     /\ HandleInvoke(m, Done(None)) /\ UNCHANGED <<enabled, watchVars>>

(* A script is run again, or throws, or has left the disk, and then the group, too. *)
ReloadScript(m) ==
  LET g == m.call.of  f == m.call.arg
  IN /\ m.call.method = "ReloadScript" /\ g \in loaded /\ f \in scripts[g]
     /\ \/ f \in disk[g] /\ vm[g] = "live" /\ HandleInvoke(m, Done(None)) /\ UNCHANGED scripts
        \/ f \in disk[g] /\ HandleInvoke(m, Refused) /\ UNCHANGED scripts
        \/ /\ f \notin disk[g] /\ HandleInvoke(m, Refused)
           /\ scripts' = [scripts EXCEPT ![g] = @ \ {f}]
     /\ UNCHANGED <<loaded, vm, watcher, enabled, subscribed, watchVars, stale, missed>>

UnloadScript(m) ==
  LET g == m.call.of  f == m.call.arg
  IN /\ m.call.method = "UnloadScript" /\ g \in loaded /\ f \in scripts[g]
     /\ scripts' = [scripts EXCEPT ![g] = @ \ {f}] /\ stale' = stale \cup {g}
     /\ HandleInvoke(m, Done(None))
     /\ UNCHANGED <<loaded, vm, watcher, enabled, subscribed, watchVars, missed>>

(* The methods that throw for a group or a script they do not find. *)
NotFound(m) ==
  /\ \/ m.call.method \in {"ReloadGroup", "UnloadGroup"} /\ m.call.of \notin loaded
     \/ /\ m.call.method \in {"ReloadScript", "UnloadScript"}
        /\ m.call.of \notin loaded \/ m.call.arg \notin scripts[m.call.of]
  /\ HandleInvoke(m, Refused) /\ UNCHANGED luaVars

(* Watchers are muted, not removed; StartFileWatcher does nothing for a group that has one. *)
SetWatcher(m) ==
  /\ m.call.method = "SetWatcher" /\ enabled' = m.call.of
  /\ watcher' = CASE ~enabled /\ enabled' ->
                       [g \in GroupNames |-> IF g \in loaded /\ watcher[g] = None
                                             THEN "raising" ELSE watcher[g]]
                  [] enabled /\ ~enabled' ->
                       [g \in GroupNames |-> IF watcher[g] = None THEN None ELSE "muted"]
                  [] OTHER -> watcher
  /\ HandleInvoke(m, Done(enabled'))
  /\ UNCHANGED <<loaded, scripts, vm, subscribed, watchVars, stale, missed>>

LuaHandle(m) ==
  \/ Query(m) \/ NotFound(m)
  \/ LoadGroup(m) \/ ReloadGroup(m) \/ UnloadGroup(m)
  \/ ReloadScript(m) \/ UnloadScript(m) \/ SetWatcher(m)

-----------------------------------------------------------------------------
(* A file is added to a group's directory, or deleted: OnFileChanged, if the watcher raises. *)
FileChanges(g, f) ==
  /\ disk' = [disk EXCEPT ![g] = IF f \in @ THEN @ \ {f} ELSE @ \cup {f}]
  /\ changed' = IF watcher[g] = "raising" THEN changed \cup {g} ELSE changed
  /\ IF g \notin loaded THEN UNCHANGED <<stale, missed>>
     ELSE /\ stale' = IF enabled THEN stale ELSE stale \cup {g}
          /\ missed' = IF enabled /\ watcher[g] # "raising" THEN missed \cup {g} ELSE missed
  /\ UNCHANGED <<bridgeVars, managerVars, listed, reloading>>

(* OnDebounceElapsed lists the changed groups, clears _pendingChanges and reloads those listed. *)
DebounceLists ==
  /\ listed = {} /\ reloading = {} /\ changed # {} /\ listed' = changed
  /\ UNCHANGED <<bridgeVars, managerVars, disk, changed, reloading, stale, missed>>
DebounceClears ==
  /\ listed # {} /\ listed' = {} /\ changed' = {} /\ reloading' = listed
  /\ missed' = missed \cup (loaded \cap (changed \ listed))
  /\ UNCHANGED <<bridgeVars, managerVars, disk, stale>>
DebounceReloads(g) ==
  /\ g \in reloading /\ reloading' = reloading \ {g}
  /\ \/ g \in loaded /\ (ReloadWorks(g) \/ ReloadThrows(g))
     \/ g \notin loaded /\ UNCHANGED <<scripts, stale, missed>>
  /\ UNCHANGED <<bridgeVars, loaded, vm, watcher, enabled, subscribed, disk, changed, listed>>

FileSystemStep ==
  \/ \E g \in GroupNames, f \in Files : FileChanges(g, f)
  \/ DebounceLists \/ DebounceClears \/ \E g \in GroupNames : DebounceReloads(g)
=============================================================================
