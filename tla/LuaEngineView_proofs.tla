------------------------- MODULE LuaEngineView_proofs -------------------------
(***************************************************************************)
(* Proofs about the page of the Lua engine: its types, that what is        *)
(* subscribed or raises is loaded, that changes are reloaded, and that the  *)
(* page is current when nothing is on its way.                             *)
(***************************************************************************)
EXTENDS LuaEngineView, AppShell_proofs

-----------------------------------------------------------------------------
(* The engine *)

LEMMA CallForms ==
  ASSUME NEW c \in CallsMade
  PROVE  /\ c.method \in ChangingGroups \cup ChangingScripts \cup {"GetGroupDetail", "ExecuteLua"}
              => c.of \in GroupNames
         /\ c.method \in ChangingScripts => c.arg \in Files
         /\ c.method = "SetWatcher" => c.of \in BOOLEAN
         /\ c.method = "ListVms" => c.of = None
         /\ c # None
  <1>1. c # None
    BY NoneIsNoCall
  <1>2. CASE c \in [method : {"ListGroups", "GetWatcherStatus", "ListVms"}, of : {None}, arg : {None}]
    BY <1>1, <1>2 DEF ChangingGroups, ChangingScripts
  <1>3. CASE c \in [method : {"SetWatcher"}, of : BOOLEAN, arg : {None}]
    BY <1>1, <1>3 DEF ChangingGroups, ChangingScripts
  <1>4. CASE c \in [method : {"LoadGroup", "ReloadGroup", "UnloadGroup", "GetGroupDetail", "ExecuteLua"},
                    of : GroupNames, arg : {None}]
    BY <1>1, <1>4 DEF ChangingGroups, ChangingScripts
  <1>5. CASE c \in [method : {"ReloadScript", "UnloadScript"}, of : GroupNames, arg : Files]
    BY <1>1, <1>5 DEF ChangingGroups, ChangingScripts
  <1> QED BY <1>2, <1>3, <1>4, <1>5 DEF CallsMade

LEMMA CallsOfPage ==
  /\ LoadGroups \in CallsMade /\ LoadWatcherStatus \in CallsMade
  /\ CallTo("ListVms", None, None) \in CallsMade
  /\ \A b \in BOOLEAN : CallTo("SetWatcher", b, None) \in CallsMade
  /\ \A g \in GroupNames :
       /\ CallTo("LoadGroup", g, None) \in CallsMade /\ CallTo("ReloadGroup", g, None) \in CallsMade
       /\ CallTo("UnloadGroup", g, None) \in CallsMade /\ ShowDetail(g) \in CallsMade
       /\ CallTo("ExecuteLua", g, None) \in CallsMade
       /\ \A f \in Files : /\ CallTo("ReloadScript", g, f) \in CallsMade
                           /\ CallTo("UnloadScript", g, f) \in CallsMade
  BY DEF CallTo, LoadGroups, LoadWatcherStatus, ShowDetail, CallsMade

Watching == {"GetWatcherStatus", "SetWatcher"}
Data == (SUBSET GroupNames) \cup BOOLEAN \cup GroupNames \cup {None}

(* What each method answers, and what it does to the groups that are loaded. *)
Answers(m, result) ==
  /\ HandleInvoke(m, result) /\ result.ok \in BOOLEAN /\ result.data \in Data
  /\ m.call.method = "ListGroups" => result.data = loaded /\ loaded' = loaded
  /\ m.call.method \in Watching => result.data = enabled'
  /\ m.call.method # "SetWatcher" => enabled' = enabled
  /\ m.call.method = "GetGroupDetail" => result.data \in {None} \cup GroupNames
  /\ \/ loaded' = loaded
     \/ m.call.method \in ChangingGroups /\ result.ok
     \/ /\ m.call.method = "LoadGroup" /\ ~result.ok
        /\ m.call.of \in GroupNames /\ loaded' = loaded \cup {m.call.of}

LEMMA ReloadTypes ==
  ASSUME LuaTypeOK, NEW g \in GroupNames, ReloadWorks(g) \/ ReloadThrows(g)
  PROVE  /\ scripts' \in [GroupNames -> SUBSET Files]
         /\ stale' \subseteq GroupNames /\ missed' \subseteq GroupNames
  BY DEF LuaTypeOK, ReloadWorks, ReloadThrows

LEMMA SubscribeTypes ==
  ASSUME NEW m, NEW g \in GroupNames, NEW before \in [GroupNames -> 0 .. MaxSubscribed],
         Subscribe(m, g, before)
  PROVE  /\ subscribed' \in [GroupNames -> 0 .. MaxSubscribed]
         /\ HandleInvoke(m, Done(None)) \/ HandleInvoke(m, Refused)
  BY LuaAssumption DEF Subscribe, Subscribed

LEMMA LuaAnswers ==
  ASSUME LuaTypeOK, NEW m, m.call \in CallsMade, LuaHandle(m)
  PROVE  LuaTypeOK' /\ \E result : Answers(m, result)
  <1> DEFINE g == m.call.of
  <1>1. /\ m.call.method \in ChangingGroups \cup ChangingScripts \cup {"GetGroupDetail", "ExecuteLua"}
              => g \in GroupNames
        /\ m.call.method \in ChangingScripts => m.call.arg \in Files
        /\ m.call.method = "SetWatcher" => g \in BOOLEAN
        /\ m.call.method = "ListVms" => g = None
    BY CallForms
  <1>2. /\ Done(None).ok = TRUE /\ Done(None).data = None /\ None \in Data
        /\ Refused.ok = FALSE /\ Refused.data = None
    BY DEF Done, Refused, Data
  <1>3. CASE Query(m)
    <2>1. LuaTypeOK' /\ loaded' = loaded /\ enabled' = enabled
      BY <1>3 DEF Query, luaVars, managerVars, watchVars, LuaTypeOK
    <2>2. CASE m.call.method = "ListGroups" /\ HandleInvoke(m, Done(loaded))
      <3>1. Done(loaded).ok = TRUE /\ Done(loaded).data = loaded /\ loaded \in Data
        BY DEF Done, Data, LuaTypeOK
      <3> QED BY <2>1, <2>2, <3>1 DEF Answers, Watching
    <2>3. CASE m.call.method = "GetGroupDetail" /\ HandleInvoke(m, Done(Details(g)))
      <3>1. /\ Done(Details(g)).ok = TRUE /\ Done(Details(g)).data = Details(g)
            /\ Details(g) \in Data /\ Details(g) \in {None} \cup GroupNames
        BY <1>1, <2>3 DEF Done, Data, Details
      <3> QED BY <2>1, <2>3, <3>1 DEF Answers, Watching
    <2>4. CASE m.call.method = "GetWatcherStatus" /\ HandleInvoke(m, Done(enabled))
      <3>1. Done(enabled).ok = TRUE /\ Done(enabled).data = enabled /\ enabled \in Data
        BY DEF Done, Data, LuaTypeOK
      <3> QED BY <2>1, <2>4, <3>1 DEF Answers, Watching
    <2>5. CASE m.call.method \in {"ListVms", "ExecuteLua"} /\ HandleInvoke(m, Done(g))
      <3>1. Done(g).ok = TRUE /\ Done(g).data = g /\ g \in Data
        BY <1>1, <2>5 DEF Done, Data
      <3> QED BY <2>1, <2>5, <3>1 DEF Answers, Watching
    <2> QED BY <1>3, <2>2, <2>3, <2>4, <2>5 DEF Query
  <1>4. CASE NotFound(m)
    <2>1. LuaTypeOK' /\ loaded' = loaded /\ enabled' = enabled
      BY <1>4 DEF NotFound, luaVars, managerVars, watchVars, LuaTypeOK
    <2>2. /\ HandleInvoke(m, Refused)
          /\ m.call.method \in {"ReloadGroup", "UnloadGroup", "ReloadScript", "UnloadScript"}
      BY <1>4 DEF NotFound
    <2> QED BY <1>2, <2>1, <2>2 DEF Answers, Watching
  <1>5. CASE LoadGroup(m)
    <2>1. /\ m.call.method = "LoadGroup" /\ g \in GroupNames /\ enabled' = enabled
          /\ vm' \in [GroupNames -> {None, "live", "disposed"}]
          /\ UNCHANGED <<disk, changed, listed, reloading>>
      BY <1>1, <1>5 DEF LoadGroup, ChangingGroups, LuaTypeOK, watchVars
    <2>2. CASE /\ loaded' = loaded \cup {g} /\ scripts' = [scripts EXCEPT ![g] = disk[g]]
               /\ watcher' = [watcher EXCEPT ![g] = IF enabled THEN "raising" ELSE None]
               /\ stale' = stale \ {g} /\ missed' = missed \ {g}
               /\ Subscribe(m, g, subscribed)
      <3>1. /\ subscribed' \in [GroupNames -> 0 .. MaxSubscribed]
            /\ HandleInvoke(m, Done(None)) \/ HandleInvoke(m, Refused)
        BY <2>1, <2>2, SubscribeTypes DEF LuaTypeOK
      <3>2. LuaTypeOK'
        BY <2>1, <2>2, <3>1 DEF LuaTypeOK
      <3> QED BY <1>2, <2>1, <2>2, <3>1, <3>2 DEF Answers, Watching, ChangingGroups
    <2>3. CASE HandleInvoke(m, Refused)
               /\ UNCHANGED <<loaded, scripts, watcher, subscribed, stale, missed>>
      <3>1. LuaTypeOK'
        BY <2>1, <2>3 DEF LuaTypeOK
      <3> QED BY <1>2, <2>1, <2>3, <3>1 DEF Answers, Watching
    <2> QED BY <1>5, <2>2, <2>3 DEF LoadGroup
  <1>6. CASE ReloadGroup(m)
    <2> DEFINE before == IF m.call.method = "LoadGroup" THEN subscribed
                         ELSE [subscribed EXCEPT ![g] = 0]
    <2>1. /\ m.call.method \in {"LoadGroup", "ReloadGroup"} /\ g \in GroupNames
          /\ UNCHANGED <<vm, loaded, watcher, enabled, disk, changed, listed, reloading>>
          /\ \/ ReloadWorks(g) /\ Subscribe(m, g, before)
             \/ ReloadThrows(g) /\ HandleInvoke(m, Refused) /\ UNCHANGED subscribed
      BY <1>1, <1>6 DEF ReloadGroup, ChangingGroups, watchVars
    <2>2. before \in [GroupNames -> 0 .. MaxSubscribed]
      BY <2>1, LuaAssumption DEF LuaTypeOK
    <2> HIDE DEF before
    <2>3. /\ subscribed' \in [GroupNames -> 0 .. MaxSubscribed]
          /\ HandleInvoke(m, Done(None)) \/ HandleInvoke(m, Refused)
      BY <2>1, <2>2, SubscribeTypes DEF LuaTypeOK
    <2>4. LuaTypeOK'
      BY <2>1, <2>3, ReloadTypes DEF LuaTypeOK
    <2> QED BY <1>2, <2>1, <2>3, <2>4 DEF Answers, Watching
  <1>7. CASE UnloadGroup(m)
    <2>1. /\ m.call.method = "UnloadGroup" /\ g \in GroupNames /\ enabled' = enabled
          /\ HandleInvoke(m, Done(None))
      BY <1>1, <1>7 DEF UnloadGroup, ChangingGroups
    <2>2. LuaTypeOK'
      BY <1>7, <2>1, LuaAssumption DEF UnloadGroup, LuaTypeOK, watchVars
    <2> QED BY <1>2, <2>1, <2>2 DEF Answers, Watching, ChangingGroups
  <1>8. CASE ReloadScript(m)
    <2>1. /\ m.call.method = "ReloadScript" /\ g \in GroupNames
          /\ enabled' = enabled /\ loaded' = loaded
          /\ HandleInvoke(m, Done(None)) \/ HandleInvoke(m, Refused)
      BY <1>1, <1>8 DEF ReloadScript, ChangingScripts
    <2>2. LuaTypeOK'
      BY <1>8, <2>1 DEF ReloadScript, LuaTypeOK, watchVars
    <2> QED BY <1>2, <2>1, <2>2 DEF Answers, Watching
  <1>9. CASE UnloadScript(m)
    <2>1. /\ m.call.method = "UnloadScript" /\ g \in GroupNames
          /\ enabled' = enabled /\ loaded' = loaded /\ HandleInvoke(m, Done(None))
      BY <1>1, <1>9 DEF UnloadScript, ChangingScripts
    <2>2. LuaTypeOK'
      BY <1>9, <2>1 DEF UnloadScript, LuaTypeOK, watchVars
    <2> QED BY <1>2, <2>1, <2>2 DEF Answers, Watching
  <1>10. CASE SetWatcher(m)
    <2>1. /\ m.call.method = "SetWatcher" /\ enabled' = g /\ enabled' \in BOOLEAN
          /\ HandleInvoke(m, Done(enabled'))
          /\ UNCHANGED <<loaded, scripts, vm, subscribed, disk, changed, listed, reloading,
                         stale, missed>>
      BY <1>1, <1>10 DEF SetWatcher, watchVars
    <2>2. watcher' \in [GroupNames -> {None, "raising", "muted"}]
      BY <1>10, <2>1 DEF SetWatcher, LuaTypeOK
    <2>3. LuaTypeOK'
      BY <2>1, <2>2 DEF LuaTypeOK
    <2>4. Done(enabled').ok = TRUE /\ Done(enabled').data = enabled' /\ enabled' \in Data
      BY <2>1 DEF Done, Data
    <2> QED BY <2>1, <2>3, <2>4 DEF Answers, Watching
  <1> QED BY <1>3, <1>4, <1>5, <1>6, <1>7, <1>8, <1>9, <1>10 DEF LuaHandle

LEMMA FileSystemTypes ==
  ASSUME LuaTypeOK, FileSystemStep
  PROVE  LuaTypeOK' /\ UNCHANGED <<bridgeVars, loaded, enabled>>
  <1>1. ASSUME NEW g \in GroupNames, NEW f \in Files, FileChanges(g, f)
        PROVE  LuaTypeOK' /\ UNCHANGED <<bridgeVars, loaded, enabled>>
    BY <1>1 DEF FileChanges, LuaTypeOK, managerVars
  <1>2. CASE DebounceLists
    BY <1>2 DEF DebounceLists, LuaTypeOK, managerVars
  <1>3. CASE DebounceClears
    BY <1>3 DEF DebounceClears, LuaTypeOK, managerVars
  <1>4. ASSUME NEW g \in GroupNames, DebounceReloads(g)
        PROVE  LuaTypeOK' /\ UNCHANGED <<bridgeVars, loaded, enabled>>
    BY <1>4, ReloadTypes DEF DebounceReloads, LuaTypeOK
  <1> QED BY <1>1, <1>2, <1>3, <1>4 DEF FileSystemStep

-----------------------------------------------------------------------------
(* What is subscribed, what raises and what is reloaded *)

LEMMA SubscribedHandle ==
  ASSUME LuaTypeOK, SubscribedIsLoaded, NEW m, m.call \in CallsMade, LuaHandle(m)
  PROVE  SubscribedIsLoaded'
  <1> DEFINE g == m.call.of
  <1>1. /\ m.call.method \in ChangingGroups => g \in GroupNames
        /\ m.call.method = "SetWatcher" => g \in BOOLEAN
    BY CallForms
  <1>2. /\ loaded \subseteq GroupNames /\ enabled \in BOOLEAN
        /\ subscribed \in [GroupNames -> 0 .. MaxSubscribed]
        /\ vm \in [GroupNames -> {None, "live", "disposed"}]
        /\ watcher \in [GroupNames -> {None, "raising", "muted"}]
    BY DEF LuaTypeOK
  <1>3. ASSUME UNCHANGED <<loaded, vm, watcher, enabled, subscribed>>
        PROVE  SubscribedIsLoaded'
    BY <1>3 DEF SubscribedIsLoaded
  <1>4. CASE Query(m) \/ NotFound(m) \/ ReloadScript(m) \/ UnloadScript(m)
    BY <1>3, <1>4 DEF Query, NotFound, ReloadScript, UnloadScript, luaVars, managerVars
  <1>5. CASE LoadGroup(m)
    <2>1. /\ g \in GroupNames /\ g \notin loaded /\ enabled' = enabled
          /\ vm' = [vm EXCEPT ![g] = IF @ = None THEN "live" ELSE @]
      BY <1>1, <1>5 DEF LoadGroup, ChangingGroups
    <2>2. subscribed[g] = 0 /\ watcher[g] # "raising"
      BY <1>2, <2>1 DEF SubscribedIsLoaded
    <2>3. \A h \in GroupNames \ {g} : vm'[h] = vm[h]
      BY <1>2, <2>1
    <2>4. CASE UNCHANGED <<loaded, watcher, subscribed>>
      BY <1>2, <2>1, <2>2, <2>3, <2>4 DEF SubscribedIsLoaded
    <2>5. CASE /\ loaded' = loaded \cup {g}
               /\ watcher' = [watcher EXCEPT ![g] = IF enabled THEN "raising" ELSE None]
               /\ Subscribe(m, g, subscribed)
      <3>1. \A h \in GroupNames \ {g} : subscribed'[h] = subscribed[h] /\ watcher'[h] = watcher[h]
        BY <1>2, <2>1, <2>5 DEF Subscribe, Subscribed
      <3>2. subscribed'[g] > 0 => vm'[g] = "live"
        BY <1>2, <2>1, <2>2, <2>5 DEF Subscribe, Subscribed
      <3>3. watcher'[g] = "raising" => enabled
        BY <1>2, <2>1, <2>5, LuaAssumption
      <3> QED BY <2>1, <2>3, <2>5, <3>1, <3>2, <3>3 DEF SubscribedIsLoaded
    <2> QED BY <1>5, <2>4, <2>5 DEF LoadGroup
  <1>6. CASE ReloadGroup(m)
    <2> DEFINE before == IF m.call.method = "LoadGroup" THEN subscribed
                         ELSE [subscribed EXCEPT ![g] = 0]
    <2>1. /\ g \in GroupNames /\ g \in loaded /\ UNCHANGED <<vm, loaded, watcher, enabled>>
          /\ Subscribe(m, g, before) \/ UNCHANGED subscribed
      BY <1>1, <1>6 DEF ReloadGroup, ChangingGroups
    <2>2. /\ before \in [GroupNames -> 0 .. MaxSubscribed]
          /\ \A h \in GroupNames \ {g} : before[h] = subscribed[h]
          /\ before[g] > 0 => subscribed[g] > 0
      BY <1>2, <2>1, LuaAssumption
    <2> HIDE DEF before
    <2>3. CASE Subscribe(m, g, before)
      <3>1. \A h \in GroupNames \ {g} : subscribed'[h] = subscribed[h]
        BY <2>1, <2>2, <2>3 DEF Subscribe, Subscribed
      <3>2. subscribed'[g] > 0 => vm[g] = "live"
        BY <2>1, <2>2, <2>3 DEF Subscribe, Subscribed, SubscribedIsLoaded
      <3> QED BY <2>1, <3>1, <3>2 DEF SubscribedIsLoaded
    <2> QED BY <1>3, <2>1, <2>3
  <1>7. CASE UnloadGroup(m)
    <2>1. /\ g \in GroupNames /\ loaded' = loaded \ {g} /\ enabled' = enabled
          /\ vm' = [vm EXCEPT ![g] = "disposed"] /\ watcher' = [watcher EXCEPT ![g] = None]
          /\ subscribed' = [subscribed EXCEPT ![g] = 0]
      BY <1>1, <1>7 DEF UnloadGroup, ChangingGroups
    <2> QED BY <1>2, <2>1, LuaAssumption DEF SubscribedIsLoaded
  <1>8. CASE SetWatcher(m)
    <2>1. enabled' \in BOOLEAN /\ UNCHANGED <<loaded, vm, subscribed>>
      BY <1>1, <1>8 DEF SetWatcher
    <2>2. CASE ~enabled /\ enabled'
      <3>1. watcher' = [h \in GroupNames |-> IF h \in loaded /\ watcher[h] = None
                                             THEN "raising" ELSE watcher[h]]
        BY <1>8, <2>2 DEF SetWatcher
      <3> QED BY <2>1, <2>2, <3>1 DEF SubscribedIsLoaded
    <2>3. CASE enabled /\ ~enabled'
      <3>1. watcher' = [h \in GroupNames |-> IF watcher[h] = None THEN None ELSE "muted"]
        BY <1>8, <2>3 DEF SetWatcher
      <3> QED BY <2>1, <3>1, LuaAssumption DEF SubscribedIsLoaded
    <2>4. CASE enabled' = enabled
      <3>1. watcher' = watcher
        BY <1>2, <1>8, <2>4 DEF SetWatcher
      <3> QED BY <1>3, <2>1, <2>4, <3>1
    <2> QED BY <1>2, <2>1, <2>2, <2>3, <2>4
  <1> QED BY <1>4, <1>5, <1>6, <1>7, <1>8 DEF LuaHandle

LEMMA SubscribedFileSystem ==
  ASSUME SubscribedIsLoaded, FileSystemStep
  PROVE  SubscribedIsLoaded'
  <1>1. UNCHANGED <<loaded, vm, watcher, enabled, subscribed>>
    BY DEF FileSystemStep, FileChanges, DebounceLists, DebounceClears, DebounceReloads, managerVars
  <1> QED BY <1>1 DEF SubscribedIsLoaded

(* A reload leaves the other groups as they are. *)
LEMMA ReloadFacts ==
  ASSUME LuaTypeOK, NEW g \in GroupNames, ReloadWorks(g) \/ ReloadThrows(g)
  PROVE  /\ \A h \in GroupNames \ {g} : /\ scripts'[h] = scripts[h]
                                        /\ h \in stale <=> h \in stale'
                                        /\ h \in missed <=> h \in missed'
         /\ g \in stale' \/ scripts'[g] = disk[g]
  BY DEF LuaTypeOK, ReloadWorks, ReloadThrows

(* A callback that lists the changes comes after the one before it has reloaded its own. *)
OneCallback == listed = {} \/ reloading = {}

LEMMA ReloadedHandle ==
  ASSUME LuaTypeOK, ChangesAreReloaded, OneCallback, NEW m, m.call \in CallsMade, LuaHandle(m)
  PROVE  ChangesAreReloaded' /\ OneCallback'
  <1> DEFINE g == m.call.of
  <1>1. m.call.method \in ChangingGroups \cup ChangingScripts => g \in GroupNames
    BY CallForms
  <1>2. /\ scripts \in [GroupNames -> SUBSET Files] /\ disk \in [GroupNames -> SUBSET Files]
        /\ loaded \subseteq GroupNames
    BY DEF LuaTypeOK
  <1>3. UNCHANGED <<disk, changed, listed, reloading>>
    BY DEF LuaHandle, Query, NotFound, LoadGroup, ReloadGroup, UnloadGroup, ReloadScript,
           UnloadScript, SetWatcher, luaVars, watchVars
  <1>4. ASSUME UNCHANGED <<loaded, scripts, stale, missed>>
        PROVE  ChangesAreReloaded'
    BY <1>3, <1>4 DEF ChangesAreReloaded
  <1> OneCallback'
    BY <1>3 DEF OneCallback
  <1>5. CASE Query(m) \/ NotFound(m) \/ SetWatcher(m)
    BY <1>4, <1>5 DEF Query, NotFound, SetWatcher, luaVars, managerVars
  <1>6. CASE LoadGroup(m)
    <2>1. g \in GroupNames
      BY <1>1, <1>6 DEF LoadGroup, ChangingGroups
    <2>2. CASE /\ loaded' = loaded \cup {g} /\ scripts' = [scripts EXCEPT ![g] = disk[g]]
               /\ stale' = stale \ {g} /\ missed' = missed \ {g}
      BY <1>2, <1>3, <2>1, <2>2 DEF ChangesAreReloaded
    <2> QED BY <1>4, <1>6, <2>2 DEF LoadGroup
  <1>7. CASE ReloadGroup(m)
    <2>1. /\ g \in GroupNames /\ loaded' = loaded
          /\ ReloadWorks(g) \/ ReloadThrows(g)
      BY <1>1, <1>7 DEF ReloadGroup, ChangingGroups
    <2>2. /\ \A h \in GroupNames \ {g} : /\ scripts'[h] = scripts[h]
                                         /\ h \in stale <=> h \in stale'
                                         /\ h \in missed <=> h \in missed'
          /\ g \in stale' \/ scripts'[g] = disk[g]
      BY <2>1, ReloadFacts
    <2> QED BY <1>2, <1>3, <2>1, <2>2 DEF ChangesAreReloaded
  <1>8. CASE UnloadGroup(m)
    <2>1. /\ loaded' = loaded \ {g} /\ scripts' = [scripts EXCEPT ![g] = {}]
          /\ stale' = stale \ {g} /\ missed' = missed \ {g}
      BY <1>8 DEF UnloadGroup
    <2> QED BY <1>2, <1>3, <2>1 DEF ChangesAreReloaded
  <1>9. CASE ReloadScript(m)
    <2>1. UNCHANGED <<loaded, stale, missed>>
      BY <1>9 DEF ReloadScript
    <2>2. CASE UNCHANGED scripts
      BY <1>4, <2>1, <2>2
    <2>3. CASE m.call.arg \in scripts[g] /\ m.call.arg \notin disk[g]
               /\ scripts' = [scripts EXCEPT ![g] = @ \ {m.call.arg}]
      BY <1>2, <1>3, <2>1, <2>3 DEF ChangesAreReloaded
    <2> QED BY <1>9, <2>2, <2>3 DEF ReloadScript
  <1>10. CASE UnloadScript(m)
    <2>1. /\ scripts' = [scripts EXCEPT ![g] = @ \ {m.call.arg}]
          /\ stale' = stale \cup {g} /\ UNCHANGED <<loaded, missed>>
      BY <1>10 DEF UnloadScript
    <2> QED BY <1>2, <1>3, <2>1 DEF ChangesAreReloaded
  <1> QED BY <1>5, <1>6, <1>7, <1>8, <1>9, <1>10 DEF LuaHandle

LEMMA ReloadedFileSystem ==
  ASSUME LuaTypeOK, ChangesAreReloaded, OneCallback, FileSystemStep
  PROVE  ChangesAreReloaded' /\ OneCallback'
  <1> OneCallback'
    BY DEF FileSystemStep, FileChanges, DebounceLists, DebounceClears, DebounceReloads, OneCallback,
           LuaTypeOK
  <1>1. ASSUME NEW g \in GroupNames, NEW f \in Files, FileChanges(g, f)
        PROVE  ChangesAreReloaded'
    <2>1. /\ UNCHANGED <<loaded, scripts, listed, reloading, watcher, enabled>>
          /\ \A h \in GroupNames \ {g} : disk'[h] = disk[h]
      BY <1>1 DEF FileChanges, managerVars, LuaTypeOK
    <2>2. /\ changed \subseteq changed' /\ stale \subseteq stale' /\ missed \subseteq missed'
          /\ g \in loaded => g \in changed' \cup stale' \cup missed'
      BY <1>1 DEF FileChanges
    <2> QED BY <2>1, <2>2 DEF ChangesAreReloaded, LuaTypeOK
  <1>2. CASE DebounceLists
    BY <1>2 DEF DebounceLists, ChangesAreReloaded, managerVars
  <1>3. CASE DebounceClears
    <2>1. /\ UNCHANGED <<loaded, scripts, disk, stale>> /\ listed' = {} /\ changed' = {}
          /\ reloading' = listed /\ missed' = missed \cup (loaded \cap (changed \ listed))
          /\ reloading = {}
      BY <1>3 DEF DebounceClears, managerVars, OneCallback
    <2> QED BY <2>1 DEF ChangesAreReloaded
  <1>4. ASSUME NEW g \in GroupNames, DebounceReloads(g)
        PROVE  ChangesAreReloaded'
    <2>1. UNCHANGED <<loaded, disk, changed, listed>> /\ reloading' = reloading \ {g}
      BY <1>4 DEF DebounceReloads
    <2>2. CASE ReloadWorks(g) \/ ReloadThrows(g)
      BY <2>1, <2>2, ReloadFacts DEF ChangesAreReloaded, LuaTypeOK
    <2>3. CASE g \notin loaded /\ UNCHANGED <<scripts, stale, missed>>
      BY <2>1, <2>3 DEF ChangesAreReloaded
    <2> QED BY <1>4, <2>2, <2>3 DEF DebounceReloads
  <1> QED BY <1>1, <1>2, <1>3, <1>4 DEF FileSystemStep

-----------------------------------------------------------------------------
(***************************************************************************)
(* What keeps the page current. An answer with data is of the kind that    *)
(* its method returns. On a page that was mounted with no call open, the   *)
(* last list on its way, or the one that is shown, is of the groups that   *)
(* are loaded but for those of a LoadGroup that failed later, unless a      *)
(* list is asked for or about to be; likewise the state of the watchers.   *)
(* A button that spins waits for a call.                                   *)
(***************************************************************************)
Fits ==
  \A a \in Told :
    /\ promise[a.id].method = "ListGroups" => a.data \subseteq GroupNames
    /\ promise[a.id].method \in Watching => a.data \in BOOLEAN
    /\ promise[a.id].method = "GetGroupDetail" => a.data \in {None} \cup GroupNames

Lists == {a \in Told : promise[a.id].method = "ListGroups"}
ListToCome ==
  \/ \E m \in Asking : m.call.method = "ListGroups"
  \/ \E a \in Told : a.ok /\ promise[a.id].method \in ChangingGroups
FailedLoad(a, g) == ~a.ok /\ promise[a.id].method = "LoadGroup" /\ promise[a.id].of = g
LastList(a) ==
  /\ a.data \subseteq loaded
  /\ \A g \in loaded \ a.data : \E b \in Told : Later(a, b) /\ FailedLoad(b, g)
ShownList ==
  /\ groups \subseteq loaded
  /\ \A g \in loaded \ groups : g \in unseen \/ \E b \in Told : FailedLoad(b, g)
ListKept ==
  ListToCome \/ /\ \A a \in Lists : (\E b \in Lists : Later(a, b)) \/ LastList(a)
                /\ Lists = {} => ShownList

Watched == {a \in Told : promise[a.id].method \in Watching}
WatcherKept ==
  /\ \A a \in Watched : (\E b \in Watched : Later(a, b)) \/ a.data = enabled
  /\ Watched = {} => \/ \E m \in Asking : m.call.method \in Watching
                     \/ watcherEnabled = enabled

Waits(method) == \E x \in Asking \cup Told : promise[x.id].method = method
SpinsWhileOpen == (loading => Waits("ListGroups")) /\ (executing => Waits("ExecuteLua"))

PageKept ==
  /\ running = {} /\ Fits
  /\ clean => orphans = {}
  /\ clean /\ At("lua") => ListKept /\ WatcherKept /\ SpinsWhileOpen

Kept == Wires(CallsMade, Data) /\ PageKept

(* More may be asked while nothing that is told or shown changes. *)
LEMMA AskingKeeps ==
  ASSUME Kept, running' = running, Told' = Told, Asking \subseteq Asking',
         \A a, b : Later(a, b) => Later(a, b)',
         \A i \in Ids : promise[i] # None => promise'[i] = promise[i],
         UNCHANGED <<loaded, enabled, page, clean, orphans, groups, unseen, watcherEnabled, loading>>,
         executing' => executing \/ \E m \in Asking' : promise'[m.id].method = "ExecuteLua"
  PROVE  PageKept'
  <1>1. \A x \in Asking \cup Told : promise'[x.id] = promise[x.id]
    <2>1. \A x \in Asking \cup Told : x.id \in Ids /\ promise[x.id] # None
      BY NoneIsNoCall, OpenFacts DEF Kept, Open
    <2> QED BY <2>1
  <1>2. Fits' /\ running' = {}
    BY <1>1 DEF Fits, Kept, PageKept
  <1>3. clean' => orphans' = {}
    BY DEF Kept, PageKept
  <1>4. ASSUME (clean /\ At("lua"))'
        PROVE  (ListKept /\ WatcherKept /\ SpinsWhileOpen)'
    <2>1. ListKept /\ WatcherKept /\ SpinsWhileOpen
      BY <1>4 DEF Kept, PageKept, At
    <2>2. Lists' = Lists /\ Watched' = Watched
      BY <1>1 DEF Lists, Watched
    <2>3. \A a \in Told : \A g : FailedLoad(a, g) => FailedLoad(a, g)'
      BY <1>1 DEF FailedLoad
    <2>4. ListToCome => ListToCome'
      BY <1>1 DEF ListToCome
    <2>5. \A a \in Lists : LastList(a) => LastList(a)'
      BY <2>3 DEF LastList, Lists
    <2>6. ShownList => ShownList'
      BY <2>3 DEF ShownList
    <2>7. ListKept'
      BY <2>1, <2>2, <2>4, <2>5, <2>6 DEF ListKept
    <2>8. WatcherKept'
      BY <2>1, <2>2 DEF WatcherKept
    <2>9. SpinsWhileOpen'
      BY <1>1, <2>1 DEF SpinsWhileOpen, Waits
    <2> QED BY <2>7, <2>8, <2>9
  <1> QED BY <1>2, <1>3, <1>4 DEF PageKept

LEMMA StillKeeps ==
  ASSUME Kept,
         UNCHANGED <<bridgeVars, loaded, enabled, page, clean, orphans, groups, unseen, watcherEnabled,
                     loading, executing>>
  PROVE  Kept'
  <1>1. /\ Wires(CallsMade, Data)' /\ Asking' = Asking /\ Told' = Told
        /\ \A a, b : Later(a, b) => Later(a, b)'
    BY Still DEF Kept
  <1>2. UNCHANGED <<running, promise>>
    BY DEF bridgeVars, nativeVars
  <1>3. PageKept'
    BY <1>1, <1>2, AskingKeeps
  <1> QED BY <1>1, <1>3 DEF Kept

(* A click that makes a call. *)
LEMMA ClickKeeps ==
  ASSUME Kept, NEW call \in CallsMade, Make(<<call>>),
         UNCHANGED <<loaded, enabled, groups, unseen, watcherEnabled, loading>>,
         executing' = executing \/ call.method = "ExecuteLua"
  PROVE  Kept' /\ UNCHANGED <<page, orphans, clean>>
  <1> DEFINE rs == RequestsFor(<<call>>)
  <1>1. <<call>> \in Seq(CallsMade) /\ Len(<<call>>) <= 2 /\ DOMAIN <<call>> = {1} /\ <<call>>[1] = call
    OBVIOUS
  <1>2. /\ CanCall(<<call>>) /\ Turn({}, RequestsFor(<<call>>)) /\ UNCHANGED answerVars
        /\ UNCHANGED <<page, orphans, clean>>
    BY DEF Make
  <1>3. /\ Wires(CallsMade, Data)' /\ Posted({}, RequestsFor(<<call>>)) /\ Told' = Told
        /\ \A a, b : Later(a, b) => Later(a, b)'
        /\ \A i \in Ids : promise[i] # None => promise'[i] = promise[i]
    BY <1>1, <1>2, Clicked, NoneIsNoCall DEF Kept
  <1>4. \E m \in Messages(rs) : m.call = call
    <2>1. \A k \in DOMAIN <<call>> : \E m \in Messages(rs) : m.call = <<call>>[k]
      BY <1>1, <1>2, Clicked, NoneIsNoCall DEF Kept
    <2> QED BY <1>1, <2>1
  <1> HIDE DEF rs
  <1>5. Asking' = Asking \cup Messages(rs) /\ running' = running
    BY <1>3 DEF Posted, rs
  <1>6. \A m \in Asking' : promise'[m.id] = m.call
    BY <1>3 DEF Wires
  <1>7. executing' => executing \/ \E m \in Asking' : promise'[m.id].method = "ExecuteLua"
    BY <1>4, <1>5, <1>6
  <1>8. PageKept'
    BY <1>2, <1>3, <1>5, <1>7, AskingKeeps
  <1> QED BY <1>2, <1>3, <1>8 DEF Kept

(* Another page is mounted. *)
LEMMA GoingKeeps ==
  ASSUME Kept, NEW to, NEW calls \in Seq(CallsMade), Len(calls) <= 2, CanCall(calls),
         Navigate({}, to, RequestsFor(calls)), FreshView, UNCHANGED <<answerVars, loaded, enabled>>,
         to.view = "lua" => calls = <<LoadGroups, LoadWatcherStatus>>
  PROVE  Kept'
  <1> DEFINE rs == RequestsFor(calls)
  <1>1. /\ Turn({}, rs) /\ page' = to /\ loading' = (rs # <<>>) /\ ~executing'
        /\ orphans' = Open \ {} /\ clean' = (Open \subseteq {})
    BY DEF Navigate, FreshView
  <1>2. /\ Wires(CallsMade, Data)' /\ Posted({}, rs) /\ Told' = Told
        /\ \A i \in Ids : promise[i] # None => promise'[i] = promise[i]
        /\ \A k \in DOMAIN calls : \E m \in Messages(rs) : m.call = calls[k]
    BY <1>1, Clicked, NoneIsNoCall DEF Kept
  <1> HIDE DEF rs
  <1>3. Asking' = Asking \cup Messages(rs) /\ running' = running
    BY <1>2 DEF Posted
  <1>4. \A a \in Told : promise'[a.id] = promise[a.id]
    <2>1. \A a \in Told : a.id \in Ids /\ promise[a.id] # None
      BY NoneIsNoCall, OpenFacts DEF Kept, Open
    <2> QED BY <1>2, <2>1
  <1>5. Fits' /\ running' = {}
    BY <1>2, <1>3, <1>4 DEF Fits, Kept, PageKept
  <1>6. clean' => orphans' = {}
    BY <1>1
  <1>7. ASSUME (clean /\ At("lua"))'
        PROVE  (ListKept /\ WatcherKept /\ SpinsWhileOpen)'
    <2>1. Told' = {}
      BY <1>1, <1>2, <1>7, NoneIsNoCall, OpenFacts DEF Kept
    <2>2. calls = <<LoadGroups, LoadWatcherStatus>>
      BY <1>1, <1>7 DEF At
    <2>3. /\ \E m \in Asking' : m.call = LoadGroups
          /\ \E m \in Asking' : m.call = LoadWatcherStatus
      <3>1. 1 \in DOMAIN calls /\ calls[1] = LoadGroups /\ 2 \in DOMAIN calls /\ calls[2] = LoadWatcherStatus
        BY <2>2
      <3> QED BY <1>2, <1>3, <3>1
    <2>4. LoadGroups.method = "ListGroups" /\ LoadWatcherStatus.method \in Watching
      BY DEF LoadGroups, LoadWatcherStatus, CallTo, Watching
    <2>5. ListToCome'
      BY <2>3, <2>4 DEF ListToCome
    <2>6. WatcherKept'
      BY <2>1, <2>3, <2>4 DEF WatcherKept, Watched
    <2>7. \A m \in Asking' : promise'[m.id] = m.call
      BY <1>2 DEF Wires
    <2>8. SpinsWhileOpen'
      BY <1>1, <2>3, <2>4, <2>7 DEF SpinsWhileOpen, Waits
    <2> QED BY <2>5, <2>6, <2>8 DEF ListKept
  <1> QED BY <1>2, <1>5, <1>6, <1>7 DEF Kept, PageKept

(* The host answers a call. *)
LEMMA HandlingKeeps ==
  ASSUME Kept, LuaTypeOK, LuaTypeOK', NEW m, NEW result, Answers(m, result),
         UNCHANGED <<page, clean, orphans, groups, unseen, watcherEnabled, loading, executing>>
  PROVE  Kept'
  <1> DEFINE e == [id |-> m.id, ok |-> result.ok, data |-> result.data]
  <1>1. /\ Wires(CallsMade, Data)'
        /\ m \in Asking /\ Asking' = Asking \ {m} /\ running' = running /\ promise' = promise
        /\ Told' = Told \cup {e} /\ e \notin Told
        /\ \A a \in Told : Later(a, e)'
        /\ \A a, b \in Told : Later(a, b) => Later(a, b)'
        /\ promise[m.id] = m.call /\ m.call \in CallsMade
    BY Handles, NoneIsNoCall DEF Answers, Kept
  <1>2. e.id = m.id /\ e.ok = result.ok /\ e.data = result.data /\ result.ok \in BOOLEAN
    BY DEF Answers
  <1>3. /\ m.call.method = "ListGroups" => e.data = loaded /\ loaded' = loaded
        /\ m.call.method \in Watching => e.data = enabled'
        /\ m.call.method # "SetWatcher" => enabled' = enabled
        /\ m.call.method = "GetGroupDetail" => e.data \in {None} \cup GroupNames
        /\ \/ loaded' = loaded
           \/ m.call.method \in ChangingGroups /\ e.ok
           \/ /\ m.call.method = "LoadGroup" /\ ~e.ok
              /\ m.call.of \in GroupNames /\ loaded' = loaded \cup {m.call.of}
    BY DEF Answers
  <1> HIDE DEF e
  <1>4. /\ \A a \in Told' : a \in Told \/ a = e
        /\ \A a \in Told' : promise'[a.id] = promise[a.id]
        /\ promise'[e.id] = m.call
    BY <1>1, <1>2
  <1>5. Fits'
    <2>1. /\ m.call.method = "ListGroups" => e.data \subseteq GroupNames
          /\ m.call.method \in Watching => e.data \in BOOLEAN
      BY <1>3 DEF LuaTypeOK
    <2> QED BY <1>3, <1>4, <2>1 DEF Fits, Kept, PageKept
  <1>6. ASSUME (clean /\ At("lua"))'
        PROVE  (ListKept /\ WatcherKept /\ SpinsWhileOpen)'
    <2>1. ListKept /\ WatcherKept /\ SpinsWhileOpen
      BY <1>6 DEF Kept, PageKept, At
    <2>2. /\ Lists' = IF m.call.method = "ListGroups" THEN Lists \cup {e} ELSE Lists
          /\ Watched' = IF m.call.method \in Watching THEN Watched \cup {e} ELSE Watched
      BY <1>1, <1>4 DEF Lists, Watched
    <2>3. \A a \in Told : \A g : FailedLoad(a, g) => FailedLoad(a, g)'
      BY <1>1 DEF FailedLoad
    <2>4. ListKept'
      <3>1. CASE m.call.method = "ListGroups"
        <4>1. LastList(e)'
          BY <1>3, <3>1 DEF LastList
        <4>2. \A a \in Lists' : a = e \/ (e \in Lists' /\ Later(a, e)')
          BY <1>1, <2>2, <3>1 DEF Lists
        <4>3. Lists' # {}
          BY <2>2, <3>1
        <4> QED BY <4>1, <4>2, <4>3 DEF ListKept
      <3>2. CASE m.call.method # "ListGroups" /\ ListToCome
        <4>1. ListToCome'
          BY <1>1, <3>2 DEF ListToCome
        <4> QED BY <4>1 DEF ListKept
      <3>3. CASE m.call.method \in ChangingGroups /\ e.ok
        <4>1. ListToCome'
          BY <1>1, <1>4, <3>3 DEF ListToCome
        <4> QED BY <4>1 DEF ListKept
      <3>4. CASE /\ m.call.method # "ListGroups" /\ ~ListToCome
                 /\ \/ loaded' = loaded
                    \/ /\ m.call.method = "LoadGroup" /\ ~e.ok
                       /\ loaded' = loaded \cup {m.call.of}
        <4>1. /\ \A a \in Lists : (\E b \in Lists : Later(a, b)) \/ LastList(a)
              /\ Lists = {} => ShownList
              /\ Lists' = Lists /\ Lists \subseteq Told
          BY <2>1, <2>2, <3>4 DEF ListKept, Lists
        <4>2. \A g \in loaded' \ loaded : FailedLoad(e, g)'
          BY <1>4, <3>4 DEF FailedLoad
        <4>3. loaded \subseteq loaded' /\ Told \subseteq Told' /\ e \in Told'
          BY <1>1, <3>4
        <4>4. ASSUME NEW a \in Lists, LastList(a)
              PROVE  LastList(a)'
          <5>1. a.data \subseteq loaded'
            BY <4>3, <4>4 DEF LastList
          <5>2. ASSUME NEW g \in loaded' \ a.data
                PROVE  \E b \in Told' : Later(a, b)' /\ FailedLoad(b, g)'
            <6>1. CASE g \in loaded
              <7>1. PICK b \in Told : Later(a, b) /\ FailedLoad(b, g)
                BY <4>4, <5>2, <6>1 DEF LastList
              <7> QED BY <1>1, <2>3, <4>1, <4>3, <7>1
            <6>2. CASE g \notin loaded
              BY <1>1, <4>1, <4>2, <4>3, <6>2
            <6> QED BY <6>1, <6>2
          <5> QED BY <5>1, <5>2 DEF LastList
        <4>5. ShownList => ShownList'
          BY <2>3, <4>2, <4>3 DEF ShownList
        <4>6. \A a \in Lists' : (\E b \in Lists' : Later(a, b)') \/ LastList(a)'
          BY <1>1, <4>1, <4>4
        <4> QED BY <4>1, <4>5, <4>6 DEF ListKept
      <3> QED BY <1>3, <3>1, <3>2, <3>3, <3>4
    <2>5. WatcherKept'
      <3>1. CASE m.call.method \in Watching
        <4>1. \A a \in Watched' : a = e \/ (e \in Watched' /\ Later(a, e)')
          BY <1>1, <2>2, <3>1 DEF Watched
        <4>2. Watched' # {} /\ e.data = enabled'
          BY <1>3, <2>2, <3>1
        <4> QED BY <4>1, <4>2 DEF WatcherKept
      <3>2. CASE m.call.method \notin Watching
        <4>1. Watched' = Watched /\ Watched \subseteq Told /\ enabled' = enabled
          BY <1>3, <2>2, <3>2 DEF Watched, Watching
        <4>2. \A n \in Asking : n.call.method \in Watching => n \in Asking'
          BY <1>1, <3>2
        <4>3. \A a \in Watched' : (\E b \in Watched' : Later(a, b)') \/ a.data = enabled'
          BY <1>1, <2>1, <4>1 DEF WatcherKept
        <4> QED BY <2>1, <4>1, <4>2, <4>3 DEF WatcherKept
      <3> QED BY <3>1, <3>2
    <2>6. SpinsWhileOpen'
      <3>1. ASSUME NEW x \in Asking \cup Told
            PROVE  \E y \in Asking' \cup Told' : promise'[y.id] = promise[x.id]
        <4>1. CASE x = m
          BY <1>1, <1>2, <4>1
        <4>2. CASE x # m
          BY <1>1, <4>2
        <4> QED BY <4>1, <4>2
      <3>2. \A method : Waits(method) => Waits(method)'
        BY <3>1 DEF Waits
      <3> QED BY <2>1, <3>2 DEF SpinsWhileOpen
    <2> QED BY <2>4, <2>5, <2>6
  <1>7. running' = {} /\ (clean' => orphans' = {})
    BY <1>1 DEF Kept, PageKept
  <1> QED BY <1>1, <1>5, <1>6, <1>7 DEF Kept, PageKept

(* What the code after an await does to what is kept, on the page that made the call. *)
LEMMA Effects ==
  ASSUME NEW a, Continue(a), a.id \notin orphans, promise[a.id] \in CallsMade
  PROVE  LET call == promise[a.id]
         IN /\ IF call.method = "ListGroups"
               THEN groups' = a.data /\ ~loading'
               ELSE /\ groups' = groups /\ unseen \subseteq unseen'
                    /\ loading' => loading \/ (a.ok /\ call.method \in ChangingGroups)
                    /\ ~a.ok /\ call.method = "LoadGroup" => call.of \in groups \cup unseen'
            /\ watcherEnabled' = IF call.method \in Watching THEN a.data ELSE watcherEnabled
            /\ executing' => executing /\ call.method # "ExecuteLua"
  <1> DEFINE call == promise[a.id]
  <1>1. CASE GroupsLoaded(a, call)
    BY <1>1 DEF GroupsLoaded, Watching
  <1>2. CASE WatcherKnown(a, call)
    BY <1>2 DEF WatcherKnown, Watching
  <1>3. CASE GroupsChanged(a, call)
    BY <1>3 DEF GroupsChanged, Watching, ChangingGroups
  <1>4. CASE DetailKnown(a, call) \/ ScriptChanged(a, call) \/ VmsListed(a, call)
    BY <1>4 DEF DetailKnown, ScriptChanged, VmsListed, Watching, ChangingScripts
  <1>5. CASE Executed(a, call)
    BY <1>5 DEF Executed, Watching
  <1> QED BY <1>1, <1>2, <1>3, <1>4, <1>5 DEF Continue

(* The calls that an await goes on with. *)
LEMMA FollowingCall ==
  ASSUME NEW a, promise[a.id] \in CallsMade, detail \in {None} \cup GroupNames
  PROVE  LET following == Following(a, promise[a.id])
         IN /\ following = <<>> \/ \E c \in CallsMade : following = <<Request(a.id, c)>>
            /\ promise[a.id].method \in ChangingGroups /\ a.ok =>
                 following = <<Request(a.id, LoadGroups)>>
  <1> DEFINE call == promise[a.id]
  <1>1. CASE call.method \in ChangingGroups /\ a.ok
    BY <1>1, CallsOfPage DEF Following, Follow
  <1>2. CASE call.method \in ChangingScripts /\ a.ok /\ DetailOf(a, call) # None
    <2>1. call.of \in GroupNames
      BY <1>2, CallForms
    <2>2. DetailOf(a, call) \in GroupNames
      BY <1>2, <2>1 DEF DetailOf
    <2>3. ShowDetail(DetailOf(a, call)) \in CallsMade
      BY <2>2, CallsOfPage
    <2>4. call.method \notin ChangingGroups
      BY <1>2 DEF ChangingGroups, ChangingScripts
    <2> QED BY <1>2, <2>3, <2>4 DEF Following, Follow
  <1>3. CASE /\ ~(call.method \in ChangingGroups /\ a.ok)
             /\ ~(call.method \in ChangingScripts /\ a.ok /\ DetailOf(a, call) # None)
    BY <1>3 DEF Following
  <1> QED BY <1>1, <1>2, <1>3

(* An answer reaches the page, or one that is gone. *)
LEMMA ContinuingKeeps ==
  ASSUME Kept, NEW a, Continue(a), detail \in {None} \cup GroupNames
  PROVE  Kept'
  <1> DEFINE call == promise[a.id]
             following == Following(a, call)
  <1>1. /\ Arrives(a) /\ Turn({a.id}, following) /\ UNCHANGED <<loaded, enabled, page, clean>>
        /\ orphans' = IF following = <<>> THEN orphans \ {a.id} ELSE orphans
    BY DEF Continue, Settled, luaVars, managerVars
  <1>2. a \in Told /\ call \in CallsMade
    <2>1. a \in Told
      BY <1>1, LaterTail DEF Arrives, Kept, Wires
    <2> QED BY <2>1, OpenFacts, NoneIsNoCall DEF Kept
  <1>3. /\ following = <<>> \/ \E c \in CallsMade : following = <<Request(a.id, c)>>
        /\ call.method \in ChangingGroups /\ a.ok => following = <<Request(a.id, LoadGroups)>>
    BY <1>2, FollowingCall
  <1> HIDE DEF following
  <1>4. /\ Wires(CallsMade, Data)' /\ Told' = Told \ {a} /\ running' = running
        /\ \A m \in Asking \cup running : m.id # a.id
        /\ \A b \in Told' : b.id # a.id
        /\ \A b \in Told : ~Later(b, a)
        /\ \A b, c \in Told' : Later(b, c) => Later(b, c)'
        /\ \A i \in Ids \ {a.id} : promise'[i] = promise[i]
        /\ following = <<>> => Asking' = Asking /\ promise'[a.id] = None
        /\ \A c \in CallsMade : following = <<Request(a.id, c)>> =>
             /\ Asking' = Asking \cup {[id |-> a.id, call |-> c, web |-> TRUE]}
             /\ promise'[a.id] = c
    <2>1. Settlement(CallsMade, Data, a, following)
      BY <1>1, <1>3, Settles, NoneIsNoCall DEF Kept
    <2> QED BY <2>1 DEF Settlement
  <1>5. /\ \A x \in Asking \cup Told' : promise'[x.id] = promise[x.id]
        /\ Asking \subseteq Asking' /\ \A m \in Asking : m.call = promise[m.id]
    <2>1. \A x \in Asking \cup Told' : x.id \in Ids \ {a.id}
      BY <1>4, NoneIsNoCall, OpenFacts DEF Kept, Open
    <2>2. \A m \in Asking : m.call = promise[m.id]
      BY DEF Kept, Wires
    <2> QED BY <1>3, <1>4, <2>1, <2>2
  <1>6. Fits' /\ running' = {} /\ (clean' => orphans' = {})
    BY <1>1, <1>4, <1>5 DEF Fits, Kept, PageKept
  <1>7. ASSUME (clean /\ At("lua"))'
        PROVE  (ListKept /\ WatcherKept /\ SpinsWhileOpen)'
    <2>1. ListKept /\ WatcherKept /\ SpinsWhileOpen /\ a.id \notin orphans
      BY <1>1, <1>7 DEF Kept, PageKept, At
    <2>2. /\ IF call.method = "ListGroups"
             THEN groups' = a.data /\ ~loading'
             ELSE /\ groups' = groups /\ unseen \subseteq unseen'
                  /\ loading' => loading \/ (a.ok /\ call.method \in ChangingGroups)
                  /\ ~a.ok /\ call.method = "LoadGroup" => call.of \in groups \cup unseen'
          /\ watcherEnabled' = IF call.method \in Watching THEN a.data ELSE watcherEnabled
          /\ executing' => executing /\ call.method # "ExecuteLua"
      BY <1>2, <2>1, Effects
    <2>3. Lists' = Lists \ {a} /\ Watched' = Watched \ {a}
      BY <1>4, <1>5 DEF Lists, Watched
    <2>4. \A b \in Told' : \A g : FailedLoad(b, g) => FailedLoad(b, g)'
      BY <1>5 DEF FailedLoad
    <2>5. ListKept'
      <3>1. CASE call.method \in ChangingGroups /\ a.ok
        <4>1. [id |-> a.id, call |-> LoadGroups, web |-> TRUE] \in Asking'
          BY <1>3, <1>4, <3>1, CallsOfPage
        <4>2. LoadGroups.method = "ListGroups"
          BY DEF LoadGroups, CallTo
        <4>3. ListToCome'
          BY <4>1, <4>2 DEF ListToCome
        <4> QED BY <4>3 DEF ListKept
      <3>2. CASE ~(call.method \in ChangingGroups /\ a.ok) /\ ListToCome
        <4>1. ListToCome'
          BY <1>4, <1>5, <3>2 DEF ListToCome
        <4> QED BY <4>1 DEF ListKept
      <3>3. CASE ~(call.method \in ChangingGroups /\ a.ok) /\ ~ListToCome
        <4>1. /\ \A b \in Lists : (\E c \in Lists : Later(b, c)) \/ LastList(b)
              /\ Lists = {} => ShownList
          BY <2>1, <3>3 DEF ListKept
        <4>2. \A b \in Told : \A c \in Told : Later(b, c) => c # a
          BY <1>4
        <4>3. ASSUME NEW b \in Lists', LastList(b)
              PROVE  LastList(b)'
          <5>1. b \in Told'
            BY DEF Lists
          <5>2. ASSUME NEW g \in loaded \ b.data
                PROVE  \E c \in Told' : Later(b, c)' /\ FailedLoad(c, g)'
            <6>1. PICK c \in Told : Later(b, c) /\ FailedLoad(c, g)
              BY <4>3 DEF LastList
            <6>2. c \in Told'
              BY <1>4, <4>2, <5>1, <6>1
            <6> QED BY <1>4, <2>4, <5>1, <6>1, <6>2
          <5> QED BY <1>1, <4>3, <5>2 DEF LastList
        <4>4. ASSUME NEW b \in Lists'
              PROVE  (\E c \in Lists' : Later(b, c)') \/ LastList(b)'
          <5>1. b \in Lists /\ b \in Told'
            BY <2>3 DEF Lists
          <5>2. CASE \E c \in Lists : Later(b, c)
            <6>1. PICK c \in Lists : Later(b, c)
              BY <5>2
            <6>2. c \in Lists' /\ c \in Told'
              BY <1>4, <2>3, <4>2, <5>1, <6>1 DEF Lists
            <6> QED BY <1>4, <5>1, <6>1, <6>2
          <5> QED BY <4>1, <4>3, <5>1, <5>2
        <4>5. ASSUME Lists' = {}
              PROVE  ShownList'
          <5>1. CASE call.method = "ListGroups"
            <6>1. a \in Lists /\ ~(\E c \in Lists : Later(a, c))
              <7>1. a \in Lists
                BY <1>2, <5>1 DEF Lists
              <7>2. ASSUME NEW c \in Lists, Later(a, c) PROVE FALSE
                <8>1. c \in Lists' \/ c = a
                  BY <2>3
                <8> QED BY <1>2, <1>4, <4>5, <7>2, <8>1
              <7> QED BY <7>1, <7>2
            <6>2. LastList(a)
              BY <4>1, <6>1
            <6>3. ASSUME NEW g \in loaded \ a.data
                  PROVE  \E c \in Told' : FailedLoad(c, g)'
              <7>1. PICK c \in Told : Later(a, c) /\ FailedLoad(c, g)
                BY <6>2 DEF LastList
              <7>2. c \in Told'
                BY <1>2, <1>4, <7>1
              <7> QED BY <2>4, <7>1, <7>2
            <6>4. a.data \subseteq loaded
              BY <6>2 DEF LastList
            <6> QED BY <1>1, <2>2, <5>1, <6>3, <6>4 DEF ShownList
          <5>2. CASE call.method # "ListGroups"
            <6>1. Lists = {}
              BY <2>3, <4>5, <5>2 DEF Lists
            <6>2. ShownList
              BY <4>1, <6>1
            <6>3. ASSUME NEW g \in loaded \ groups
                  PROVE  g \in unseen' \/ \E c \in Told' : FailedLoad(c, g)'
              <7>1. CASE g \in unseen
                BY <2>2, <5>2, <7>1
              <7>2. CASE \E c \in Told : FailedLoad(c, g)
                <8>1. PICK c \in Told : FailedLoad(c, g)
                  BY <7>2
                <8>2. CASE c = a
                  BY <2>2, <5>2, <8>1, <8>2 DEF FailedLoad
                <8>3. CASE c # a
                  BY <1>4, <2>4, <8>1, <8>3
                <8> QED BY <8>2, <8>3
              <7> QED BY <6>2, <7>1, <7>2 DEF ShownList
            <6> QED BY <1>1, <2>2, <5>2, <6>2, <6>3 DEF ShownList
          <5> QED BY <5>1, <5>2
        <4> QED BY <4>4, <4>5 DEF ListKept
      <3> QED BY <3>1, <3>2, <3>3
    <2>6. WatcherKept'
      <3>1. ASSUME NEW b \in Watched'
            PROVE  (\E c \in Watched' : Later(b, c)') \/ b.data = enabled'
        <4>1. b \in Watched /\ b \in Told'
          BY <2>3 DEF Watched
        <4>2. CASE \E c \in Watched : Later(b, c)
          <5>1. PICK c \in Watched : Later(b, c)
            BY <4>2
          <5>2. c \in Watched' /\ c \in Told'
            BY <1>4, <2>3, <4>1, <5>1 DEF Watched
          <5> QED BY <1>4, <4>1, <5>1, <5>2
        <4> QED BY <1>1, <2>1, <4>1, <4>2 DEF WatcherKept
      <3>2. ASSUME Watched' = {}
            PROVE  (\E m \in Asking' : m.call.method \in Watching) \/ watcherEnabled' = enabled'
        <4>1. CASE call.method \in Watching
          <5>1. a \in Watched
            BY <1>2, <4>1 DEF Watched
          <5>2. ASSUME NEW c \in Watched, Later(a, c) PROVE FALSE
            <6>1. c \in Watched' \/ c = a
              BY <2>3
            <6> QED BY <1>2, <1>4, <3>2, <5>2, <6>1
          <5> QED BY <1>1, <2>1, <2>2, <4>1, <5>1, <5>2 DEF WatcherKept
        <4>2. CASE call.method \notin Watching
          <5>1. Watched = {}
            BY <2>3, <3>2, <4>2 DEF Watched
          <5> QED BY <1>1, <1>5, <2>1, <2>2, <4>2, <5>1 DEF WatcherKept
        <4> QED BY <4>1, <4>2
      <3> QED BY <3>1, <3>2 DEF WatcherKept
    <2>7. SpinsWhileOpen'
      <3>1. ASSUME NEW method, Waits(method), call.method # method
            PROVE  Waits(method)'
        <4>1. PICK x \in Asking \cup Told : promise[x.id].method = method
          BY <3>1 DEF Waits
        <4>2. x # a
          BY <3>1, <4>1
        <4> QED BY <1>4, <1>5, <4>1, <4>2 DEF Waits
      <3>2. ASSUME call.method \in ChangingGroups, a.ok
            PROVE  Waits("ListGroups")'
        <4>1. [id |-> a.id, call |-> LoadGroups, web |-> TRUE] \in Asking' /\ promise'[a.id] = LoadGroups
          BY <1>3, <1>4, <3>2, CallsOfPage
        <4>2. LoadGroups.method = "ListGroups"
          BY DEF LoadGroups, CallTo
        <4> QED BY <4>1, <4>2 DEF Waits
      <3> QED BY <2>1, <2>2, <3>1, <3>2 DEF SpinsWhileOpen
    <2> QED BY <2>5, <2>6, <2>7
  <1> QED BY <1>4, <1>6, <1>7 DEF Kept, PageKept

-----------------------------------------------------------------------------
(* The invariant *)

ShownTypeOK ==
  /\ page \in {Main, Page("lua", None)} /\ loading \in BOOLEAN /\ clean \in BOOLEAN
  /\ executing \in BOOLEAN /\ watcherEnabled \in BOOLEAN
  /\ orphans \subseteq Ids /\ groups \subseteq GroupNames /\ unseen \subseteq GroupNames
  /\ dialog \in {Closed, <<"load", None>>} \cup ({"unload", "execute"} \X GroupNames)
  /\ opened \subseteq {"detail", "vms"} /\ detail \in {None} \cup GroupNames

IInv ==
  /\ Kept /\ ShownTypeOK /\ LuaTypeOK
  /\ SubscribedIsLoaded /\ ChangesAreReloaded /\ OneCallback

LEMMA InitIInv == Init => IInv
  <1> SUFFICES ASSUME Init PROVE IInv
    OBVIOUS
  <1>1. Wires(CallsMade, Data) /\ Asking = {} /\ Told = {} /\ running = {}
    BY WiresInit DEF Init
  <1>2. PageKept
    BY <1>1 DEF PageKept, Fits, Init, ShellInit
  <1>3. ShownTypeOK
    BY DEF Init, ShellInit, ViewInit, ShownTypeOK
  <1>4. LuaTypeOK
    BY LuaAssumption DEF Init, LuaInit, LuaTypeOK
  <1>5. SubscribedIsLoaded /\ ChangesAreReloaded /\ OneCallback
    BY LuaAssumption DEF Init, LuaInit, SubscribedIsLoaded, ChangesAreReloaded, OneCallback
  <1> QED BY <1>1, <1>2, <1>3, <1>4, <1>5 DEF IInv, Kept

LEMMA UserKeeps ==
  ASSUME Kept, ShownTypeOK, UserStep
  PROVE  Kept' /\ ShownTypeOK'
  <1>1. UNCHANGED <<loaded, enabled>>
    BY DEF UserStep, luaVars, managerVars
  <1>2. CASE OpenLoadDialog \/ CloseOne \/ \E g \in GroupNames : OpenUnloadConfirm(g) \/ OpenExecuteDialog(g)
    <2>1. /\ UNCHANGED <<bridgeVars, page, clean, orphans, groups, unseen, watcherEnabled, loading,
                         executing, detail>>
          /\ dialog' \in {dialog, Closed, <<"load", None>>} \cup ({"unload", "execute"} \X GroupNames)
          /\ opened' \subseteq opened
      BY <1>2 DEF OpenLoadDialog, CloseOne, OpenUnloadConfirm, OpenExecuteDialog, OpenDialog,
                  CloseDialog, Click, viewVars
    <2>2. Kept'
      BY <1>1, <2>1, StillKeeps
    <2>3. ShownTypeOK'
      BY <2>1 DEF ShownTypeOK
    <2> QED BY <2>2, <2>3
  <1>3. ASSUME NEW call \in CallsMade, View(<<call>>),
               UNCHANGED <<groups, unseen, watcherEnabled, detail>>,
               executing' = executing \/ (executing' = TRUE /\ call.method = "ExecuteLua"),
               dialog' \in {dialog, Closed}, opened' \in {opened, opened \cup {"detail"}}
        PROVE  Kept' /\ ShownTypeOK'
    <2>1. Make(<<call>>) /\ UNCHANGED loading
      BY <1>3 DEF View
    <2>2. Kept' /\ UNCHANGED <<page, orphans, clean>>
      BY <1>1, <1>3, <2>1, ClickKeeps
    <2> QED BY <1>3, <2>1, <2>2 DEF ShownTypeOK
  <1>4. CASE \E g \in GroupNames : HandleLoadGroup(g) \/ HandleReloadGroup(g) \/ HandleShowDetail(g)
    <2>1. PICK g \in GroupNames : HandleLoadGroup(g) \/ HandleReloadGroup(g) \/ HandleShowDetail(g)
      BY <1>4
    <2>2. PICK call \in CallsMade :
            /\ View(<<call>>) /\ UNCHANGED <<dialog, groups, watcherEnabled, detail, executing, unseen>>
            /\ opened' \in {opened, opened \cup {"detail"}}
      BY <2>1, CallsOfPage DEF HandleLoadGroup, HandleReloadGroup, HandleShowDetail, viewVars
    <2> QED BY <1>3, <2>2
  <1>5. CASE HandleUnloadGroup
    <2>1. dialog[2] \in GroupNames
      BY <1>5 DEF HandleUnloadGroup, ShownTypeOK, Closed
    <2>2. CallTo("UnloadGroup", dialog[2], None) \in CallsMade
      BY <2>1, CallsOfPage
    <2> QED BY <1>3, <1>5, <2>2 DEF HandleUnloadGroup, viewVars
  <1>6. CASE \E f \in Files : HandleScript(f)
    <2>1. PICK f \in Files : HandleScript(f)
      BY <1>6
    <2>2. detail \in GroupNames
      BY <2>1 DEF HandleScript, ShownTypeOK
    <2>3. PICK call \in CallsMade : View(<<call>>) /\ UNCHANGED <<dialog, viewVars>>
      BY <2>1, <2>2, CallsOfPage DEF HandleScript
    <2> QED BY <1>3, <2>3 DEF viewVars
  <1>7. CASE HandleToggleWatcher \/ ShowVmList
    <2>1. (~watcherEnabled) \in BOOLEAN
      BY DEF ShownTypeOK
    <2>2. PICK call \in CallsMade : View(<<call>>) /\ UNCHANGED <<dialog, viewVars>>
      BY <1>7, <2>1, CallsOfPage DEF HandleToggleWatcher, ShowVmList
    <2> QED BY <1>3, <2>2 DEF viewVars
  <1>8. CASE HandleExecuteLua
    <2>1. dialog[2] \in GroupNames
      BY <1>8 DEF HandleExecuteLua, ShownTypeOK, Closed
    <2>2. /\ CallTo("ExecuteLua", dialog[2], None) \in CallsMade
          /\ CallTo("ExecuteLua", dialog[2], None).method = "ExecuteLua"
      BY <2>1, CallsOfPage DEF CallTo
    <2> QED BY <1>3, <1>8, <2>2 DEF HandleExecuteLua
  <1>9. CASE GoTo(Main, <<>>) \/ GoTo(Page("lua", None), <<LoadGroups, LoadWatcherStatus>>)
    <2>1. PICK to \in {Main, Page("lua", None)}, calls \in Seq(CallsMade) :
            /\ GoTo(to, calls) /\ Len(calls) <= 2
            /\ to.view = "lua" => calls = <<LoadGroups, LoadWatcherStatus>>
      <3>1. <<>> \in Seq(CallsMade) /\ Len(<<>>) <= 2
        OBVIOUS
      <3>2. /\ <<LoadGroups, LoadWatcherStatus>> \in Seq(CallsMade)
            /\ Len(<<LoadGroups, LoadWatcherStatus>>) <= 2
        BY CallsOfPage
      <3>3. Main.view # "lua"
        BY DEF Main, Page
      <3> QED BY <1>9, <3>1, <3>2, <3>3
    <2>2. /\ CanCall(calls) /\ Navigate({}, to, RequestsFor(calls)) /\ FreshView
          /\ UNCHANGED answerVars
      BY <2>1 DEF GoTo
    <2>3. Kept'
      BY <1>1, <2>1, <2>2, GoingKeeps
    <2>4. ShownTypeOK'
      BY <2>2 DEF Navigate, FreshView, ShownTypeOK, Open
    <2> QED BY <2>3, <2>4
  <1> QED BY <1>2, <1>4, <1>5, <1>6, <1>7, <1>8, <1>9 DEF UserStep

LEMMA AnswerKeeps ==
  ASSUME Kept, ShownTypeOK, NEW a, Continue(a)
  PROVE  Kept' /\ ShownTypeOK' /\ UNCHANGED luaVars
  <1>1. detail \in {None} \cup GroupNames
    BY DEF ShownTypeOK
  <1>2. Kept' /\ UNCHANGED luaVars
    BY <1>1, ContinuingKeeps DEF Continue
  <1>3. UNCHANGED <<page, clean>> /\ orphans' \subseteq orphans
    BY DEF Continue, Settled
  <1>4. a \in Told /\ promise[a.id] \in CallsMade
    <2>1. a \in Told
      BY LaterTail DEF Continue, Arrives, Kept, Wires
    <2> QED BY <2>1, OpenFacts, NoneIsNoCall DEF Kept
  <1>5. /\ promise[a.id].method = "ListGroups" => a.data \subseteq GroupNames
        /\ promise[a.id].method \in Watching => a.data \in BOOLEAN
        /\ promise[a.id].method = "GetGroupDetail" => a.data \in {None} \cup GroupNames
        /\ promise[a.id].method = "LoadGroup" => promise[a.id].of \in GroupNames
    BY <1>4, CallForms DEF Kept, PageKept, Fits, ChangingGroups
  <1>6. ShownTypeOK'
    <2> DEFINE call == promise[a.id]
    <2>1. CASE a.id \in orphans
      BY <1>3, <2>1 DEF Continue, viewVars, ShownTypeOK
    <2>2. CASE GroupsLoaded(a, call)
      BY <1>3, <1>5, <2>2 DEF GroupsLoaded, ShownTypeOK
    <2>3. CASE WatcherKnown(a, call)
      BY <1>3, <1>5, <2>3 DEF WatcherKnown, ShownTypeOK, Watching
    <2>4. CASE GroupsChanged(a, call)
      BY <1>3, <1>5, <2>4 DEF GroupsChanged, ShownTypeOK
    <2>5. CASE DetailKnown(a, call)
      BY <1>3, <1>5, <2>5 DEF DetailKnown, ShownTypeOK
    <2>6. CASE ScriptChanged(a, call) \/ Executed(a, call) \/ VmsListed(a, call)
      BY <1>3, <2>6 DEF ScriptChanged, Executed, VmsListed, ShownTypeOK
    <2> QED BY <2>1, <2>2, <2>3, <2>4, <2>5, <2>6 DEF Continue
  <1> QED BY <1>2, <1>6

LEMMA NextIInv == IInv /\ [Next]_vars => IInv'
  <1> SUFFICES ASSUME IInv, [Next]_vars PROVE IInv'
    OBVIOUS
  <1> USE DEF IInv
  <1>1. ASSUME UNCHANGED luaVars
        PROVE  LuaTypeOK' /\ SubscribedIsLoaded' /\ ChangesAreReloaded' /\ OneCallback'
    BY <1>1 DEF luaVars, managerVars, watchVars, LuaTypeOK, SubscribedIsLoaded, ChangesAreReloaded,
                OneCallback
  <1>2. CASE UserStep
    <2>1. UNCHANGED luaVars
      BY <1>2 DEF UserStep
    <2> QED BY <1>1, <1>2, <2>1, UserKeeps
  <1>3. CASE Answering
    BY <1>1, <1>3, AnswerKeeps DEF Answering
  <1>4. CASE Handling
    <2>1. PICK m \in Asking : LuaHandle(m)
      BY <1>4 DEF Handling, Asking, Messages
    <2>2. UNCHANGED <<shellVars, viewVars>>
      BY <1>4 DEF Handling
    <2>3. m.call \in CallsMade
      BY <2>1, OpenFacts, NoneIsNoCall DEF Kept
    <2>4. LuaTypeOK' /\ \E result : Answers(m, result)
      BY <2>1, <2>3, LuaAnswers
    <2>5. Kept'
      BY <2>2, <2>4, HandlingKeeps DEF shellVars, viewVars
    <2>6. SubscribedIsLoaded' /\ ChangesAreReloaded' /\ OneCallback'
      BY <2>1, <2>3, SubscribedHandle, ReloadedHandle
    <2>7. ShownTypeOK'
      BY <2>2 DEF shellVars, viewVars, ShownTypeOK
    <2> QED BY <2>4, <2>5, <2>6, <2>7
  <1>5. CASE FileSystem
    <2>1. FileSystemStep /\ UNCHANGED <<shellVars, viewVars>>
      BY <1>5 DEF FileSystem
    <2>2. LuaTypeOK' /\ UNCHANGED <<bridgeVars, loaded, enabled>>
      BY <2>1, FileSystemTypes
    <2>3. Kept'
      BY <2>1, <2>2, StillKeeps DEF shellVars, viewVars
    <2>4. SubscribedIsLoaded' /\ ChangesAreReloaded' /\ OneCallback'
      BY <2>1, SubscribedFileSystem, ReloadedFileSystem
    <2>5. ShownTypeOK'
      BY <2>1 DEF shellVars, viewVars, ShownTypeOK
    <2> QED BY <2>2, <2>3, <2>4, <2>5
  <1>6. CASE UNCHANGED vars
    <2>1. UNCHANGED <<bridgeVars, shellVars, luaVars, viewVars>>
      BY <1>6 DEF vars
    <2>2. Kept'
      BY <2>1, StillKeeps DEF shellVars, viewVars, luaVars, managerVars
    <2>3. ShownTypeOK'
      BY <2>1 DEF shellVars, viewVars, ShownTypeOK
    <2> QED BY <1>1, <2>1, <2>2, <2>3
  <1> QED BY <1>2, <1>3, <1>4, <1>5, <1>6 DEF Next

THEOREM Invariant == Spec => []IInv
  BY InitIInv, NextIInv, PTL DEF Spec

-----------------------------------------------------------------------------
(* What it implies *)

(* The page and the engine keep to their types. *)
THEOREM Types == Spec => []TypeOK
  <1>1. IInv => TypeOK
    <2> SUFFICES ASSUME IInv PROVE TypeOK
      OBVIOUS
    <2>1. promise \in [Ids -> CallsMade \cup {None}]
      BY DEF IInv, Kept, Wires
    <2>2. \A m \in Asking : m \in Posts(CallsMade)
      BY OpenFacts, NoneIsNoCall DEF IInv, Kept
    <2> QED BY <2>1, <2>2 DEF TypeOK, IInv, ShownTypeOK, Asking, Messages, Posts
  <1> QED BY <1>1, Invariant, PTL

(***************************************************************************)
(* Functions that are subscribed and watchers that raise belong to groups  *)
(* that are loaded, through failed and repeated loads and reloads by the   *)
(* timer (LuaEngineService.cs, LuaScriptManager.cs).                       *)
(***************************************************************************)
THEOREM Subscriptions == Spec => []SubscribedIsLoaded
  <1>1. IInv => SubscribedIsLoaded
    BY DEF IInv
  <1> QED BY <1>1, Invariant, PTL

(***************************************************************************)
(* A change that a watcher and a callback of the timer have seen is        *)
(* reloaded (OnFileChanged and OnDebounceElapsed of LuaScriptManager.cs).  *)
(***************************************************************************)
THEOREM Reloads == Spec => []ChangesAreReloaded
  <1>1. IInv => ChangesAreReloaded
    BY DEF IInv
  <1> QED BY <1>1, Invariant, PTL

(***************************************************************************)
(* When nothing is on its way, a page that was mounted with no call open   *)
(* shows the groups that are loaded, but for those that a failed LoadGroup *)
(* added, and the state of the watchers, and spins no button, whatever the *)
(* number of calls that overlapped (LuaEngineView.vue).                    *)
(***************************************************************************)
THEOREM Current == Spec => []PageIsCurrent
  <1>1. IInv => PageIsCurrent
    <2> SUFFICES ASSUME IInv, clean, At("lua"), Quiet
                 PROVE  /\ groups \subseteq loaded /\ loaded \ unseen \subseteq groups
                        /\ watcherEnabled = enabled /\ ~loading /\ ~executing
      BY DEF PageIsCurrent
    <2>1. Asking = {} /\ Told = {}
      BY OpenFacts, NoneIsNoCall DEF Quiet, IInv, Kept
    <2>2. ListKept /\ WatcherKept /\ SpinsWhileOpen
      BY DEF IInv, Kept, PageKept
    <2>3. ~ListToCome /\ Lists = {} /\ Watched = {}
      BY <2>1 DEF ListToCome, Lists, Watched
    <2>4. ShownList /\ watcherEnabled = enabled
      BY <2>1, <2>2, <2>3 DEF ListKept, WatcherKept
    <2>5. ~loading /\ ~executing
      BY <2>1, <2>2 DEF SpinsWhileOpen, Waits
    <2> QED BY <2>1, <2>4, <2>5 DEF ShownList
  <1> QED BY <1>1, Invariant, PTL
=============================================================================
