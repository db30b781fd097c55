SPECIFICATION Spec
CONSTANTS
  g1 = g1
  f1 = f1
  None = None
  Ids = {1, 2}
  GroupNames = {g1}
  Files = {f1}
  MaxSubscribed = 1
  Offered = {"ListGroups", "GetWatcherStatus", "SetWatcher", "LoadGroup", "ReloadGroup", "UnloadGroup",
             "GetGroupDetail", "ReloadScript", "UnloadScript", "ExecuteLua", "ListVms"}
INVARIANTS TypeOK PageIsCurrent SubscribedIsLoaded 
