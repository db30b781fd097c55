CONSTANTS
  Tags = {"a", "b", "c", "x"}
  Initial = {"a", "c"}
  Dynamic = {"b", "x"}
  Watched = {"b"}
  Written = {"c"}
  Moved = {"b"}
  Malformed = {"x"}
  Address <- Bools
  Bytes <- TwoRegions
  Bits = {0, 1}
  Writers = {w1}
  None = None
SPECIFICATION FairSpec
INVARIANTS
  TypeOK
  NoSilentChange
PROPERTIES
  EventuallyReflected
  StopTerminates
