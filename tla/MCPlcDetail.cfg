SPECIFICATION Spec
CONSTANTS
  p1 = p1
  p2 = p2
  g1 = g1
  g2 = g2
  None = None
  Ids = {1, 2}
  PlcNames = {p1}
  Groups = {g1, g2}
  Offered = {"ListPlcs", "RemovePlc", "ConnectPlc", "DisconnectPlc", "ListDbGroups", "CreateDbGroup",
             "RenameDbGroup", "DeleteDbGroup"}
SYMMETRY MCSymmetry
INVARIANTS DetailIsCurrent ShownConnectedHasSession
