SPECIFICATION Spec
CONSTANTS
  g1 = g1
  g2 = g2
  t1 = t1
  x = x
  y = y
  zero = zero
  one = one
  default = default
  typed = typed
  None = None
  Ids = {1}
  Groups = {g1, g2}
  Tags = {t1}
  GroupOf <- MCGroupOf
  Names = {x, y}
  Values = {zero, one}
  Initial = zero
  Default = default
  Typed = typed
  Offered = {"AddTag", "UpdateTag", "RemoveTag"}
  MaxRaised = 2
  MaxToWeb = 2
SYMMETRY MCSymmetry
INVARIANTS QuietTableIsCurrent ListenerIsMounted
