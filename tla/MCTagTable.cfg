SPECIFICATION Spec
CONSTANTS
  g1 = g1
  g2 = g2
  t1 = t1
  x = x
  y = y
  zero = zero
  one = one
  default = default
  typed = typed
  None = None
  Ids = {1, 2}
  Groups = {g1, g2}
  Tags = {t1}
  GroupOf <- MCGroupOf
  Names = {x, y}
  Values = {zero, one}
  Initial = zero
  Default = default
  Typed = typed
  Offered = {"ListTags", "AddTag", "UpdateTag", "RemoveTag", "WriteTag", "GetTagHistory"}
  MaxRaised = 0
  MaxToWeb = 1
INVARIANTS TypeOK RowsOfGroup SpinnerHasCall
PROPERTIES TypedValueKept
SYMMETRY MCSymmetry
