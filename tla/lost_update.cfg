SPECIFICATION Spec
CONSTANTS
  p1 = p1
  p2 = p2
  n1 = n1
  name = name
  boundary = boundary
  old = old
  new = new
  s1 = s1
  s2 = s2
  NoParcel = NoParcel
  Unstated = Unstated
  ParcelId = {p1, p2}
  Code = {n1}
  Field = {name, boundary}
  Value = {old, new}
  Slot = {s1, s2}
  MaxVersion = 3
SYMMETRY RegisterSymmetry
PROPERTIES
  DifferencesKept
