SPECIFICATION Spec
CONSTANTS
  ann = ann
  o1 = o1
  o2 = o2
  o3 = o3
  q1 = q1
  q2 = q2
  s1 = s1
  s2 = s2
  NoObservation = NoObservation
  Nothing = Nothing
  Actor = {ann}
  RoleOf <- OneSurveyor
  ObservationId = {o1, o2, o3}
  ParcelId = {q1, q2}
  Slot = {s1, s2}
  MaxVersion = 4
CHECK_DEADLOCK FALSE
SYMMETRY ObservationSymmetry
INVARIANTS
  SupersessionEnds
