SPECIFICATION SystemSpec
CONSTANTS
  gus = gus
  ray = ray
  rita = rita
  root = root
  p1 = p1
  p2 = p2
  p3 = p3
  q1 = q1
  s1 = s1
  k1 = k1
  d1 = d1
  d2 = d2
  NoRow = NoRow
  Nobody = Nobody
  NoConflict = NoConflict
  Actor = {root, ray}
  RoleOf <- ChiefRoles
  ProposalId = {p1, p2, p3}
  ParcelId = {q1}
  Slot = {s1}
  ConflictId = {k1}
  Desk = {d1, d2}
  MaxVersion = 3
  MaxParcelVersion = 1
  MaxLag = 0
SYMMETRY RaceSymmetry
INVARIANTS
  ConflictTypeOK
  ConflictTrailReplays
  SuggestionAppliedOnce
  ResolverOfRecord
PROPERTIES
  SourceUntouched
  SystemImplementsLifecycle
