SPECIFICATION Spec
CONSTANTS
  gis = gis
  root = root
  k1 = k1
  k2 = k2
  coarse = coarse
  fine = fine
  home = home
  next_door = next_door
  c1 = c1
  c2 = c2
  c3 = c3
  Call = {c1}
  Actor = {gis, root}
  Key = {k1}
  Request = {coarse, fine}
  ParcelId = {home, next_door}
  ActorOf <- OneAccount
  KeyOf <- OneKey
  RequestOf <- OneRequest
  SubjectOf <- OneSubject
  FindingCount <- CountByVersion
  MaxEdits = 2
  MaxCrashes = 0
INVARIANTS
  SnapshotConsistent
