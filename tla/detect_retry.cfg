SPECIFICATION Spec
CONSTANTS
  gis = gis
  root = root
  k1 = k1
  k2 = k2
  coarse = coarse
  fine = fine
  home = home
  next_door = next_door
  c1 = c1
  c2 = c2
  c3 = c3
  Call = {c1, c2, c3}
  Actor = {gis}
  Key = {k1}
  Request = {coarse, fine}
  ParcelId = {home, next_door}
  ActorOf <- OneAccount
  KeyOf <- OneKey
  RequestOf <- RetryAndReuse
  SubjectOf <- OneSubject
  FindingCount <- CountByVersion
  MaxEdits = 1
  MaxCrashes = 1
INVARIANTS
  TypeOK
  RunsOwnTheirConflicts
  HandlerSound
  AnswersAreTheRun
  ReplayIsComplete
PROPERTIES
  ImplementsPromise
  Answered
