SPECIFICATION Spec
CONSTANTS
  i1 = i1
  i2 = i2
  c1 = c1
  lot = lot
  Instance = {i1, i2}
  Seeds <- TwoSeeds
  LegacyRoles = {"surveyor"}
  OutsideStates <- Demotions
  ParcelId = {lot}
  Deployed = {i1}
  MaxStrays = 1
  MaxOutages = 2
  MaxChanges = 1
  Client = {c1}
  TTL = 1
  MaxClock = 2
  MaxEdits = 2
INVARIANTS
  SeedIsComplete
  Mirrors
  AuthorityIsCurrent
PROPERTIES
  ComesUp
CHECK_DEADLOCK FALSE
