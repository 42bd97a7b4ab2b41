SPECIFICATION Spec
CONSTANTS
  near = near
  far = far
  s1 = s1
  s2 = s2
  NoVisitor = NoVisitor
  Client = {near, far}
  Slot = {s1, s2}
  Limit = 2
  Window = 3
  Second = 2
  MaxDelay = 1
  MaxTime = 6
SYMMETRY LimiterSymmetry
INVARIANTS
  TypeOK
  AdmissionBound
  RetryHonoured
PROPERTIES
  RefusalJustified
  StaleVisitorsSwept
