SPECIFICATION Spec
CONSTANTS
  ann = ann
  ray = ray
  root = root
  p1 = p1
  p2 = p2
  q1 = q1
  s1 = s1
  s2 = s2
  NoRow = NoRow
  Nobody = Nobody
  Actor = {ann, ray}
  RoleOf <- PairRoles
  ProposalId = {p1}
  ParcelId = {q1}
  Slot = {s1, s2}
  MaxVersion = 12
  MaxParcelVersion = 1
  MaxLag = 5
INVARIANTS
  StaleVersionRefused
