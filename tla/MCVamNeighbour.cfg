SPECIFICATION Spec
CONSTANTS
  Nodes = {n1, n2}
  NH = NH
  FH = FH
  Pids = {p1, p2, p3}
  NoPid = NoPid
  p3 = p3
  p2 = p2
  p1 = p1
  n2 = n2
  n1 = n1
  MaxLife = 1
  AlertLife = 1
  CntMod = 2
  CrowdAt = 1
SYMMETRY PeerSymmetry
INVARIANTS
  TypeOK
  WellLinked
  NoRecordLost
  LockedWalksStay
  UniquePids
PROPERTIES
  TableServes
