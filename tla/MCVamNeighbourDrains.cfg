SPECIFICATION FairSpec
CONSTANTS
  Nodes = {n1, n2}
  NH = NH
  FH = FH
  Pids = {p1}
  NoPid = NoPid
  p1 = p1
  n2 = n2
  n1 = n1
  MaxLife = 1
  AlertLife = 1
  CntMod = 3
  CrowdAt = 1
PROPERTIES
  Drains
