SPECIFICATION FairSpec
CONSTANTS
  Nodes = {n1}
  NH = NH
  FH = FH
  Pids = {p1, p2}
  NoPid = NoPid
  p2 = p2
  p1 = p1
  n1 = n1
  MaxLife = 1
  AlertLife = 1
  CntMod = 3
  CrowdAt = 1
PROPERTIES
  LookupEnds
