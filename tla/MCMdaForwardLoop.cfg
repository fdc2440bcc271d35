SPECIFICATION FairSpec
CONSTANTS
  Msgs = {m1, m2}
  NoMsg = NoMsg
  Hops = {0, 1, 3}
  Bufs = {b1, b2}
  NoBuf = NoBuf
  MaxDelay = 2
  MaxLen = 3
  Delays <- DelaysChecked
  HistNum = 2
  MaxHistLife = 1
  m1 = m1
  m2 = m2
  b1 = b1
  b2 = b2
PROPERTIES
  EveryFrameLeaves
CHECK_DEADLOCK FALSE
