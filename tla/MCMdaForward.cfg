SPECIFICATION Spec
CONSTANTS
  Msgs = {m1, m2, m3}
  NoMsg = NoMsg
  Hops = {0, 1, 3}
  Bufs = {b1, b2, b3}
  NoBuf = NoBuf
  MaxDelay = 2
  MaxLen = 3
  Delays <- DelaysChecked
  HistNum = 2
  MaxHistLife = 2
  m1 = m1
  m2 = m2
  m3 = m3
  b1 = b1
  b2 = b2
  b3 = b3
SYMMETRY Symmetry
INVARIANTS
  TypeOK
  OneOwner
  OneRecord
  NeverLate
CHECK_DEADLOCK FALSE
