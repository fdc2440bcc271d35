SPECIFICATION FairSpec
CONSTANTS
  Timers = {t1, t2}
  NoTimer = NoTimer
  OneShot = {t2}
  Callers = {c1, self}
  Self = self
  t1 = t1
  t2 = t2
  c1 = c1
  self = self
  Periods = {1, 2}
  MaxLate = 2
  Jumps <- ForthAndBack
  MaxBack = 1
INVARIANTS
  TypeOK
  QueueSorted
  WakesInTime
PROPERTIES
  TimersServe
  Served
