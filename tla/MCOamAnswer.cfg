SPECIFICATION Spec
CONSTANTS
  pa = pa
  pb = pb
  a1 = a1
  a2 = a2
  a3 = a3
  b1 = b1
  Procs = {pa, pb}
  NoProc = NoProc
  Callers = {a1, b1}
  NoCaller = NoCaller
  NoAnswer = NoAnswer
  NoFrame = NoFrame
  Proc <- OneAgent
  Size <- TwoSizes
  NReq = 1
  MaxId = 1
  Threads = {t1, t2}
  t1 = t1
  t2 = t2
  Fds <- FdPerThread
  MaxClients = 1
SYMMETRY Symmetries
INVARIANTS
  AnswersTheAsker
CHECK_DEADLOCK FALSE
