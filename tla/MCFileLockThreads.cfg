SPECIFICATION LockSpec
CONSTANTS
  p1 = p1  p2 = p2  p3 = p3
  t1 = t1  t2 = t2  t3 = t3
  Process = {p1, p2}
  Caller = {t1, t2}
  ThreadsOf <- Pairs
  NoProcess = NoProcess
INVARIANT ProcessesExclude
