SPECIFICATION EnvSpec
CONSTANTS
  p1 = p1  p2 = p2  p3 = p3
  t1 = t1  t2 = t2  t3 = t3
  Process = {p1, p2, p3}
  Caller = {t1, t2, t3}
  ThreadsOf <- Decreasing
  NoProcess = NoProcess
  Client = {c1, c2, c3}
  Background = {b1, b2}
  NoThread = NoThread
  MaxItems = 6
INVARIANTS
  TableExact
  LockHasHolder
  SoleThreadKeepsLock
  NoLostWakeup
  EachItemOnce
  RunsInOrder
PROPERTY
  EveryItemRuns
