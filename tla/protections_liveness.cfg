SPECIFICATION FairSpec
CONSTANTS
  k1 = k1
  k2 = k2
  l1 = l1
  l2 = l2
  Key = {k1}
  Lock = {l1, l2}
  Proc = {p1, p2}
  LockOf <- SharedLock
  NoProc = NoProc
  Running = {p1}
PROPERTY CommandEnds
