SPECIFICATION Spec
CONSTANTS
  k1 = k1
  k2 = k2
  l1 = l1
  l2 = l2
  Key = {k1, k2}
  Lock = {l1, l2}
  Proc = {p1, p2}
  LockOf <- OwnLocks
  NoProc = NoProc
  Running = {p1, p2}
SYMMETRY Symmetry
INVARIANTS
  NoDeleteUnderProtection
  InsertedSurvives
PROPERTY NoDeleteOfProtected
