SPECIFICATION Spec
CONSTANTS
  Process = {p1, p2}
  Key = {k1, k2}
  Nothing = Nothing
SYMMETRY Symmetry
INVARIANTS
  WorkUnderLock
  NeverDeliveredTwice
  ServerIsReachable
  LastStatusIsFinal
