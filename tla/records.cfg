SPECIFICATION Spec
CONSTANTS
  Writer = {w1, w2, w3}
  MaxAttempts = 2
  Everyone = Everyone
  Nothing = Nothing
  MaxPowerLosses = 1
CHECK_DEADLOCK FALSE
SYMMETRY Symmetry
INVARIANTS
  VisibleIsWhole
  ReportedIsKept
  HistoryIsComplete
PROPERTY NeverReplaced
