SPECIFICATION Spec
CONSTANTS
  Account = {a1, a2}
  Scope = {s1}
  Total = {1, 2}
  Threshold <- Thresholds
  Unset = Unset
  MaxSamples = 2
  Nothing = Nothing
SYMMETRY Symmetry
INVARIANTS
  FollowerIsRight
PROPERTY SignalsMeanMovement
