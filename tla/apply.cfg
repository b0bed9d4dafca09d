SPECIFICATION Spec
CONSTANTS
  r1 = r1
  r2 = r2
  Invocation = {i1, i2}
  Run = {r1, r2}
  Targets <- TwoTargets
  Nobody = Nobody
SYMMETRY Symmetry
INVARIANTS
  MutationsAreSurfaced
PROPERTIES
  NewProtectionWins
  LedgerSpec
