SPECIFICATION UsageSpec
CONSTANTS
  Login = {"Acme", "ACME", "other"}
  Folded <- MCFolded
  Owner = {"acme", "other"}
  Resource = {"minutes", "space"}
  Sku = {"linux", "storage"}
  Bills <- MCBills
  Configs <- MCConfigs
  MaxMonth = 2
  MaxMoves = 3
CHECK_DEADLOCK FALSE
INVARIANTS
  AlertsAreGrounded
  OneRequestPerOwner
  ToldOnceAsConfigured
