SPECIFICATION Spec
CONSTANTS
  Day = 2
  MaxSeconds = 80
  MaxDate = 40
  PerPage = 2
  Object = {1, 2, 3, 4}
  Initial = {1, 2, 3}
  Values <- MCValues
  Workflow <- MCWorkflow
  Birth <- MCBirth
  Starts = {5, 8, 12}
  Configs <- MCConfigs
  Requests <- MCRequests
  Ages <- MCAges
  Shields <- MCShields
  MaxMoves = 2
CHECK_DEADLOCK FALSE
INVARIANTS
  TheLatestAreSpared
  RetentionIsOver
  DeadlineIsNthBusinessDay
  MoreProtectionNeverDeletesMore
PROPERTY ProtectedIsNotPlanned
