SPECIFICATION Spec
CONSTANTS
  PerPage = 2
  Object = {1, 2, 3, 4}
  Initial <- MCInitial
  Targets <- MCTargets
  MaxApplies = 2
  MaxMoves = 2
CHECK_DEADLOCK FALSE
INVARIANTS
  ReportOwnsUp
  HaltIsFinal
PROPERTIES
  OnlyTheReviewedIsDeleted
  AbsentUnlessMoved
  LedgerSpec
