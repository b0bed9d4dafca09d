SPECIFICATION Spec
CONSTANTS
  r1 = r1
  r2 = r2
  a1 = a1
  a2 = a2
  late = late
  Run = {r1, r2}
  Artifact = {a1, late}
  Owner <- OwnerOf
  Targets <- TwoTargets
  Dependencies <- OneArtifact
  DeleteLogs = {r1}
  MaxDrift = 2
CHECK_DEADLOCK FALSE
INVARIANTS
  TypeOK
  ReportedRunIsGone
  ReportOwnsUp
  HaltIsFinal
PROPERTIES
  OnlyReviewedStateIsDeleted
  RunIsDeletedLast
