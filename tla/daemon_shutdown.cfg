SPECIFICATION FairSpec
CONSTANTS
  Process = {p1, p2}
  Key = {k1}
  Nothing = Nothing
PROPERTY ShutdownEnds
