SPECIFICATION TransportSpec
CONSTANTS
  r = r
  d1 = d1
  d2 = d2
  Read = {r}
  Mutation = {d1, d2}
  MaxAttempts = 4
  Pacing = 2
  MaxWait = 3
  Fallback = 3
  MaxFallback = 5
  Waits = {0, 3, 6}
  Nothing = Nothing
  MaxLate = 1
CHECK_DEADLOCK FALSE
INVARIANTS
  MutationsArePaced
  ReturnsInTime
PROPERTY SentAgainAsAllowed
