SPECIFICATION FairSpec
CONSTANTS
  s1 = s1
  s2 = s2
  e1 = e1
  e2 = e2
  Steps = {s1}
  Evidence = {e1, e2}
  MaxQueries = 2
  StopAt = 2
  MaxAttempts = 3
  Limit = 1
  MaxGrants = 1
  MaxFaults = 2
INVARIANT RequestsAreAudited
INVARIANT CachedIsSupported
INVARIANT LateOutputIsDropped
PROPERTY FailuresStand
PROPERTY RunsSettle
CHECK_DEADLOCK FALSE
