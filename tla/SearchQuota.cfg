SPECIFICATION Spec
CONSTANTS
  s1 = s1
  s2 = s2
  e1 = e1
  e2 = e2
  Steps = {s1}
  Evidence = {e1}
  MaxQueries = 2
  StopAt = 2
  MaxAttempts = 1
  Limit = 1
  MaxGrants = 0
  MaxFaults = 0
PROPERTY SearchQuotaHolds
CHECK_DEADLOCK FALSE
