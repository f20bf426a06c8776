SPECIFICATION Spec
CONSTANTS
  s1 = s1
  s2 = s2
  e1 = e1
  e2 = e2
  Steps = {s1}
  Evidence = {e1}
  MaxQueries = 0
  StopAt = 2
  MaxAttempts = 3
  Limit = 1
  MaxGrants = 0
  MaxFaults = 1
PROPERTY SuccessStands
CHECK_DEADLOCK FALSE
