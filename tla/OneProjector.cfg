SPECIFICATION FairDelivery
CONSTANTS
  p1 = p1
  Events = {1, 2}
  Silent = {}
  Watched = {2}
  Projectors = {p1}
  BatchSize = 2
  MaxAttempts = 2
  MaxCrashes = 1
  Buffer = 1
  MaxBreaks = 1
  None = None
INVARIANTS DashboardIsCurrent QuietPageIsCurrent
PROPERTIES ImplementsAllReadModels EventsSettle PageCatchesUp
CHECK_DEADLOCK FALSE
