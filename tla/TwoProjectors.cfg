SPECIFICATION Spec
CONSTANTS
  p1 = p1 p2 = p2
  Events = {1, 2}
  Silent = {}
  Projectors = {p1, p2}
  BatchSize = 2
  MaxAttempts = 2
  MaxCrashes = 1
  None = None
SYMMETRY Symmetric
INVARIANTS PublishedIsShown
PROPERTIES ImplementsReadModels
CHECK_DEADLOCK FALSE
