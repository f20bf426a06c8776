SPECIFICATION Spec
CONSTANTS
  a1 = a1 a2 = a2 a3 = a3
  prep = prep flag = flag budget = budget finish = finish
  report = report agent = agent refresh = refresh
  Attempts = {a1}
  Keys = {agent}
  KeyInfo <- MCKeyInfo
  MaxRuns = 1
  None = None
CHECK_DEADLOCK FALSE
PROPERTIES ExhaustionMovesToReview
