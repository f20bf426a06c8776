SPECIFICATION Spec
CONSTANTS
  a1 = a1 a2 = a2 a3 = a3
  prep = prep flag = flag budget = budget finish = finish
  report = report agent = agent refresh = refresh
  Attempts = {a1, a2}
  Keys = {prep, budget, finish, report, agent, refresh}
  KeyInfo <- MCKeyInfo
  MaxRuns = 2
  None = None
CHECK_DEADLOCK FALSE
SYMMETRY Symmetric
INVARIANTS SameAnswer
PROPERTIES OnlyOwnerCommits LateActivityNeverRevives ReconcileSparesNewerRun ImplementsExactlyOnce
