CONSTANTS
    o1 = o1
    r1 = r1
    refresh1 = refresh1
    research1 = research1
    b1 = b1
    b2 = b2
    Opportunities = {o1}
    Routes = {r1}
    Refreshes = {}
    Researches = {}
    Budgets = {b1}
    None = None
    MaxPauses = 0
    MaxUpdates = 0
    MaxOver = 0
    MaxContinues = 0
SPECIFICATION Spec
INVARIANT ReadyOrEndedReleases
CHECK_DEADLOCK FALSE
