CONSTANTS
    o1 = o1
    r1 = r1
    refresh1 = refresh1
    research1 = research1
    b1 = b1
    b2 = b2
    Opportunities = {o1}
    Routes = {r1}
    Refreshes = {refresh1}
    Researches = {research1}
    Budgets = {b1}
    None = None
    MaxPauses = 1
    MaxUpdates = 1
    MaxOver = 2
    MaxContinues = 1
SPECIFICATION FairSpec
INVARIANTS TypeOK RequestsTakenOnce ActiveLoopIsActive
PROPERTIES PauseHolds ServesWhatItHas
CHECK_DEADLOCK FALSE
