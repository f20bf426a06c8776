SPECIFICATION FairSpec
CONSTANTS
  u1 = u1
  q1 = q1
  w1 = w1
  s1 = s1
  a = a
  b = b
  None = None
  Users = {u1}
  Requests = {q1}
  Weeks = {w1}
  Sources = {s1}
  Contents = {a, b}
  Original = a
  MaxAttempts = 2
  MaxFaults = 2
INVARIANT ReadsHold
INVARIANT ProposalListsChanges
PROPERTY ClosedMissionEndsTerminal
PROPERTY RefreshAnswered
PROPERTY ImplementsChangeReports
CHECK_DEADLOCK FALSE
