SPECIFICATION FairSpec
CONSTANTS
  u1 = u1
  u2 = u2
  k1 = k1
  k2 = k2
  r1 = r1
  r2 = r2
  o1 = o1
  o2 = o2
  None = None
  Users = {u1, u2}
  Claims = {k1, k2}
  Routes = {r1}
  Orgs = {o1}
  Commands = {"review", "claim", "route", "research", "budget"}
  MaxCommands = 4
  MaxOver = 1
INVARIANT ApprovalsFollowReviews
INVARIANT AcceptedReviewsStand
PROPERTY SubmittedReviewSettles
CHECK_DEADLOCK FALSE
