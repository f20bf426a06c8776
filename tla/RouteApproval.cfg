SPECIFICATION Spec
CONSTANTS
  u1 = u1
  u2 = u2
  k1 = k1
  k2 = k2
  r1 = r1
  r2 = r2
  o1 = o1
  o2 = o2
  None = None
  Users = {u1}
  Claims = {k1}
  Routes = {r1}
  Orgs = {o1}
  Commands = {"review"}
  MaxCommands = 1
  MaxOver = 0
INVARIANT RouteReviewIsListed
CHECK_DEADLOCK FALSE
