SPECIFICATION Spec
CONSTANTS
  u1 = u1
  u2 = u2
  c1 = c1
  i1 = i1
  i2 = i2
  Users = {u1, u2}
  Contacts = {c1}
  Interactions = {}
  Commands = {"decide", "edit", "execute", "export", "archive", "contact"}
  Proposals = {}
  Keyed = {TRUE}
  MaxVersions = 3
  MaxResearch = 0
  MaxCommands = 4
SYMMETRY UserSymmetry
INVARIANT ApprovalsAgree
INVARIANT DecisionIsOpen
PROPERTY CardsFollowTable
PROPERTY ImplementsCardReview
CHECK_DEADLOCK FALSE
