SPECIFICATION Spec
CONSTANTS
  u1 = u1
  u2 = u2
  c1 = c1
  i1 = i1
  i2 = i2
  Users = {u1}
  Contacts = {}
  Interactions = {i1}
  Commands = {"interact"}
  Proposals = {}
  Keyed = {TRUE}
  MaxVersions = 1
  MaxResearch = 0
  MaxCommands = 1
INVARIANT StoredBeforeTold
CHECK_DEADLOCK FALSE
