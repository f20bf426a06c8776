SPECIFICATION Spec
CONSTANTS
  u1 = u1
  u2 = u2
  c1 = c1
  i1 = i1
  i2 = i2
  Users = {u1}
  Contacts = {c1}
  Interactions = {i1}
  Commands = {"decide", "interact", "execute"}
  Proposals = {"responded"}
  Keyed = {TRUE, FALSE}
  MaxVersions = 2
  MaxResearch = 0
  MaxCommands = 3
INVARIANT RevisionAfterResponse
CHECK_DEADLOCK FALSE
