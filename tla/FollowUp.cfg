SPECIFICATION FairSpec
CONSTANTS
  u1 = u1
  u2 = u2
  c1 = c1
  i1 = i1
  i2 = i2
  Users = {u1}
  Contacts = {}
  Interactions = {i1, i2}
  Commands = {"decide", "interact", "execute", "pause", "resume", "research"}
  Proposals = {"lost"}
  Keyed = {TRUE, FALSE}
  MaxVersions = 2
  MaxResearch = 1
  MaxCommands = 4
INVARIANT HeardOnce
PROPERTY DecisionTakesEffect
PROPERTY InteractionIsHeard
CHECK_DEADLOCK FALSE
