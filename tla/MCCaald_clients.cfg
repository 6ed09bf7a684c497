CONSTANTS
  u1 = u1  u2 = u2  i1 = i1  i2 = i2  p1 = p1  p2 = p2
  Zero = zero
  NoClient = none
  Clients = {c1, c2}
  Sessions <- OneSession
  Configs <- ReloadConfigs
  DefaultMaxSessions = 2
  IntMax = 7
  IgnoreSIGPIPE = TRUE
SPECIFICATION FairSpec
INVARIANTS ServingInv
PROPERTIES ClientsAreServed ReloadAtNextClient
