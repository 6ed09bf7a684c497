CONSTANTS
  p1 = p1  p2 = p2  b1 = b1
  Procs = {p1}
  Bundles = {b1}
  BundleOf <- OneBundle
  MaxStackDepth = 2
  MaxSessions = 1
  Capacity = 1
  Timed = {p1}
SPECIFICATION FairSpec
INVARIANTS TypeOK WatchdogGone
PROPERTIES SignalsGetThrough TimeoutEndsContainer
CHECK_DEADLOCK FALSE
