CONSTANTS
  u1 = u1  u2 = u2  s1 = s1  s2 = s2
  None = None  Deleted = Deleted
  Users = {u1, u2}
  Scripts = {s1, s2}
  Settings <- OneSetting
  MaxRuns = 3
  TABLE_MAX = 4
  ARRAY_MAX = 1
  Int64Max = 31
  UIntSize = 4
  MB = 4
  DefaultDisk = 2
SYMMETRY Symmetric
SPECIFICATION Spec
INVARIANTS DoneMeansConfigured
CHECK_DEADLOCK FALSE
