CONSTANTS
  p1 = p1  p2 = p2  p3 = p3  b1 = b1
  Procs = {p1, p2}
  Bundles = {b1}
  BundleOf <- OneBundle
  MaxStackDepth = 2
SPECIFICATION Spec
CHECK_DEADLOCK FALSE
INVARIANTS OwnCleanRootfs
