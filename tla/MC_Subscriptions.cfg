SPECIFICATION Spec
CONSTANTS
  c1 = c1
  c2 = c2
  c3 = c3
  t1 = t1
  t2 = t2
  Calls = {c1, c2}
  Threads = {t1, t2}
  MaxSubs = 2
  MaxDrops = 1
  MaxEvents = 1
SYMMETRY CallSymmetry
CHECK_DEADLOCK FALSE
INVARIANTS NoStrayStream SelectedIsStreamed
