\* Two processes want the lock at the same time; nothing crashes.
SPECIFICATION LockSpec
CONSTANTS
  Process = {p1, p2}
  Pid = {i1, i2}
  Strangers = {}
  MaxCrashes = 0
  None = None
SYMMETRY Symmetry
INVARIANTS
  Exclusive
