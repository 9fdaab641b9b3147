\* One adapter; two goroutines create up to two switches and destroy them.
CONSTANTS
  Adapters = {c1}
  Admins = {a1, a2}
  Names = {n1, n2}
  MaxSwitches = 2
SPECIFICATION Spec
SYMMETRY Symmetry
CHECK_DEADLOCK FALSE
INVARIANTS AdaptersAsTold Undoable VerdictsOnSwitches
