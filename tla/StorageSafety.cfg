\* Two goroutines attach to the same location or to two.
CONSTANTS
  Clients = {c1, c2}
  Locations = {l1, l2}
SPECIFICATION Spec
SYMMETRY Symmetry
CHECK_DEADLOCK FALSE
INVARIANTS OutcomesTrue OrderKept ReferencesSuffice
