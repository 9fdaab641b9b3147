\* Two goroutines and up to three requests that the host begins on.
CONSTANTS
  Clients = {c1, c2}
  MaxWork = 3
SPECIFICATION VmSpec
SYMMETRY Symmetry
CHECK_DEADLOCK FALSE
INVARIANTS VmTypeOK DoneAsTold ResolvesRight
