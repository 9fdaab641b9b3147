\* Two goroutines, two values besides zero; a property with a value field,
\* one with a pointer field, and one that is cleared.
CONSTANTS
  Clients = {c1, c2}
  ValueFields = {fv, fr}
  PointerFields = {fp}
  ClearedFields = {fr}
  IgnoredFields = {fr}
  NonZero = {n1, n2}
  Zero = zero
  Null = null
SPECIFICATION Spec
SYMMETRY Symmetry
CHECK_DEADLOCK FALSE
INVARIANTS TakesEffect
PROPERTY NothingElseLost
