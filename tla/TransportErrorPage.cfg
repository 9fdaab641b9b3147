\* Delete, answered by an HTTP error that is not a Fault.
CONSTANTS
  Ops <- OnlyDelete
  MaxRetries = 0
SPECIFICATION SafetySpec
CHECK_DEADLOCK FALSE
INVARIANTS HttpErrorsReported
