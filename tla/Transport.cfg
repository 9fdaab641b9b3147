\* Every operation, up to three attempts, a host that may never answer.
CONSTANTS
  Ops <- AllOps
  MaxRetries = 2
SPECIFICATION Spec
CHECK_DEADLOCK FALSE
INVARIANT OutcomeTrue
PROPERTIES QuietAfterFirstTimeSuccess OperationReturns ImplementsRemoteCall
