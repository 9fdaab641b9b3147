\* Three instances in up to three pages, one of them or more empty, one retry.
CONSTANTS
  Total = 3
  MaxPulls = 4
  MaxRetries = 1
SPECIFICATION EnumFairSpec
CHECK_DEADLOCK FALSE
INVARIANTS ReadToTheEnd RefusedForACause
PROPERTY CallReturns
