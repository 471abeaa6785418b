SPECIFICATION PoolDeskSpec
CONSTANTS
  Handler = {h1}
  MaxStates = 2
  MaxMishaps = 1
INVARIANT RetryAdmitted
CHECK_DEADLOCK FALSE
