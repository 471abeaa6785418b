SPECIFICATION Spec
CONSTANTS
  MaxRotations = 2
  MaxOutages = 2
  Handler = {h1, h2}
  MaxStates = 2
  MaxMishaps = 1
  Tab = {t1, t2}
  Prepared = {1}
  Lifetime = 1
  Window = 2
  Keep = 0
  Eternity = 4
  MaxLosses = 2
INVARIANTS NeverAhead FeedTrue OneSnapshot ActsOnce
PROPERTIES Converges RetriesSettle Onboards
CHECK_DEADLOCK FALSE
