SPECIFICATION SubmissionsSpec
CONSTANTS
  Caller = {p1, p2}
  Argument = {a, b}
  MaxTries = 1
  MaxGaps = 0
  MaxLate = 1
  MaxCalls = 4
INVARIANT NeverAnothers
CHECK_DEADLOCK FALSE
