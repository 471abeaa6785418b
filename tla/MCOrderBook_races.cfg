SPECIFICATION Spec
CONSTANTS
  b1 = b1  b2 = b2  a1 = a1  a2 = a2  x = x  y = y  z = z
  Orders = {b1, b2, a1}
  Traders = {x, y}
  Terms <- Chain
  InitialFree <- Rich
  CidRank <- Rank
  Scale = 10
  CrossAdmin = TRUE
  Dates = FALSE
  CancelsAllowed = TRUE
  Runs = {r1, r2}
  MaxFaults = 1
SYMMETRY RunsAlike
INVARIANTS SettledOnce RunFollowsBook
CHECK_DEADLOCK FALSE
