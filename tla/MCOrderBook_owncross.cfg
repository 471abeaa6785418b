SPECIFICATION Spec
CONSTANTS
  b1 = b1  b2 = b2  a1 = a1  a2 = a2  x = x  y = y  z = z
  Orders = {b1, b2, a1}
  Traders = {y, z}
  Terms <- OwnCross
  InitialFree <- Rich
  CidRank <- Rank
  Scale = 10
  CrossAdmin = FALSE
  Dates = TRUE
  CancelsAllowed = FALSE
  Runs = {r1}
  MaxFaults = 0
INVARIANTS CrossesPickedUp
CHECK_DEADLOCK FALSE
