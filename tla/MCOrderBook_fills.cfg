SPECIFICATION Spec
CONSTANTS
  b1 = b1  b2 = b2  a1 = a1  a2 = a2  x = x  y = y  z = z
  Orders = {b1, b2, a1, a2}
  Traders = {x, y, z}
  Terms <- Rounding
  InitialFree <- Funds
  CidRank <- Rank
  Scale = 10
  CrossAdmin = FALSE
  Dates = TRUE
  CancelsAllowed = FALSE
  Runs = {r1}
  MaxFaults = 0
INVARIANTS TypeOK FundingCovers TradesExplainHoldings FillsInOrder RunFollowsBook
CHECK_DEADLOCK FALSE
