SPECIFICATION Spec
CONSTANTS
  t1 = t1  t2 = t2  s1 = s1  s2 = s2  s3 = s3
  Operator = op
  Traders = {t1}
  Flows = {f1, f2}
  Slots = {s1, s2}
  Scale = 10
  FeeBps = 300
  Dust = 0
  CrossAdmin = TRUE
  InitialSlices <- SingleSlices
  InitialFree <- FundedFree
  SwapInputs = {9}
  Offers <- OneOffer
  Redemptions = {7}
  CancelsAllowed = TRUE
  Overrides = {26}
SYMMETRY Symmetric
INVARIANTS SliceBacked NothingLost
