SPECIFICATION Spec
CONSTANTS
  alice = alice
  d1 = d1
  d2 = d2
  Caller = {p1, p2}
  Argument = {a, b}
  MaxTries = 2
  MaxGaps = 2
  MaxCalls = 4
  MaxLate = 1
  Dealer = {1, 2}
  MaxQuotes = 2
  Deadline = 1
  MaxTime = 2
  Milli = 2
  Admins = {A, B}
  MaxFundings = 2
  Party = {alice, bob}
  MaxConnects = 2
  MaxIssued = 2
  Deal = {d1, d2}
  MaxRestarts = 1
  MaxFills = 1
  MaxSlips = 2
  MaxClicks = 2
  Purses <- PurseSet
  Amounts = {1, 2, 3, 4, 5, 6, 7, 8}
  MaxBumps = 1
  MaxCommands = 3
  Scale = 10
  Markets <- FoundPools
  FeeBps = 300
  Dust = 1
  OffRatioBps = 500
  SlipPermille = 5
  Display = 10
  Typed = {200}
  Percents = {50, 100}
  MaxMoves = 2
  c1 = c1
  Client = {c1, c2}
  Capacity = 2
  PerRequest = 2
  MaxIdle = 4
  SweepEvery = 3
  MaxOpen = 1
  Retries = 2
  MaxOffset = 2
  g1 = g1
  g2 = g2
  a1 = a1
  Page = {g1, g2}
  Account = {a1, a2}
  MaxCoins = 1
  MaxRounds = 2
  MaxGlitches = 1
  MaxLinks = 2
  MaxUnlinks = 2
  MaxTurns = 2
  r1 = r1
  Rfq = {r1}
  MaxTaps = 2
  MaxAbsences = 2
  MaxUnheard = 1
  MaxPosted = 1
INVARIANTS
  OwnAnswer RepeatsExplained
  BothLegsOrNone ContextFits RankingsAgree
  TokensTrue
  ToldTrue
  FundsFound
  RecoveredInOrder
  AsShown
  WithinRate ServedProperly AnswersTrue
  SettlesItsOwn
  LinkTrue
  RfqShown
CHECK_DEADLOCK FALSE
