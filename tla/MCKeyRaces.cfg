SPECIFICATION LedgerSpec
CONSTANTS
  MaxGranted = 3
  Null = Null
  c1 = c1 c2 = c2 k1 = k1 h1 = h1 h2 = h2
  Callers = {c1, c2}
  Ids = {k1}
  Hashes = {h1, h2}
  Scopes = {}
  Ops <- RaceOps
  Plugins <- LimitsAndSwitch
  AutoDelete = TRUE
  StoreFails = TRUE
  Expiries = {2}
  Budgets <- NullOr2
  TopUps = {1}
  Extensions = {1}
  BatchSizes = {1}
  Lags = {0}
  MaxTime = 2
  MaxUses = 2
  MaxExpiry = 3
SYMMETRY Symmetry
INVARIANTS TypeOK NeverOvercharged
PROPERTIES DeadStaysDead SpentStaysSpent DisabledStaysDisabled
