SPECIFICATION Spec
CONSTANTS
  Null = Null
  c1 = c1 k1 = k1 k2 = k2 h1 = h1 h2 = h2 s1 = s1
  Callers = {c1}
  Ids = {k1, k2}
  Hashes = {h1, h2}
  Scopes = {s1}
  Ops <- EveryOp
  Plugins <- AllPlugins
  AutoDelete = TRUE
  StoreFails = FALSE
  Expiries <- NeverOr0Or2
  Budgets <- NullOr1
  TopUps = {0, 1}
  Extensions = {0, 1}
  BatchSizes = {1, 2}
  Lags <- BeforeAndAfter
  MaxTime = 2
  MaxUses = 2
  MaxExpiry = 3
SYMMETRY Symmetry
PROPERTY IsKeyService
