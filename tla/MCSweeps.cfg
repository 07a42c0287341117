SPECIFICATION FairSpec
CONSTANTS
  Null = Null
  c1 = c1 c2 = c2 k1 = k1 k2 = k2 h1 = h1 h2 = h2 s1 = s1
  Callers = {c1, c2}
  Ids = {k1, k2}
  Hashes = {h1, h2}
  Scopes = {}
  Ops <- SweepOps
  Plugins <- NoPlugins
  AutoDelete = TRUE
  StoreFails = TRUE
  Expiries = {1}
  Budgets <- NullOr0
  TopUps = {1}
  Extensions = {1}
  BatchSizes = {2}
  Lags = {0}
  MaxTime = 1
  MaxUses = 2
  MaxExpiry = 3
INVARIANT OneKeyPerHash
PROPERTY CallsComplete
