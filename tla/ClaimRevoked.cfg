SPECIFICATION Spec
CONSTANTS
  Null = Null
  c1 = c1 c2 = c2 k1 = k1 k2 = k2 h1 = h1 h2 = h2 s1 = s1
  Callers = {c1, c2}
  Ids = {k1}
  Hashes = {h1}
  Scopes = {}
  Ops = {"createKey", "verifyKey", "revokeKey"}
  Plugins <- LimitsFirst
  AutoDelete = FALSE
  StoreFails = FALSE
  Expiries <- NullOnly
  Budgets = {1}
  TopUps = {1}
  Extensions = {2}
  BatchSizes = {1}
  Lags = {0}
  MaxTime = 1
  MaxUses = 2
  MaxExpiry = 3
PROPERTY RevokedUntilDeleted
