SPECIFICATION Spec
CONSTANTS
  Null = Null
  w1 = w1 w2 = w2 k1 = k1 k2 = k2 a1 = a1 n1 = n1
  Keys = {k1}
  Ids = {k1}
  Hashes = {k1}
  Scopes <- ScopeNames
  Callers = {w1, w2}
  Addresses = {a1}
  Limit = 1
  Remaining = {1}
  Grants <- Premium
  Names = {n1}
CHECK_DEADLOCK FALSE
SYMMETRY Symmetry
INVARIANTS TypeOK MapsAgree
PROPERTIES RevokedStaysRevoked KeysComeWithTheirScopes
