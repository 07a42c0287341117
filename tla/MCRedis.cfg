SPECIFICATION Spec
CONSTANTS
  Null = Null
  Undefined = Undefined
  c1 = c1 c2 = c2 c3 = c3 k1 = k1 h1 = h1
  Callers = {c1, c2, c3}
  Ids = {k1}
  Hashes = {h1}
  Expiries <- NullOr1
  BatchSize = 2
  MaxTime = 2
  MaxExpiry = 2
SYMMETRY Symmetry
INVARIANTS TypeOK Findable NothingLeftBehind
PROPERTY DeadStaysDead
