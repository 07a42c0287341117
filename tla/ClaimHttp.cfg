SPECIFICATION Spec
CONSTANTS
  Null = Null
  c1 = c1 c2 = c2 k1 = k1
  Callers = {c1}
  Ids = {k1}
  Servers <- Strict
  Failures = {}
  Timeout = FALSE
  MaxLate = 1
PROPERTY AcceptsEveryStatus
