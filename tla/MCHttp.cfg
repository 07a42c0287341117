SPECIFICATION FairSpec
CONSTANTS
  Null = Null
  c1 = c1 c2 = c2 k1 = k1
  Callers = {c1, c2}
  Ids = {k1}
  Servers <- Lenient
  Failures = {"500", "500 404"}
  Timeout = TRUE
  MaxLate = 1
INVARIANT TypeOK
PROPERTIES ReadsAreTrue ResolvedIsWritten RejectedIsNotWritten CallsComplete
