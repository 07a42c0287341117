SPECIFICATION Spec
CONSTANTS
  Null = Null
  c1 = c1 c2 = c2
  Callers = {c1, c2}
  Kinds = {"fixed", "tokenBucket"}
  FixedAdapters = {"memory", "sqlite", "redis-eval", "redis-incr", "redis-ttl", "redis-nottl",
    "postgres", "sqlite-shared", "kv"}
  BucketAdapters = {"memory", "redis-eval", "sqlite-shared"}
  Limits = {0, 1, 2}
  Duration = 2
  Second = 3
  MaxCount = 4
  Capacities = {1, 2}
  Costs = {1, 2}
  Refill = 2
  Interval = 3
  Grain = 3
  MaxTime = 5
SYMMETRY Symmetry
INVARIANTS TypeOK ExactLimit BurstAndRateBounded ResetIsKept
PROPERTY NoEndlessWindow
CHECK_DEADLOCK FALSE
