SPECIFICATION ModeSpec
CONSTANTS
  s1 = s1
  s2 = s2
  s3 = s3
  r1 = r1
  r2 = r2
  r3 = r3
  pool = pool
  None = None
  Pools = {pool}
  PoolOf <- OnePool
  Sessions = {s1, s2, s3}
  Requests = {r1, r2, r3}
  Amounts <- TwoAmounts
  Total <- TotalThree
  Ceiling = 6
  Ops <- Everything
SYMMETRY Symmetry
INVARIANTS DeductedIffLocked CheckedBalanceHolds SerialBalanced
PROPERTIES LifecycleSteps
CHECK_DEADLOCK FALSE
