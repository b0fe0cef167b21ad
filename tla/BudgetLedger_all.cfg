SPECIFICATION FairSpec
CONSTANTS
  s1 = s1
  s2 = s2
  s3 = s3
  r1 = r1
  r2 = r2
  r3 = r3
  pool = pool
  None = None
  Pools = {pool}
  PoolOf <- OnePool
  Sessions = {s1, s2}
  Requests = {r1}
  Amounts <- OneAmount
  Total <- TotalTwo
  Ceiling = 3
  Ops <- Everything
INVARIANTS TypeOK CheckedBalanceHolds
PROPERTIES SessionsFinish
