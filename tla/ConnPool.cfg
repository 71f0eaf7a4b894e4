SPECIFICATION PoolSpec
CONSTANTS
  r1 = r1  r2 = r2
  Requests = {r1, r2}
  Limit = 5
  Pages <- MCPages
INVARIANT
  PoolInv
PROPERTIES
  Answered
  StarvedOnlyWhenCrowded
  ImplementsLeases
