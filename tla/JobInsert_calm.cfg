SPECIFICATION CalmSpec
CONSTANTS
  a1 = a1  a2 = a2  a3 = a3  o1 = o1
  Adders = {a1, a2}
  Orders = {o1}
  Prices <- MCPrices
  MaxBigint = 9
  NoJob = NoJob
INVARIANTS
  FailureMeansBiggerProblem
