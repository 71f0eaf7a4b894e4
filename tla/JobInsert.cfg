SPECIFICATION JSpec
CONSTANTS
  a1 = a1  a2 = a2  a3 = a3  o1 = o1
  Adders = {a1, a2, a3}
  Orders = {o1}
  Prices <- MCPrices
  MaxBigint = 3
  NoJob = NoJob
INVARIANTS
  NoStandstill
  TotalIsSum
  RedirectedIsStored
  AnsweredHoldsNoLock
  IInv
  FailedIsNotStored
PROPERTIES
  Answered
  ImplementsLedger
