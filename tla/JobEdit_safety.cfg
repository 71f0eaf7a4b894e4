SPECIFICATION Spec
CONSTANTS
  r1 = r1  r2 = r2  r3 = r3
  Requests = {r1, r2, r3}
  MaxTime = 2
  NoTime = NoTime
SYMMETRY Symmetric
INVARIANTS
  IInv
  TimesFollowStatus
  DoneAfterStart
PROPERTIES
  SoloEditKeepsTimes
  RedirectMeansStatus
