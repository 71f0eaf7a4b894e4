SPECIFICATION Spec
CONSTANTS
  r1 = r1  r2 = r2
  Requests = {r1, r2}
  Limit = 3
  Pages <- MCPages
INVARIANT
  TypeOK
PROPERTIES
  CutOnlyWhenDone
  Stops
