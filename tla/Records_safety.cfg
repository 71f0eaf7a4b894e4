SPECIFICATION Spec
CONSTANTS
  r1 = r1  r2 = r2  c1 = c1  c2 = c2
  Requests = {r1, r2}
  Seeds = {c1, c2}
  Old = {c1, c2}
  NoRow = NoRow
SYMMETRY Symmetric
INVARIANTS
  AnswersAreTrue
  OneClient
  ClosedByDone
  IInv
PROPERTIES
  SoloAddsAreCurrent
  ImplementsBooks
