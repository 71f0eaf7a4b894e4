SPECIFICATION Spec
CONSTANTS
  c1 = c1  c2 = c2  p1 = p1  p2 = p2  k1 = k1  k2 = k2  r1 = r1  r2 = r2
  Clients = {c1, c2}
  Parents = {p1, p2}
  Kinds = {k1, k2}
  Archived = k1
  Rows = {r1, r2}
  Empty = Empty
  NoSuch = NoSuch
SYMMETRY Symmetric
INVARIANTS
  TypeOK
  OnlyAsked
  WholeList
  RowsAreNamed
  SensibleIsListed
