SPECIFICATION Spec
CONSTANTS
  r1 = r1  r2 = r2  e1 = e1  b1 = b1  b2 = b2  m1 = m1  m2 = m2  w1 = w1  w2 = w2
  Requests = {r1, r2}
  Seeded = {e1}
  Browsers = {b1, b2}
  Emails = {m1, m2}
  Passwords = {w1, w2}
  Levels <- MCLevels
  Blank = Blank
  NoOne = NoOne
  NoAccount = NoAccount
SYMMETRY Symmetric
PROPERTIES
  EmptyPasswordKeeps
