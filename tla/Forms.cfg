SPECIFICATION Spec
CONSTANTS
  u1 = u1  u2 = u2  home = home  work = work
  Users = {u1, u2}
  Texts = {"old", "new"}
  Addresses = {home, work}
  Nothing = Nothing
INVARIANT
  TypeOK
PROPERTIES
  OfferedIsTaken
  RowIsSomebodysForm
  SoloEditMeansIt
