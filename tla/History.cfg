CONSTANTS
  a = a
  b = b
  r = r
  Users = {a, b}
  Rooms = {r}
  Posts <- TwoUsers
  Queries <- Asked
  Limits <- AllLimits
  Clock <- Instants
  Word = 8
  Cap = 2
  Fits = 2
  None = None
SPECIFICATION Spec
INVARIANTS PagesAreExact StoresAgree TimesKeepOrder
