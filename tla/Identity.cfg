SPECIFICATION IdentitySpec
CONSTANTS
  Tokens = {t1, t2}
  Users = {a, b}
  Workers = {w1, w2}
  NoToken = NoToken
  NoUser = NoUser
  Ttl = 4
  Second = 2
  MaxTime = 7
  Names = {n1}
  Passwords = {p1, p2}
  Conns = {c1, c2}
  IO = IO
  None = None
  LastTick = 2
SYMMETRY Symmetry
INVARIANTS NeverOutlivesTtl RevokedStaysDead SessionsSurvive LoginsAreJudged LastSeenIsFresh
