CONSTANTS
  a = a
  b = b
  c1 = c1
  c2 = c2
  c3 = c3
  w1 = w1
  w2 = w2
  Users = {a, b}
  Conns = {c1, c2, c3}
  Workers = {w1, w2}
  Members = {a, b}
  Requests <- DmRequests
  NoUser = NoUser
  NoConn = NoConn
  NoJob = NoJob
  MaxMessages = 1
  SplitDrain = TRUE
  DbMayFail = FALSE
  Pipelined = FALSE
SYMMETRY Symmetry
SPECIFICATION Spec
CHECK_DEADLOCK FALSE
INVARIANT NoMessageLost
