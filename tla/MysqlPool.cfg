CONSTANTS
  Handlers = {w1, w2}
  Io = io
  Conns = {c1, c2}
  None = None
  MaxRequests = 2
  MaxOutages = 2
SPECIFICATION LiveSpec
CHECK_DEADLOCK FALSE
INVARIANTS LeasesAreExclusive NobodySleepsInVain
PROPERTIES Served
