SPECIFICATION Spec
CONSTANTS
  Conns = {c1, c2}
  Workers = {w1}
  IO = IO
  Free = Free
  NoConn = NoConn
INVARIANTS RegistryIsExact TeardownIsComplete StopWaitsForSteps WaitingIsAnnounced
SYMMETRY Symmetry
CHECK_DEADLOCK FALSE
