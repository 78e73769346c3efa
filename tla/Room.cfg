CONSTANTS
  a = a
  b = b
  lobby = lobby
  Users = {a, b}
  Rooms = {lobby}
  Handlers = {w1, w2, w3}
  NoJob = NoJob
  Requests <- ComingAndGoing
SYMMETRY Symmetry
SPECIFICATION RoomSpec
INVARIANTS CacheAgrees FanoutIsCurrent MembersAreServed
