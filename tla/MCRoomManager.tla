--------------------------- MODULE MCRoomManager ---------------------------
(* Small instances of RoomManager.                                          *)
EXTENDS RoomManager, TLC

CONSTANTS a, b, lobby

\* The workers are interchangeable.
Symmetry == Permutations(Handlers)

Req(kind, user) == [kind |-> kind, room |-> lobby, user |-> user]

\* a comes, reads and goes while b, a member since it made the room, writes.
ComingAndGoing ==
  {Req("join", a), Req("leave", a), Req("history", a), Req("create", b), Req("send", b)}
=============================================================================
