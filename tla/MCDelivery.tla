----------------------------- MODULE MCDelivery -----------------------------
(* Small instances of Delivery: which frames the clients send on which       *)
(* connection.                                                               *)
EXTENDS Delivery, TLC

CONSTANTS a, b, c1, c2, c3, w1, w2

Req(op, conn, user, to, n) == [op |-> op, conn |-> conn, user |-> user, to |-> to, n |-> n]

\* The workers are interchangeable.
Symmetry == Permutations(Workers)

\* a writes to b, who logs in, out, and in again on another connection.
DmRequests ==
  {Req("login", c1, a, NoUser, 0), Req("dm", c1, NoUser, b, 0),
   Req("login", c2, b, NoUser, 0), Req("logout", c2, NoUser, NoUser, 0),
   Req("login", c3, b, NoUser, 0)}

\* A room message by a, authenticated by token, while the frames of b's login,
\* logout and token query, sent without waiting, run in any order.
RoomRequests ==
  {Req("room", c1, a, NoUser, 0), Req("login", c2, b, NoUser, 0),
   Req("logout", c2, NoUser, NoUser, 0), Req("query", c2, b, NoUser, 0)}

\* One connection logs in as a and then as b.
TwoLogins == {Req("login", c1, a, NoUser, 0), Req("login", c1, b, NoUser, 1)}
=============================================================================
