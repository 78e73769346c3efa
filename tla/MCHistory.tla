----------------------------- MODULE MCHistory -----------------------------
(* Small instances of History.                                              *)
EXTENDS History

CONSTANTS a, b, r

\* Two users write to each other, and to a room.
TwoUsers == {[from |-> a, to |-> b], [from |-> b, to |-> a], [from |-> a, to |-> r]}

\* Their conversation, the room's, and a request that names neither.
Asked == {{a, b}, {r}, {}}

\* Instants one, two and three digits of milliseconds into a second, and one in the next.
Instants == <<1005, 1020, 1101, 2001>>

\* None, a small one, one above the cap, and one that wraps.
AllLimits == {0, 1, 2, 3, -1}
=============================================================================
