------------------------------ MODULE MCServer ------------------------------
(* Small instances of Server.                                               *)
EXTENDS Server, TLC

\* Clients are interchangeable, and so are workers.
Symmetry == Permutations(Conns) \cup Permutations(Workers)
=============================================================================
