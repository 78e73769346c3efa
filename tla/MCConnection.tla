---------------------------- MODULE MCConnection ----------------------------
(* Instances of Connection for TLC. *)
EXTENDS Connection, TLC

\* Frames and threads are interchangeable.
Symmetry == Permutations(Frames) \cup Permutations(Threads)
=============================================================================
