---------------------------- MODULE MCMysqlPool ----------------------------
(* Small instances of MysqlPool.                                            *)
EXTENDS MysqlPool, TLC

\* Handlers are interchangeable, and so are connections.
Symmetry == Permutations(Handlers) \cup Permutations(Conns)
=============================================================================
