---------------------------- MODULE MCOdbcHandles ----------------------------
(* Small instances of OdbcHandles.                                         *)
EXTENDS OdbcHandles, TLC

MCSymmetry == Permutations(Threads) \cup Permutations(Connections)
=============================================================================
