------------------------- MODULE MCReadWriteSplitting -------------------------
(* Small instances of ReadWriteSplitting.                                  *)
EXTENDS ReadWriteSplitting, TLC

MCSymmetry == Permutations(Handles) \cup Permutations(Statements)
=============================================================================
