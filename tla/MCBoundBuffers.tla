--------------------------- MODULE MCBoundBuffers ---------------------------
(* Small instances of BoundBuffers.                                        *)
EXTENDS BoundBuffers, TLC

MCUsedTogether == {Columns, Params}

MCSymmetry == Permutations(AppBuffers)
=============================================================================
