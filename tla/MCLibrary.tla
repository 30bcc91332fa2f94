-------------------------------- MODULE MCLibrary --------------------------------
\* Two rows, so that a copy and its source go their own ways.
EXTENDS LibraryUse, TLC

RowSymmetry == Permutations(Uuid)
================================================================================
